------------------------------ MODULE Support ------------------------------
(***************************************************************************)
(* Support tickets of one user: the upload sessions that become attachments*)
(* the daily limit, and the replies and assignments of administrators.     *)
(*                                                                         *)
(* A request is made once.  What a ticket says is left out, and so are the *)
(* attachments sent inside it.                                             *)
(***************************************************************************)
EXTENDS Naturals, FiniteSets

CONSTANTS
    Requests,   \* of the user
    Sessions,   \* upload sessions of the purpose support-ticket
    Admins,     \* administrators at work at a time
    Kinds,      \* of requests: "user", "staff" and "commit"
    Limit,      \* MAX_DAILY_TICKETS
    LastDay,    \* bound: days
    MaxNotes,   \* bound: replies
    MayFail,    \* calls and writes may fail
    Sweeps      \* whether sessions expire and orphans are swept

VARIABLES
    counter,    \* SupportDailyCounter.count of each day, with whether it exists
    day,        \* today
    session,    \* the upload sessions in Redis
    bytes,      \* the images Cloudflare has
    ticket,     \* the ticket of each request
    req,        \* what each request is doing
    edit,       \* what each administrator is doing
    misplaced,  \* of each day: slots given back that were of a day before
    replied,    \* replies an administrator was told are saved
    overlapped, \* tickets on which two status updates overlapped
    orphan      \* sessions whose expiry time has passed, those the sweep has
                \* listed, and those that were consumed all the same

vars == <<counter, day, session, bytes, ticket, req, edit, misplaced, replied, overlapped, orphan>>
admin == <<edit, replied, overlapped>>
slots == <<counter, misplaced>>
media == <<session, bytes, orphan>>

Days == 1 .. LastDay
NoTicket == [day |-> 0, kind |-> "none", images |-> {}, status |-> "none", notes |-> {}, assigned |-> FALSE]
New == [at |-> "new", kind |-> "none", asked |-> {}, got |-> {}, taking |-> {}, day |-> 0]
Idle == [at |-> "idle"]

Init ==
    /\ counter = [d \in Days |-> [made |-> FALSE, count |-> 0]]
    /\ day = 1 /\ session = Sessions /\ bytes = Sessions
    /\ ticket = [r \in Requests |-> NoTicket]
    /\ req = [r \in Requests |-> New]
    /\ edit = [a \in Admins |-> Idle]
    /\ misplaced = [d \in Days |-> 0]
    /\ replied = {} /\ overlapped = {}
    /\ orphan = [due |-> {}, listed |-> {}, late |-> {}]

GoOn(r, from, to) == req[r].at = from /\ req' = [req EXCEPT ![r].at = to]

\* A request ends with an error.
Fails(r, from) == MayFail /\ GoOn(r, from, "over")

-----------------------------------------------------------------------------
(* Attachments: one session after the other *)

\* A request with its sessions.
Begin(r, kind, sessions) ==
    /\ req[r].at = "new" /\ kind \in Kinds
    /\ req' = [req EXCEPT ![r] = [at |-> "attach", kind |-> kind, asked |-> sessions,
                                  got |-> {}, taking |-> {}, day |-> 0]]
    /\ UNCHANGED <<day, media, ticket, slots, admin>>

\* createTicket
Submit(r, sessions) == Begin(r, "user", sessions) \/ Begin(r, "staff", sessions)

\* The endpoint that only commits attachments, and answers with them.
CommitSupportAttachments(r, sessions) == sessions # {} /\ Begin(r, "commit", sessions)

\* consumeSession reads the session; one that is not there ends the request.
Look(r, s) ==
    /\ req[r].at = "attach" /\ s \in req[r].asked \ req[r].got
    /\ req' = [req EXCEPT ![r].at = IF s \in session THEN "take" ELSE "over", ![r].taking = {s}]
    /\ UNCHANGED <<day, media, ticket, slots, admin>>

\* Mutant: whoever has read the session may use it.
TakeRead(r) ==
    /\ GoOn(r, "take", "check")
    /\ session' = session \ req[r].taking
    /\ orphan' = [orphan EXCEPT !.late = @ \cup (req[r].taking \cap session \cap orphan.due)]
    /\ UNCHANGED <<day, bytes, ticket, slots, admin>>

\* It deletes the key, and has the session when the key was still there.
Take(r) ==
    /\ GoOn(r, "take", IF req[r].taking \subseteq session THEN "check" ELSE "over")
    /\ session' = session \ req[r].taking
    /\ orphan' = [orphan EXCEPT !.late = @ \cup (req[r].taking \cap session \cap orphan.due)]
    /\ UNCHANGED <<day, bytes, ticket, slots, admin>>

\* Cloudflare is asked about the image, and it counts against the quota.  An
\* image of another format is deleted; any failure ends the request.
Check(r) ==
    /\ req[r].at = "check"
    /\ \/ /\ req[r].taking \subseteq bytes
          /\ req' = [req EXCEPT ![r].at = "attach", ![r].got = @ \cup req[r].taking, ![r].taking = {}]
          /\ UNCHANGED bytes
       \/ /\ MayFail \/ ~ req[r].taking \subseteq bytes
          /\ GoOn(r, "check", "over") /\ bytes' \in {bytes, bytes \ req[r].taking}
    /\ UNCHANGED <<day, session, ticket, slots, admin, orphan>>

\* Mutant: the ticket takes what there is of its attachments.
AttachedSome(r) ==
    /\ req[r].at = "attach"
    /\ req' = [req EXCEPT ![r].at = CASE req[r].kind = "user" -> "reserve"
                                      [] req[r].kind = "staff" -> "create"
                                      [] OTHER -> "over",
                          ![r].day = day]
    /\ UNCHANGED <<day, media, ticket, slots, admin>>

\* All are there.  A commit answers with them; staff have no daily limit.
\* reserveDailySupportTicketSlot looks at the clock once.
Attached(r) ==
    /\ req[r].at = "attach" /\ req[r].got = req[r].asked
    /\ req' = [req EXCEPT ![r].at = CASE req[r].kind = "user" -> "reserve"
                                      [] req[r].kind = "staff" -> "create"
                                      [] OTHER -> "over",
                          ![r].day = day]
    /\ UNCHANGED <<day, media, ticket, slots, admin>>

\* The expiry time of a session passes, and a little later its key expires.
FallDue(s) ==
    /\ Sweeps /\ s \in Sessions \ orphan.due
    /\ orphan' = [orphan EXCEPT !.due = @ \cup {s}]
    /\ UNCHANGED <<day, session, bytes, ticket, slots, req, admin>>

ExpireSession(s) ==
    /\ s \in orphan.due \cap session
    /\ session' = session \ {s}
    /\ UNCHANGED <<day, bytes, orphan, ticket, slots, req, admin>>

\* Mutant: sessions are listed before their time is over.
ListAll ==
    /\ Sweeps /\ orphan.listed = {} /\ session # {}
    /\ orphan' = [orphan EXCEPT !.listed = session]
    /\ UNCHANGED <<day, session, bytes, ticket, slots, req, admin>>

\* The sweep of orphans lists the sessions that are due and still there, and
\* deletes image and session of one after the other.
ListExpiredSessions ==
    /\ Sweeps /\ orphan.listed = {} /\ orphan.due \cap session # {}
    /\ orphan' = [orphan EXCEPT !.listed = orphan.due \cap session]
    /\ UNCHANGED <<day, session, bytes, ticket, slots, req, admin>>

SweepOrphan(s) ==
    /\ s \in orphan.listed
    /\ bytes' \in {bytes, bytes \ {s}} /\ session' = session \ {s}
    /\ orphan' = [orphan EXCEPT !.listed = @ \ {s}]
    /\ UNCHANGED <<day, ticket, slots, req, admin>>

-----------------------------------------------------------------------------
(* The daily limit *)

\* Mutant: the limit is not part of the update's filter.
CountsAny(d) == counter[d].made

\* findOneAndUpdate of a count below the limit.
Counts(d) == counter[d].made /\ counter[d].count < Limit

Reserve(r) ==
    /\ LET d == req[r].day IN
       /\ GoOn(r, "reserve", IF Counts(d) THEN "resolve" ELSE "make")
       /\ counter' = IF Counts(d) THEN [counter EXCEPT ![d].count = @ + 1] ELSE counter
    /\ UNCHANGED <<day, media, ticket, misplaced, admin>>

\* Mutant: the first counter of the day is written whether there is one or not.
MakeAgain(r) ==
    /\ GoOn(r, "make", "resolve")
    /\ counter' = [counter EXCEPT ![req[r].day] = [made |-> TRUE, count |-> 1]]
    /\ UNCHANGED <<day, media, ticket, misplaced, admin>>

\* The first of the day; the unique index refuses a second counter.
Make(r) ==
    /\ LET d == req[r].day IN
       /\ GoOn(r, "make", IF counter[d].made THEN "again" ELSE "resolve")
       /\ counter' = IF counter[d].made THEN counter
                     ELSE [counter EXCEPT ![d] = [made |-> TRUE, count |-> 1]]
    /\ UNCHANGED <<day, media, ticket, misplaced, admin>>

\* The update once more; then it is 429.
ReserveAgain(r) ==
    /\ LET d == req[r].day IN
       /\ GoOn(r, "again", IF Counts(d) THEN "resolve" ELSE "over")
       /\ counter' = IF Counts(d) THEN [counter EXCEPT ![d].count = @ + 1] ELSE counter
    /\ UNCHANGED <<day, media, ticket, misplaced, admin>>

\* The membership tier and the reported creator; a failure keeps the slot.
Resolve(r) ==
    /\ GoOn(r, "resolve", "create") \/ Fails(r, "resolve")
    /\ UNCHANGED <<day, media, ticket, slots, admin>>

CreateTicket(r) ==
    /\ req[r].at = "create"
    /\ \/ /\ GoOn(r, "create", "over")
          /\ ticket' = [ticket EXCEPT ![r] =
                [day |-> req[r].day, kind |-> req[r].kind, images |-> req[r].got,
                 status |-> "open", notes |-> {}, assigned |-> FALSE]]
       \/ /\ MayFail /\ UNCHANGED ticket
          /\ GoOn(r, "create", IF req[r].kind = "user" THEN "release" ELSE "over")
    /\ UNCHANGED <<day, media, slots, admin>>

\* releaseDailySupportTicketSlot looks at the clock again; its failure is caught.
Release(r) ==
    /\ GoOn(r, "release", "over")
    /\ \/ /\ counter[day].count > 0
          /\ counter' = [counter EXCEPT ![day].count = @ - 1]
          /\ misplaced' = IF day = req[r].day THEN misplaced ELSE [misplaced EXCEPT ![day] = @ + 1]
       \/ (counter[day].count = 0 \/ MayFail) /\ UNCHANGED slots
    /\ UNCHANGED <<day, media, ticket, admin>>

Midnight ==
    /\ day < LastDay /\ day' = day + 1
    /\ UNCHANGED <<media, ticket, slots, req, admin>>

-----------------------------------------------------------------------------
(* Administrators *)

\* updateTicketStatus and assignTicket read the ticket.
Open(a, r, what) ==
    /\ edit[a] = Idle /\ ticket[r] # NoTicket /\ Cardinality(replied) < MaxNotes
    /\ edit' = [edit EXCEPT ![a] = [at |-> what, ticket |-> r, read |-> ticket[r]]]
    /\ overlapped' = IF what = "status" /\ \E b \in Admins \ {a} : edit[b].at = "status" /\ edit[b].ticket = r
                     THEN overlapped \cup {r} ELSE overlapped
    /\ UNCHANGED <<counter, day, media, ticket, req, misplaced, replied>>

\* Mutant: every path of the document is saved.
SavedWhole(r, read) == read

\* save() of a document sends the paths that were set: the others stay as
\* they are, whatever was read.
Saved(r, read) == ticket[r]

\* A reply is appended to the notes that were read.
UpdateTicketStatus(a) ==
    /\ edit[a].at = "status"
    /\ LET r == edit[a].ticket
           note == Cardinality(replied) + 1
       IN \E status \in {"open", "closed"} :
             /\ ticket' = [ticket EXCEPT ![r] = [Saved(r, edit[a].read) EXCEPT
                              !.status = status, !.notes = edit[a].read.notes \cup {note}]]
             /\ replied' = replied \cup {<<r, note, status>>}
    /\ edit' = [edit EXCEPT ![a] = Idle]
    /\ UNCHANGED <<counter, day, media, req, misplaced, overlapped>>

AssignTicket(a) ==
    /\ edit[a].at = "assign"
    /\ LET r == edit[a].ticket IN
       \E to \in BOOLEAN : ticket' = [ticket EXCEPT ![r] = [Saved(r, edit[a].read) EXCEPT !.assigned = to]]
    /\ edit' = [edit EXCEPT ![a] = Idle]
    /\ UNCHANGED <<counter, day, media, req, misplaced, replied, overlapped>>

-----------------------------------------------------------------------------
Next ==
    \/ \E r \in Requests :
          \/ \E sessions \in SUBSET Sessions : Submit(r, sessions) \/ CommitSupportAttachments(r, sessions)
          \/ \E s \in Sessions : Look(r, s)
          \/ Take(r) \/ Check(r) \/ Attached(r)
          \/ Reserve(r) \/ Make(r) \/ ReserveAgain(r) \/ Resolve(r) \/ CreateTicket(r) \/ Release(r)
    \/ \E a \in Admins :
          \/ \E r \in Requests, what \in {"status", "assign"} : Open(a, r, what)
          \/ UpdateTicketStatus(a) \/ AssignTicket(a)
    \/ \E s \in Sessions : FallDue(s) \/ ExpireSession(s) \/ SweepOrphan(s)
    \/ ListExpiredSessions \/ Midnight

Spec == Init /\ [][Next]_vars

-----------------------------------------------------------------------------
\* Requests of the user that hold a slot of a day.
Holders(d) == {r \in Requests : req[r].kind = "user" /\ req[r].day = d
                             /\ (req[r].at \in {"resolve", "create", "release"} \/ ticket[r] # NoTicket)}

\* However requests overlap and fail, the tickets of a day and those under way
\* are counted, and no more than the limit; but for slots of the day before that
\* were given back after midnight.
TicketsWithinLimit ==
    \A d \in Days : /\ counter[d].count <= Limit
                    /\ Cardinality(Holders(d)) <= counter[d].count + misplaced[d]

\* A ticket has all the images it was sent with, no other ticket has one of
\* them, however many requests present its session, and Cloudflare still has
\* them, but for those whose session was consumed when its time was over, which
\* the sweep may have listed before.
AttachedWhole ==
    \A r \in Requests : ticket[r] # NoTicket =>
        /\ ticket[r].images = req[r].asked /\ ticket[r].images \ orphan.late \subseteq bytes
        /\ \A q \in Requests \ {r} : ticket[q] # NoTicket => ticket[q].images \cap ticket[r].images = {}

\* A reply that was saved stays on its ticket, whoever assigns the ticket at the
\* same time; two replies at once may lose one.
RepliesKept ==
    \A n \in replied : n[1] \in overlapped \/ n[2] \in ticket[n[1]].notes
=============================================================================
