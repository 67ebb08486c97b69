----------------------------- MODULE Engagement -----------------------------
(***************************************************************************)
(* Likes, comments and views of one moment.  Rows are unique by their      *)
(* index; the counters beside them are separate writes, raised and lowered *)
(* after the row and set to zero when they were seen below it.             *)
(***************************************************************************)
EXTENDS Integers, FiniteSets

CONSTANTS Users, Requests, Comments,
          Entitled,    \* users with access to the moment
          Kinds,       \* operations asked for: like, comment, view
          Moment,      \* the moment, liked like a comment
          Author,      \* the user behind the creator of the moment
          MaxCount,    \* bound on a counter of likes
          Overlap      \* whether handlers overlap

Targets == {Moment} \cup Comments

VARIABLES deleted,   \* isDeleted of the moment
          likes,     \* MomentLike and MomentCommentLike rows
          count,     \* likesCount of each
          reset,     \* whether a counter was set to zero
          comments,  \* MomentComment rows
          total,     \* commentsCount
          views,     \* MomentView rows
          viewed,    \* viewsCount
          score,     \* engagementScore
          req        \* requests under way

vars == <<deleted, likes, count, reset, comments, total, views, viewed, score, req>>

Absent == [state |-> "none"]
Idle == [at |-> "idle"]

Init == /\ deleted = FALSE
        /\ likes = [t \in Targets |-> {}] /\ count = [t \in Targets |-> 0]
        /\ reset = [t \in Targets |-> FALSE]
        /\ comments = [c \in Comments |-> Absent] /\ total = 0
        /\ views = {} /\ viewed = 0 /\ score = 0
        /\ req = [p \in Requests |-> Idle]

MayStart(p) == req[p].at = "idle" /\ (Overlap \/ \A q \in Requests : req[q].at = "idle")
Does(p, at, u, t) == req' = [req EXCEPT ![p] = [at |-> at, user |-> u, on |-> t]]
Ends(p) == req' = [req EXCEPT ![p] = Idle]

Live(c) == comments[c].state = "live"

\* assertMomentEngagementAccess, not asked for to take a like or a comment
\* back.
MayEngage(u) == ~ deleted /\ u \in Entitled \cup {Author}

\* deleteMomentHandler.
DeleteMoment == /\ ~ deleted /\ deleted' = TRUE
                /\ UNCHANGED <<likes, count, reset, comments, total, views, viewed, score, req>>

(***************************************************************************)
(* Likes of the moment and of a comment                                    *)
(***************************************************************************)
\* Both kinds of like up to the look at the existing row.
Like(p, u, t) ==
    /\ "like" \in Kinds /\ MayStart(p) /\ MayEngage(u)
    /\ u \notin likes[t] /\ count[t] < MaxCount
    /\ Does(p, "create", u, t)
    /\ UNCHANGED <<deleted, likes, count, reset, comments, total, views, viewed, score>>

LikeMoment(p, u) == Like(p, u, Moment)
LikeMomentComment(p, u, c) == Live(c) /\ Like(p, u, c)

\* Without the unique index.
CreateTwice(p) == LET r == req[p] IN
    /\ r.at = "create"
    /\ likes' = [likes EXCEPT ![r.on] = @ \cup {r.user}] /\ Does(p, "inc", r.user, r.on)
    /\ UNCHANGED <<deleted, count, reset, comments, total, views, viewed, score>>

\* The second row of a user is refused by the index, and so is its request.
Create(p) == LET r == req[p] IN
    /\ r.at = "create"
    /\ \/ r.user \in likes[r.on] /\ Ends(p) /\ UNCHANGED likes
       \/ /\ r.user \notin likes[r.on] /\ Does(p, "inc", r.user, r.on)
          /\ likes' = [likes EXCEPT ![r.on] = @ \cup {r.user}]
    /\ UNCHANGED <<deleted, count, reset, comments, total, views, viewed, score>>

Raise(p) == LET t == req[p].on IN
    /\ req[p].at = "inc"
    /\ count' = [count EXCEPT ![t] = @ + 1]
    /\ score' = IF t = Moment THEN score + 1 ELSE score
    /\ Ends(p)
    /\ UNCHANGED <<deleted, likes, reset, comments, total, views, viewed>>

\* Lowers for a row that was gone.
UnlikeAnyway(p, u, t) ==
    /\ MayStart(p)
    /\ likes' = [likes EXCEPT ![t] = @ \ {u}] /\ Does(p, "dec", u, t) /\ count[t] > 0
    /\ UNCHANGED <<deleted, count, reset, comments, total, views, viewed, score>>

\* The row is found and deleted at once.
Unlike(p, u, t) ==
    /\ MayStart(p) /\ u \in likes[t]
    /\ likes' = [likes EXCEPT ![t] = @ \ {u}] /\ Does(p, "dec", u, t)
    /\ UNCHANGED <<deleted, count, reset, comments, total, views, viewed, score>>

UnlikeMoment(p, u) == ~ deleted /\ Unlike(p, u, Moment)
UnlikeMomentComment(p, u, c) == Live(c) /\ Unlike(p, u, c)

\* The counter is lowered, and set to zero next if that took it below.
Lower(p) == LET t == req[p].on IN
    /\ req[p].at = "dec"
    /\ count' = [count EXCEPT ![t] = @ - 1]
    /\ score' = IF t = Moment THEN score - 1 ELSE score
    /\ IF count[t] - 1 < 0 THEN Does(p, "reset", req[p].user, t) ELSE Ends(p)
    /\ UNCHANGED <<deleted, likes, reset, comments, total, views, viewed>>

Zero(p) == LET t == req[p].on IN
    /\ req[p].at = "reset"
    /\ count' = [count EXCEPT ![t] = 0] /\ reset' = [reset EXCEPT ![t] = TRUE] /\ Ends(p)
    /\ UNCHANGED <<deleted, likes, comments, total, views, viewed, score>>

(***************************************************************************)
(* Comments                                                                *)
(***************************************************************************)
\* createMomentComment, of the moment or of a comment that is shown.
Comment(p, u, c, top) ==
    /\ "comment" \in Kinds /\ MayStart(p) /\ MayEngage(u) /\ comments[c] = Absent
    /\ top \/ \E d \in Comments : Live(d)
    /\ comments' = [comments EXCEPT ![c] = [state |-> "live", by |-> u, top |-> top]]
    /\ IF top THEN Does(p, "incc", u, c) ELSE UNCHANGED req
    /\ UNCHANGED <<deleted, likes, count, reset, total, views, viewed, score>>

CountComment(p) ==
    /\ req[p].at = "incc" /\ total' = total + 1 /\ score' = score + 2 /\ Ends(p)
    /\ UNCHANGED <<deleted, likes, count, reset, comments, views, viewed>>

\* deleteMomentComment looks for the comment and its author.
DeleteComment(p, u, c) ==
    /\ MayStart(p) /\ ~ deleted /\ Live(c) /\ (comments[c].by = u \/ u = Author)
    /\ Does(p, "mark", u, c)
    /\ UNCHANGED <<deleted, likes, count, reset, comments, total, views, viewed, score>>

\* Counts replies too.
MarkAll(p) == LET c == req[p].on IN
    /\ req[p].at = "mark"
    /\ comments' = [comments EXCEPT ![c].state = "gone"]
    /\ Does(p, "decc", req[p].user, c)
    /\ UNCHANGED <<deleted, likes, count, reset, total, views, viewed, score>>

\* It is marked whether or not another request has marked it meanwhile.
Mark(p) == LET c == req[p].on IN
    /\ req[p].at = "mark"
    /\ comments' = [comments EXCEPT ![c].state = "gone"]
    /\ IF comments[c].top THEN Does(p, "decc", req[p].user, c) ELSE Ends(p)
    /\ UNCHANGED <<deleted, likes, count, reset, total, views, viewed, score>>

DiscountComment(p) ==
    /\ req[p].at = "decc" /\ total' = total - 1 /\ score' = score - 2
    /\ Does(p, "look", req[p].user, req[p].on)
    /\ UNCHANGED <<deleted, likes, count, reset, comments, views, viewed>>

\* Believes the counter.
LookNever(p) ==
    /\ req[p].at = "look" /\ Ends(p)
    /\ UNCHANGED <<deleted, likes, count, reset, comments, total, views, viewed, score>>

\* The moment is read again before the counter is set to zero.
LookAgain(p) ==
    /\ req[p].at = "look"
    /\ IF total < 0 THEN Does(p, "zero", req[p].user, req[p].on) ELSE Ends(p)
    /\ UNCHANGED <<deleted, likes, count, reset, comments, total, views, viewed, score>>

ZeroComments(p) ==
    /\ req[p].at = "zero" /\ total' = 0 /\ Ends(p)
    /\ UNCHANGED <<deleted, likes, count, reset, comments, views, viewed, score>>

(***************************************************************************)
(* recordUniqueMomentView, of recordMomentView and getMomentDetail         *)
(***************************************************************************)
View(p, u) ==
    /\ "view" \in Kinds /\ MayStart(p) /\ ~ deleted /\ u # Author /\ u \notin views
    /\ Does(p, "seen", u, Moment)
    /\ UNCHANGED <<deleted, likes, count, reset, comments, total, views, viewed, score>>

\* Counts a view that is there.
RecordTwice(p) == LET u == req[p].user IN
    /\ req[p].at = "seen"
    /\ views' = views \cup {u} /\ Does(p, "incv", u, Moment)
    /\ UNCHANGED <<deleted, likes, count, reset, comments, total, viewed, score>>

Record(p) == LET u == req[p].user IN
    /\ req[p].at = "seen"
    /\ IF u \in views THEN Ends(p) /\ UNCHANGED views
                      ELSE views' = views \cup {u} /\ Does(p, "incv", u, Moment)
    /\ UNCHANGED <<deleted, likes, count, reset, comments, total, viewed, score>>

CountView(p) ==
    /\ req[p].at = "incv" /\ viewed' = viewed + 1 /\ Ends(p)
    /\ UNCHANGED <<deleted, likes, count, reset, comments, total, views, score>>

Next == \/ \E p \in Requests, u \in Users : \/ LikeMoment(p, u) \/ UnlikeMoment(p, u)
                                            \/ \E c \in Comments : \/ LikeMomentComment(p, u, c)
                                                                   \/ UnlikeMomentComment(p, u, c)
                                                                   \/ DeleteComment(p, u, c)
                                            \/ \E c \in Comments, top \in BOOLEAN : Comment(p, u, c, top)
                                            \/ View(p, u)
        \/ \E p \in Requests : \/ Create(p) \/ Raise(p) \/ Lower(p) \/ Zero(p)
                               \/ CountComment(p) \/ Mark(p) \/ DiscountComment(p) \/ LookAgain(p) \/ ZeroComments(p)
                               \/ Record(p) \/ CountView(p)
        \/ DeleteMoment

Spec == Init /\ [][Next]_vars

----------------------------------------------------------------------------
Under(at, t) == Cardinality({p \in Requests : req[p].at = at /\ req[p].on = t})
TopLevel == {c \in Comments : comments[c].state = "live" /\ comments[c].top}

\* However likes and unlikes overlap, a counter that was never set to zero is
\* the number of rows, but for the writes under way.
LikesCounted ==
    \A t \in Targets : ~ reset[t] =>
        count[t] + Under("inc", t) - Under("dec", t) = Cardinality(likes[t])

\* Every viewer is counted once, however views overlap.
ViewsCounted == viewed + Under("incv", Moment) = Cardinality(views)

\* However deletions of a comment overlap, the counter of comments is not
\* below zero once they have ended.
NeverBelowZero == (\A p \in Requests : req[p].at = "idle") => total >= 0

\* With handlers that take turns no counter is ever set to zero, comments are
\* counted, and the score is the weight of likes and comments.
CommentsCounted ==
    (\A p \in Requests : req[p].at = "idle") =>
        /\ total = Cardinality(TopLevel)
        /\ score = Cardinality(likes[Moment]) + 2 * Cardinality(TopLevel)
        /\ \A t \in Targets : ~ reset[t]
=============================================================================
