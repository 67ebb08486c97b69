----------------------------- MODULE Onboarding -----------------------------
(***************************************************************************)
(* The stages a new user goes through.  Clients of two versions report the *)
(* screens they have shown and the decision on the permissions, repeat     *)
(* what was not answered, and overlap; every report reads the user and     *)
(* writes under a condition on what it has read.                           *)
(***************************************************************************)
EXTENDS Naturals, FiniteSets

CONSTANTS Handlers,  \* reports under way at a time
          Ids,       \* idempotency keys, mutation ids and request ids
          None       \* an id that is not given

VARIABLES user,      \* the onboarding fields; seen holds the stages with a timestamp
          open,      \* whether ONBOARDING_FAST_FORWARD_UNTIL is ahead
          req,       \* what each handler is about to write
          forwarded  \* whether the stages were skipped by rollout

vars == <<user, open, req, forwarded>>

Idle == [at |-> "idle"]

Init == /\ user \in [stage : {"welcome"}, flow : {1, 2}, seen : {{}}, accepted : {FALSE},
                     status : {"unknown"}, key : {None}, mut : {None}, rid : {None}]
        /\ open \in BOOLEAN /\ forwarded = FALSE
        /\ req = [h \in Handlers |-> Idle]

stageRank(s) == CASE s = "welcome" -> 1 [] s = "bonus" -> 2 [] s = "permissions" -> 3 [] OTHER -> 4

resolveEffectiveFlowVersion(version) == IF user.flow >= version THEN user.flow ELSE version

toNextStageFromEvent(event, flow) ==
    CASE event = "welcome_seen" -> IF flow = 2 THEN "permissions" ELSE "bonus"
      [] event = "permissions_accept" -> "completed"
      [] OTHER -> "permissions"

Edges(flow) == {<<"welcome", IF flow = 2 THEN "permissions" ELSE "bonus">>,
                <<"bonus", "permissions">>, <<"permissions", "completed">>}

isAllowedTransition(from, to, flow) == from = to \/ <<from, to>> \in Edges(flow)

Given(id) == id # None

\* checkTransitionMutationDedup
Replayed(mut) == Given(mut) /\ user.mut = mut

Keep(id, old) == IF Given(id) THEN id ELSE old

\* Marks a stage only on its way to the next one of version 1.
SeenOfOne(from, to) == (IF <<from, to>> \in {<<"welcome", "bonus">>, <<"bonus", "permissions">>} THEN {from} ELSE {})
                       \cup (IF to = "completed" /\ from = "permissions" THEN {to} ELSE {})

\* buildCompletionUpdate: the stage that is left is marked, and the end.
SeenOn(from, to) == (IF from \in {"welcome", "bonus"} THEN {from} ELSE {})
                    \cup (IF to = "completed" /\ from = "permissions" THEN {to} ELSE {})

(***************************************************************************)
(* applyOnboardingStageEvent: what is read decides what is written.  Every *)
(* report that leaves nothing to write ends here, whatever the strict mode *)
(* answers.                                                                *)
(***************************************************************************)
Advance(h, event, version, key, mut) ==
    LET flow == resolveEffectiveFlowVersion(version)
        to   == toNextStageFromEvent(event, flow) IN
    /\ req[h].at = "idle"
    /\ ~ Replayed(mut) /\ ~ (Given(key) /\ user.key = key)
    /\ stageRank(to) > stageRank(user.stage)
    /\ isAllowedTransition(user.stage, to, flow)
    /\ req' = [req EXCEPT ![h] = [at |-> "stage", from |-> user.stage, to |-> to, flow |-> flow,
                                  key |-> key, mut |-> mut]]
    /\ UNCHANGED <<user, open, forwarded>>

\* Writes without looking at the stage again.
WriteStageUnchecked(h) == LET w == req[h] IN
    /\ w.at = "stage"
    /\ user' = [user EXCEPT !.stage = w.to, !.seen = @ \cup SeenOn(w.from, w.to),
                            !.key = Keep(w.key, @), !.mut = Keep(w.mut, @),
                            !.flow = IF w.flow = 2 THEN 2 ELSE @]
    /\ req' = [req EXCEPT ![h] = Idle]
    /\ UNCHANGED <<open, forwarded>>

\* The user as it was read, and no report with this key or mutation since.
WriteStage(h) == LET w == req[h] IN
    /\ w.at = "stage"
    /\ IF user.stage = w.from /\ ~ (Given(w.key) /\ user.key = w.key) /\ ~ Replayed(w.mut)
       THEN user' = [user EXCEPT !.stage = w.to, !.seen = @ \cup SeenOn(w.from, w.to),
                                 !.key = Keep(w.key, @), !.mut = Keep(w.mut, @),
                                 !.flow = IF w.flow = 2 THEN 2 ELSE @]
       ELSE UNCHANGED user
    /\ req' = [req EXCEPT ![h] = Idle]
    /\ UNCHANGED <<open, forwarded>>

(***************************************************************************)
(* submitPermissionsDecisionEvent, for a decision and for the periodic     *)
(* report of the statuses, which is an accept of version 1 without a       *)
(* mutation id.                                                            *)
(***************************************************************************)
mayRolloutFastForward(event, from, legacy) ==
    /\ event = "permissions_accept" /\ from \in {"welcome", "bonus"}
    /\ open
    /\ "permissions" \in user.seen \/ legacy

Decide(h, event, version, rid, mut, legacy) ==
    LET flow == resolveEffectiveFlowVersion(version)
        from == user.stage
        to   == toNextStageFromEvent(event, flow)
        forward == ~ isAllowedTransition(from, to, flow) /\ mayRolloutFastForward(event, from, legacy) IN
    /\ req[h].at = "idle"
    /\ ~ Replayed(mut) /\ user.rid # rid
    /\ \/ from = "completed" /\ req' = [req EXCEPT ![h] = [at |-> "statuses", rid |-> rid, mut |-> mut]]
       \/ /\ from # "completed"
          /\ isAllowedTransition(from, to, flow) \/ forward
          /\ req' = [req EXCEPT ![h] =
                [at |-> "decision", from |-> from, to |-> to, flow |-> flow, rid |-> rid, mut |-> mut,
                 accept |-> event = "permissions_accept", first |-> ~ user.accepted, forward |-> forward,
                 seen |-> {"permissions"} \cup SeenOn(from, to) \cup (IF forward THEN {"completed"} ELSE {})]]
    /\ UNCHANGED <<user, open, forwarded>>

\* On a completed user only the ids and the statuses are written; the
\* mutation id is not looked at again.
WriteStatuses(h) == LET w == req[h] IN
    /\ w.at = "statuses"
    /\ user' = IF user.stage = "completed" /\ user.rid # w.rid
               THEN [user EXCEPT !.rid = w.rid, !.mut = Keep(w.mut, @)] ELSE user
    /\ req' = [req EXCEPT ![h] = Idle]
    /\ UNCHANGED <<open, forwarded>>

Decided(w) == [user EXCEPT !.stage = w.to, !.seen = @ \cup w.seen,
                           !.accepted = @ \/ w.accept,
                           !.status = IF ~ w.accept THEN "skipped" ELSE IF w.first THEN "accepted" ELSE @,
                           !.rid = w.rid, !.mut = Keep(w.mut, @),
                           !.flow = IF w.flow = 2 THEN 2 ELSE @]

\* Looks only at the request id.
WriteDecisionById(h) == LET w == req[h] IN
    /\ w.at = "decision"
    /\ user' = IF user.rid # w.rid THEN Decided(w) ELSE user
    /\ forwarded' = (forwarded \/ (user' # user /\ w.forward))
    /\ req' = [req EXCEPT ![h] = Idle]
    /\ UNCHANGED open

WriteDecision(h) == LET w == req[h] IN
    /\ w.at = "decision"
    /\ user' = IF user.stage = w.from /\ user.rid # w.rid /\ ~ Replayed(w.mut) THEN Decided(w) ELSE user
    /\ forwarded' = (forwarded \/ (user' # user /\ w.forward))
    /\ req' = [req EXCEPT ![h] = Idle]
    /\ UNCHANGED open

\* The deadline of the rollout passes.
Deadline == open /\ open' = FALSE /\ UNCHANGED <<user, req, forwarded>>

Events == {"welcome_seen", "bonus_seen", "permissions_not_now", "permissions_accept"}

Next == \/ \E h \in Handlers :
             \/ \E event \in Events, version \in {1, 2}, key, mut \in Ids \cup {None} :
                  Advance(h, event, version, key, mut)
             \/ \E event \in {"permissions_not_now", "permissions_accept"}, version \in {1, 2},
                   rid \in Ids, mut \in Ids \cup {None}, legacy \in BOOLEAN :
                  Decide(h, event, version, rid, mut, legacy)
             \/ WriteStage(h) \/ WriteStatuses(h) \/ WriteDecision(h)
        \/ Deadline

Spec == Init /\ [][Next]_vars

----------------------------------------------------------------------------
\* A user is where the timestamps say: every stage behind was marked as seen,
\* and the end is marked when it is reached.  A stage skipped by version 2 or
\* by the rollout is the only one without a mark.
StagesAreMarked ==
    /\ user.stage # "welcome" => "welcome" \in user.seen
    /\ user.stage = "completed" <=> "completed" \in user.seen
    /\ user.stage \in {"permissions", "completed"} /\ ~ forwarded /\ user.flow = 1 => "bonus" \in user.seen

\* What was accepted is not turned into skipped by a late report.
AcceptStands == user.accepted => user.stage = "completed" /\ user.status = "accepted"

\* However reports of both versions overlap and repeat, a user moves forward,
\* one allowed stage at a time or by the rollout, and the version is kept.
MovesForward ==
    /\ user'.flow >= user.flow /\ user.seen \subseteq user'.seen
    /\ user'.stage # user.stage => \/ <<user.stage, user'.stage>> \in Edges(user'.flow)
                                   \/ forwarded' /\ ~ forwarded /\ user'.stage = "completed"
=============================================================================
