----------------------------- MODULE Referral -----------------------------
(***************************************************************************)
(* One user enters the code of a referrer, and the referrer is paid once   *)
(* the user buys coins or completes a long call.  The link is kept three   *)
(* times: referredBy of the user, an entry in the referrer's list and a    *)
(* ReferralEdge, in three writes with a compensation and no transaction.   *)
(* Both ways of paying share the flag of the entry and the ledger row.     *)
(***************************************************************************)
EXTENDS Naturals, Sequences, SequencesExt

CONSTANTS Referrers,
          Applies,    \* requests that enter a code
          Rewards,    \* purchases and calls that may pay
          None,
          Settled,    \* whether rewards wait until no request is under way
          MayFail     \* whether a write may fail or the process may die

VARIABLES referredBy,  \* User.referredBy of the applicant
          entries,     \* the applicant's entries in User.referrals: granted or not
          edge,        \* the ReferralEdge
          bought,      \* whether the applicant has a completed purchase
          paid,        \* how often the wallet of each referrer was credited
          ledger,      \* referrers with a referral_reward_ row
          claimed,     \* referrers with the hub's progress key
          apply,       \* applyReferralCode under way
          reward       \* processReferralRewardOnPurchase and the call path

vars == <<referredBy, entries, edge, bought, paid, ledger, claimed, apply, reward>>
link == <<referredBy, entries, edge>>
money == <<paid, ledger, claimed>>

NoEdge == [ref |-> None, granted |-> FALSE]
Idle == [at |-> "new", ref |-> None]

Init == /\ referredBy = None
        /\ entries = [r \in Referrers |-> <<>>]
        /\ edge = NoEdge
        /\ bought = FALSE
        /\ paid = [r \in Referrers |-> 0]
        /\ ledger = {} /\ claimed = {}
        /\ apply = [a \in Applies |-> Idle]
        /\ reward = [w \in Rewards |-> Idle]

Linking(a) == apply[a].at \in {"claim", "push", "edge", "unset", "pull"}
Paying(w) == reward[w].at \notin {"new", "done"}
MayReward == Settled => \A a \in Applies : ~ Linking(a)

Open(r) == \E i \in DOMAIN entries[r] : ~ entries[r][i]
Granted(r) == [i \in DOMAIN entries[r] |-> TRUE]

(***************************************************************************)
(* applyReferralCode.                                                      *)
(***************************************************************************)
To(a, at) == apply' = [apply EXCEPT ![a].at = at]

\* previewReferralCode makes the same checks: nobody's code yet, no purchase.
MayEnter == referredBy = None /\ ~ bought

\* The checks of the applicant and of the referrer, on what was loaded.
Enter(a, r) == /\ apply[a].at = "new"
               /\ MayEnter
               /\ apply' = [apply EXCEPT ![a] = [at |-> "claim", ref |-> r]]
               /\ UNCHANGED <<link, bought, money, reward>>

\* Sets referredBy without looking again.
ClaimLoaded(a) == /\ apply[a].at = "claim"
                  /\ referredBy' = apply[a].ref /\ To(a, "push")
                  /\ UNCHANGED <<entries, edge, bought, money, reward>>

Claim(a) == /\ apply[a].at = "claim"
            /\ \/ referredBy = None /\ referredBy' = apply[a].ref /\ To(a, "push")
               \/ referredBy # None /\ To(a, "done") /\ UNCHANGED referredBy
            /\ UNCHANGED <<entries, edge, bought, money, reward>>

Push(a) == /\ apply[a].at = "push"
           /\ entries' = [entries EXCEPT ![apply[a].ref] = Append(@, FALSE)]
           /\ To(a, "edge")
           /\ UNCHANGED <<referredBy, edge, bought, money, reward>>

\* A duplicate or an error starts the compensation.
CreateEdge(a) == /\ apply[a].at = "edge"
                 /\ \/ edge = NoEdge /\ edge' = [ref |-> apply[a].ref, granted |-> FALSE] /\ To(a, "done")
                    \/ (edge # NoEdge \/ MayFail) /\ To(a, "unset") /\ UNCHANGED edge
                 /\ UNCHANGED <<referredBy, entries, bought, money, reward>>

\* rollbackReferralClaim: two updates.
Unset(a) == /\ apply[a].at = "unset"
            /\ referredBy' = None /\ To(a, "pull")
            /\ UNCHANGED <<entries, edge, bought, money, reward>>

Pull(a) == /\ apply[a].at = "pull"
           /\ entries' = [entries EXCEPT ![apply[a].ref] = <<>>] /\ To(a, "done")
           /\ UNCHANGED <<referredBy, edge, bought, money, reward>>

(***************************************************************************)
(* The purchase path.                                                      *)
(***************************************************************************)
Goes(w, at, r) == reward' = [reward EXCEPT ![w] = [at |-> at, ref |-> r]]

\* ensureReferralEdgeForReferredUser: the edge an older link should have.
EnsuredEdge ==
    IF edge # NoEdge
    THEN [edge EXCEPT !.granted = @ \/ (entries[edge.ref] # <<>> /\ Head(entries[edge.ref]))]
    ELSE IF referredBy # None /\ entries[referredBy] # <<>>
         THEN [ref |-> referredBy, granted |-> Head(entries[referredBy])]
         ELSE NoEdge

\* A completed purchase of enough rupees, and ensureReferralEdgeForReferredUser.
Purchase(w) ==
    /\ MayReward /\ reward[w].at = "new"
    /\ bought' = TRUE /\ Goes(w, "look", None)
    /\ edge' = EnsuredEdge
    /\ UNCHANGED <<referredBy, entries, money, apply>>

Look(w) ==
    /\ reward[w].at = "look"
    /\ IF referredBy = None THEN Goes(w, "done", None) /\ UNCHANGED <<entries, edge>>
       ELSE IF referredBy \in ledger
       THEN /\ entries' = [entries EXCEPT ![referredBy] = Granted(referredBy)]
            /\ edge' = [edge EXCEPT !.granted = edge # NoEdge]
            /\ Goes(w, "done", None)
       ELSE Goes(w, "grant", referredBy) /\ UNCHANGED <<entries, edge>>
    /\ UNCHANGED <<referredBy, bought, money, apply>>

\* Credits the wallet although the flag is set.
GrantAlways(w) == LET r == reward[w].ref IN
    /\ reward[w].at = "grant"
    /\ entries' = [entries EXCEPT ![r] = Granted(r)] /\ paid' = [paid EXCEPT ![r] = @ + 1] /\ Goes(w, "flag", r)
    /\ UNCHANGED <<referredBy, edge, bought, ledger, claimed, apply>>

\* One update sets the flag and credits the wallet.
Grant(w) == LET r == reward[w].ref IN
    /\ reward[w].at = "grant"
    /\ \/ Open(r) /\ entries' = [entries EXCEPT ![r] = Granted(r)] /\ paid' = [paid EXCEPT ![r] = @ + 1] /\ Goes(w, "flag", r)
       \/ ~ Open(r) /\ Goes(w, "done", None) /\ UNCHANGED <<entries, paid>>
    /\ UNCHANGED <<referredBy, edge, bought, ledger, claimed, apply>>

Flag(w) == /\ reward[w].at = "flag"
           /\ edge' = [edge EXCEPT !.granted = edge # NoEdge]
           /\ Goes(w, "row", reward[w].ref)
           /\ UNCHANGED <<referredBy, entries, bought, money, apply>>

\* Forgets the ledger row.
RowForgotten(w) == /\ reward[w].at = "row" /\ Goes(w, "done", None)
                   /\ claimed' = claimed \cup {reward[w].ref}
                   /\ UNCHANGED <<link, bought, paid, ledger, apply>>

\* The ledger row and the hub's key; a duplicate row ends the path earlier.
Row(w) == /\ reward[w].at = "row" /\ Goes(w, "done", None)
          /\ ledger' = ledger \cup {reward[w].ref}
          /\ claimed' = IF reward[w].ref \in ledger THEN claimed ELSE claimed \cup {reward[w].ref}
          /\ UNCHANGED <<link, bought, paid, apply>>

(***************************************************************************)
(* The call path, tryCreditSuccessfulReferralOnCall.                       *)
(***************************************************************************)
Call(w) == /\ MayReward /\ reward[w].at = "new"
           /\ IF referredBy = None \/ referredBy \in ledger
              THEN Goes(w, "done", None) ELSE Goes(w, "callGrant", referredBy)
           /\ UNCHANGED <<link, bought, money, apply>>

\* Marks the entry and leaves the credit to somebody else.
CallGrantOnly(w) == LET r == reward[w].ref IN
    /\ reward[w].at = "callGrant"
    /\ \/ Open(r) /\ entries' = [entries EXCEPT ![r] = Granted(r)]
       \/ ~ Open(r) /\ UNCHANGED entries
    /\ Goes(w, "done", None)
    /\ UNCHANGED <<referredBy, edge, bought, money, apply>>

CallGrant(w) == LET r == reward[w].ref IN
    /\ reward[w].at = "callGrant"
    /\ \/ Open(r) /\ entries' = [entries EXCEPT ![r] = Granted(r)] /\ Goes(w, "credit", r)
       \/ ~ Open(r) /\ Goes(w, "done", None) /\ UNCHANGED entries
    /\ UNCHANGED <<referredBy, edge, bought, money, apply>>

\* creditOnceTaskReward: one transaction, which may abort.
Credit(w) == LET r == reward[w].ref IN
    /\ reward[w].at = "credit" /\ Goes(w, "done", None)
    /\ \/ r \notin claimed \cup ledger
          /\ paid' = [paid EXCEPT ![r] = @ + 1] /\ ledger' = ledger \cup {r} /\ claimed' = claimed \cup {r}
       \/ (r \in claimed \cup ledger \/ MayFail) /\ UNCHANGED money
    /\ UNCHANGED <<link, bought, apply>>

\* The server stops between two writes; nobody resumes a request.
Die == /\ MayFail
       /\ apply' = [a \in Applies |-> IF Linking(a) THEN [apply[a] EXCEPT !.at = "done"] ELSE apply[a]]
       /\ reward' = [w \in Rewards |-> IF Paying(w) THEN [at |-> "done", ref |-> None] ELSE reward[w]]
       /\ <<apply', reward'>> # <<apply, reward>>
       /\ UNCHANGED <<link, bought, money>>

Applying(a) == Claim(a) \/ Push(a) \/ CreateEdge(a) \/ Unset(a) \/ Pull(a)
Rewarding(w) == Look(w) \/ Grant(w) \/ Flag(w) \/ Row(w) \/ CallGrant(w) \/ Credit(w)

Next == \/ \E a \in Applies : (\E r \in Referrers : Enter(a, r)) \/ Applying(a)
        \/ \E w \in Rewards : Purchase(w) \/ Call(w) \/ Rewarding(w)
        \/ Die

Spec == Init /\ [][Next]_vars

----------------------------------------------------------------------------
Quiet == (\A a \in Applies : ~ Linking(a)) /\ \A w \in Rewards : ~ Paying(w)

\* Link, money and requests have the shapes of their types.
TypeOK == /\ referredBy \in Referrers \cup {None}
          /\ edge \in [ref : Referrers \cup {None}, granted : BOOLEAN]
          /\ \A r \in Referrers : \A i \in DOMAIN entries[r] : entries[r][i] \in BOOLEAN
          /\ bought \in BOOLEAN /\ ledger \subseteq Referrers /\ claimed \subseteq Referrers
          /\ \A a \in Applies : apply[a].at \in {"new", "claim", "push", "edge", "unset", "pull", "done"}
          /\ \A w \in Rewards : reward[w].at \in {"new", "look", "grant", "flag", "row", "callGrant", "credit", "done"}

\* However purchases and calls race, nobody is paid twice for one user.
PaidOnce == \A r \in Referrers : paid[r] <= 1

\* When nothing is under way every credited coin has its ledger row.
PaidIsBooked == Quiet => \A r \in Referrers : paid[r] = (IF r \in ledger THEN 1 ELSE 0)

\* When nothing is under way the three records of the link agree.
LinkAgrees == Quiet => /\ edge.ref = referredBy
                       /\ \A r \in Referrers : Len(entries[r]) = (IF r = referredBy THEN 1 ELSE 0)

\* A referrer's entry was granted.
EntryGranted(r) == entries[r] # <<>> /\ ~ Open(r)
IsPaid(r) == paid[r] > 0
=============================================================================
