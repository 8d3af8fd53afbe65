----------------------------- MODULE ApprovalQueue -----------------------------
(***************************************************************************)
(* The approval queue of the admin app (approval-queue.tsx) and the        *)
(* Next.js routes it calls, beside AgentApprovals.  The queue polls the    *)
(* pending approvals and takes what was reviewed off its cached list by    *)
(* itself; a poll under way may put it back.                               *)
(*                                                                         *)
(* handleReview sends org_id in the query string and the note in the body. *)
(* The route takes org_id from the body alone and answers 400 without it,  *)
(* and there is no route for /batch: neither reaches the backend, and      *)
(* neither handler looks at the answer.                                    *)
(***************************************************************************)
EXTENDS AgentApprovals

VARIABLES
    listed,     \* the cached query: approvals shown
    load,       \* the answer of the GET under way, or Nil
    busy,       \* [Approvals -> the review under way, or "no"]
    batch,      \* ids of the batch review under way
    saved       \* history: "Agent saved you ~4 min" was shown

page == <<listed, load, busy, batch, saved>>

ToBackend == UNCHANGED approvalVars

\* useQuery, every minute and on focus: list_approvals, whose default filter
\* is the pending ones.
Fetch ==
    /\ load = Nil
    /\ load' = Pending
    /\ UNCHANGED <<listed, busy, batch, saved>> /\ ToBackend

\* An answer that is not ok shows an empty queue.
Fetched ==
    /\ load # Nil
    /\ listed' \in {load, {}}
    /\ load' = Nil
    /\ UNCHANGED <<busy, batch, saved>> /\ ToBackend

handleReview(a, action) ==
    /\ a \in listed
    /\ busy[a] = "no"
    /\ busy' = [busy EXCEPT ![a] = action]
    /\ UNCHANGED <<listed, load, batch, saved>> /\ ToBackend

\* POST .../[id]/approve or /reject: 400.  The handler goes on as after a
\* review.
Reviewed(a) ==
    /\ busy[a] # "no"
    /\ saved' = IF busy[a] = "approve" THEN saved \cup {a} ELSE saved
    /\ listed' = listed \ {a}
    /\ busy' = [busy EXCEPT ![a] = "no"]
    /\ UNCHANGED <<load, batch>> /\ ToBackend

\* fetch itself fails.
Unanswered(a) ==
    /\ busy[a] # "no"
    /\ busy' = [busy EXCEPT ![a] = "no"]
    /\ UNCHANGED <<listed, load, batch, saved>> /\ ToBackend

handleBatchReview(ids) ==
    /\ batch = {} /\ ids # {}
    /\ batch' = ids
    /\ UNCHANGED <<listed, load, busy, saved>> /\ ToBackend

\* POST .../batch: 404, or no answer.
BatchReviewed ==
    /\ batch # {}
    /\ listed' \in {listed \ batch, listed}
    /\ batch' = {}
    /\ UNCHANGED <<load, busy, saved>> /\ ToBackend

QueueInit ==
    /\ ApprovalsInit
    /\ listed = {} /\ load = Nil /\ batch = {} /\ saved = {}
    /\ busy = [a \in Approvals |-> "no"]

QueueNext ==
    \/ Fetch \/ Fetched \/ BatchReviewed
    \/ \E a \in Approvals :
         \/ \E action \in {"approve", "reject"} : handleReview(a, action)
         \/ Reviewed(a) \/ Unanswered(a)
    \/ \E ids \in SUBSET listed : handleBatchReview(ids)
    \/ ApprovalsNext /\ UNCHANGED page

QueueSpec == QueueInit /\ [][QueueNext]_<<approvalVars, page>>

-----------------------------------------------------------------------------

\* approval-queue.tsx:147, "Item 8: "Saved you X min" toast for send_message
\* approvals": the operator is told of minutes saved for an approval that is
\* no longer waiting for a review.
SavedMeansReviewed == \A a \in saved : appr[a].status # "pending"
=============================================================================
