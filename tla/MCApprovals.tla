----------------------------- MODULE MCApprovals -----------------------------
(* Instances of AgentApprovals for TLC. *)
EXTENDS AgentApprovals, TLC

\* Rows nobody can send come first, and only they come from operators.
RowsInOrder ==
    \A m \in Messages : log'[m] # log[m] /\ log[m].status = "absent" =>
        /\ \A k \in Messages : k < m => log[k].status # "absent"
        /\ m \in Unaddressed <=> UNCHANGED req

\* Messages and single reviews, while the run goes on.
DeliverySpec ==
    /\ ApprovalsInit
    /\ [][/\ ApprovalsNext
          /\ UNCHANGED <<run, agent>>
          /\ RowsInOrder
          /\ \A q \in Reviewers : req'[q].by = "one" /\ req'[q].pc # "look"]_approvalVars
    /\ PollingFairness

SymmetricReviews == Permutations(Approvals) \cup Permutations(Reviewers)
=============================================================================
