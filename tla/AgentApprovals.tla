---------------------------- MODULE AgentApprovals ----------------------------
(***************************************************************************)
(* The approvals an agent run asks for: the tool loop that files them      *)
(* (services/ai_agent.rs), the three ways to review them (one, a batch, or *)
(* the run as a whole: routes/approvals.rs, services/agent_runs.rs), the   *)
(* status of the run, and the outbound messages (MessageQueue) that        *)
(* approved send_message calls queue and whose fate the webhook writes     *)
(* back to the approval.                                                   *)
(*                                                                         *)
(* One run; runs share nothing but the messages.  Every database statement *)
(* is a step, and a request may end after any of them: its process stops,  *)
(* its client goes away, or a statement fails.                             *)
(***************************************************************************)
EXTENDS MessageQueue

CONSTANTS
    Approvals,  \* the calls the run may still ask approval for (bound)
    Reviewers   \* review requests that may be in flight at once

VARIABLES
    appr,       \* [Approvals -> Approval]: agent_approvals
    run,        \* agent_runs.status
    agent,      \* how far the execution of the run is
    req,        \* [Reviewers -> Request]: locals of each request
    ran         \* history: [Approvals -> times its tool was executed]

approvalVars == <<queueVars, appr, run, agent, req, ran>>

Approval == [status   : {"absent", "pending", "approved", "rejected", "executed",
                         "execution_failed"},
             delivery : {"none", "pending", "sent", "delivered", "failed"},
             link     : Messages \cup {Nil}]     \* delivery_message_log_id

Request == [pc   : {"idle", "next", "execute", "finalize", "count", "look", "sum",
                    "settle", "end"},
            by   : {"one", "batch", "reject", "run"},
            todo : SUBSET Approvals,        \* ids still to review
            at   : Approvals \cup {Nil},    \* the one claimed
            ok   : BOOLEAN,                 \* what its tool answered
            msg  : Messages \cup {Nil},     \* message_id in the answer
            bad  : BOOLEAN]                 \* had_failure, or the summary's verdict

NoRequest == [pc |-> "idle", by |-> "one", todo |-> {}, at |-> Nil, ok |-> FALSE,
              msg |-> Nil, bad |-> FALSE]

Pending == {a \in Approvals : appr[a].status = "pending"}

Over == {"completed", "failed", "cancelled"}

\* Where a request goes on, or that it is over.
Goto(q, pc) ==
    req' = [req EXCEPT ![q] = IF pc = "idle" THEN NoRequest ELSE [@ EXCEPT !.pc = pc]]

-----------------------------------------------------------------------------
(* The run                                                                 *)

\* maybe_create_approval, for a call whose policy asks for one.
maybe_create_approval(a) ==
    /\ agent = "working"
    /\ appr[a].status = "absent"
    /\ appr' = [appr EXCEPT ![a].status = "pending"]
    /\ UNCHANGED <<queueVars, run, agent, req, ran>>

\* The execution ends, well or not; complete_run_from_result lists the
\* pending approvals.
AgentEnds ==
    /\ agent = "working"
    /\ \/ agent' = IF Pending = {} THEN "done" ELSE "asking"
       \/ agent' = "failing"
    /\ UNCHANGED <<queueVars, appr, run, req, ran>>

\* complete_run_from_result and mark_run_failed write the run by id, whatever
\* became of it.
WriteRun ==
    /\ \/ agent = "done"    /\ run' = "completed"            /\ agent' = "over"
       \/ agent = "asking"  /\ run' = "waiting_for_approval" /\ agent' = "over"
       \/ agent = "failing" /\ run' = "failed"               /\ agent' = "failed"
    /\ UNCHANGED <<queueVars, appr, req, ran>>

cancel_run ==
    /\ run \notin Over
    /\ run' = "cancelled"
    /\ UNCHANGED <<queueVars, appr, agent, req, ran>>

-----------------------------------------------------------------------------
(* Reviews                                                                 *)

\* Mutant: the claim goes by id alone.
ClaimableUnguarded(a) == appr[a].status # "absent"

\* Mutant: an approval left approved may be reviewed again.
ClaimableUntilDone(a) == appr[a].status \in {"pending", "approved"}

\* WHERE status = 'pending'
Claimable(a) == appr[a].status = "pending"

\* approve_approval, reject_approval: the claim.  Finding nothing to claim,
\* the request just ends.
approve_approval(q, a) ==
    /\ req[q].pc = "idle"
    /\ Claimable(a)
    /\ appr' = [appr EXCEPT ![a].status = "approved"]
    /\ req' = [req EXCEPT ![q] = [NoRequest EXCEPT !.pc = "execute", !.at = a]]
    /\ UNCHANGED <<queueVars, run, agent, ran>>

reject_approval(q, a) ==
    /\ req[q].pc = "idle"
    /\ Claimable(a)
    /\ appr' = [appr EXCEPT ![a].status = "rejected"]
    /\ req' = [req EXCEPT ![q] = [NoRequest EXCEPT !.pc = "count"]]
    /\ UNCHANGED <<queueVars, run, agent, ran>>

batch_review_approvals(q, ids, by) ==
    /\ req[q].pc = "idle"
    /\ ids # {}
    /\ req' = [req EXCEPT ![q] = [NoRequest EXCEPT !.pc = "next", !.by = by, !.todo = ids]]
    /\ UNCHANGED <<queueVars, appr, run, agent, ran>>

\* approve_run: the pending approvals; without any it just ends.
approve_run(q) ==
    /\ req[q].pc = "idle"
    /\ Pending # {}
    /\ req' = [req EXCEPT ![q] = [NoRequest EXCEPT !.pc = "next", !.by = "run",
                                                   !.todo = Pending]]
    /\ UNCHANGED <<queueVars, appr, run, agent, ran>>

\* One round of the loop of a batch or of approve_run.  A batch takes a claim
\* that fails for one that found nothing.
NextApproval(q) ==
    /\ req[q].pc = "next"
    /\ \E a \in req[q].todo :
         LET rest == [req[q] EXCEPT !.todo = @ \ {a}]
         IN \/ /\ ~Claimable(a) \/ req[q].by # "run"
               /\ req' = [req EXCEPT ![q] = rest]
               /\ UNCHANGED appr
            \/ /\ Claimable(a)
               /\ req[q].by = "reject"
               /\ req' = [req EXCEPT ![q] = rest]
               /\ appr' = [appr EXCEPT ![a].status = "rejected"]
            \/ /\ Claimable(a)
               /\ req[q].by # "reject"
               /\ req' = [req EXCEPT ![q] = [rest EXCEPT !.pc = "execute", !.at = a]]
               /\ appr' = [appr EXCEPT ![a].status = "approved"]
    /\ UNCHANGED <<queueVars, run, agent, ran>>

\* The ids are through.
LoopOver(q) ==
    /\ req[q].pc = "next" /\ req[q].todo = {}
    /\ Goto(q, IF req[q].by = "run" THEN "end" ELSE "idle")
    /\ UNCHANGED <<queueVars, appr, run, agent, ran>>

\* execute_approved_tool: send_message queues a message that has a recipient;
\* any other tool does its work; any tool may fail.
execute_approved_tool(q) ==
    /\ req[q].pc = "execute"
    /\ ran' = [ran EXCEPT ![req[q].at] = @ + 1]
    /\ \E ok \in BOOLEAN, m \in Messages \cup {Nil} :
         /\ req' = [req EXCEPT ![q].pc = "finalize", ![q].ok = ok, ![q].msg = m]
         /\ IF m = Nil THEN UNCHANGED queueVars
            ELSE m \notin Unaddressed /\ ok /\ InsertMessage(m)
    /\ UNCHANGED <<appr, run, agent>>

Finalized(a, q) ==
    [appr[a] EXCEPT
        !.status = IF req[q].ok THEN "executed" ELSE "execution_failed",
        !.delivery = IF req[q].by = "one" /\ req[q].msg # Nil THEN "pending" ELSE @,
        !.link = IF req[q].by = "one" /\ req[q].msg # Nil THEN req[q].msg ELSE @]

\* The approval, by id.  Only approve_approval links the message.  A batch
\* goes on when this fails.
Finalize(q) ==
    LET a == req[q].at
    IN /\ req[q].pc = "finalize"
       /\ \/ appr' = [appr EXCEPT ![a] = Finalized(a, q)]
          \/ req[q].by = "batch" /\ UNCHANGED appr
       /\ req' = [req EXCEPT
            ![q].pc  = IF req[q].by = "one" THEN "count" ELSE "next",
            ![q].at  = Nil, ![q].msg = Nil, ![q].ok = FALSE,
            ![q].bad = @ \/ (req[q].by = "run" /\ ~req[q].ok)]
       /\ UNCHANGED <<queueVars, run, agent, ran>>

\* approve_run's last write, by id.
EndRun(q) ==
    /\ req[q].pc = "end"
    /\ run' = IF req[q].bad THEN "failed" ELSE "completed"
    /\ Goto(q, "idle")
    /\ UNCHANGED <<queueVars, appr, agent, ran>>

\* reconcile_run_after_approval_review: count the pending approvals, look at
\* the run, sum up the reviews, and write the run by id.
ReconcileCount(q) ==
    /\ req[q].pc = "count"
    /\ Goto(q, IF Pending = {} THEN "look" ELSE "idle")
    /\ UNCHANGED <<queueVars, appr, run, agent, ran>>

ReconcileLook(q) ==
    /\ req[q].pc = "look"
    /\ Goto(q, IF run \in Over THEN "idle" ELSE "sum")
    /\ UNCHANGED <<queueVars, appr, run, agent, ran>>

\* Mutant: an approval that is being executed counts as failed.
RefusedUnfinished == \E a \in Approvals :
    appr[a].status \in {"approved", "rejected", "execution_failed"}

Refused == \E a \in Approvals : appr[a].status \in {"rejected", "execution_failed"}

ReconcileSum(q) ==
    LET some == Refused \/ \E a \in Approvals : appr[a].status = "executed"
    IN /\ req[q].pc = "sum"
       /\ req' = [req EXCEPT ![q] =
                    IF some THEN [@ EXCEPT !.pc = "settle", !.bad = Refused]
                    ELSE NoRequest]
       /\ UNCHANGED <<queueVars, appr, run, agent, ran>>

ReconcileSettle(q) ==
    /\ req[q].pc = "settle"
    /\ run' = IF req[q].bad THEN "failed" ELSE "completed"
    /\ Goto(q, "idle")
    /\ UNCHANGED <<queueVars, appr, agent, ran>>

CutShort(q) ==
    /\ req[q].pc # "idle"
    /\ Goto(q, "idle")
    /\ UNCHANGED <<queueVars, appr, run, agent, ran>>

-----------------------------------------------------------------------------
(* Messages                                                                *)

\* Mutant: an approval with no message yet counts as linked.
LinkedLoosely(a, h) == appr[a].link \in {hook[h].msg, Nil}

Linked(a, h) == appr[a].link = hook[h].msg

\* The end of the webhook: the approvals the message is linked to.
Propagate(h) ==
    /\ HookOver(h)
    /\ \/ appr' = [a \in Approvals |-> IF Linked(a, h)
                                       THEN [appr[a] EXCEPT !.delivery = hook[h].fate]
                                       ELSE appr[a]]
       \/ UNCHANGED appr
    /\ UNCHANGED <<run, agent, req, ran>>

others == <<appr, run, agent, req, ran>>

\* An operator's POST /messages/send: nobody looks at its recipient.
send_message(m) == InsertMessage(m) /\ UNCHANGED others

PassStep(p) ==
    /\ ListQueued(p) \/ ListFailed(p) \/ Send(p) \/ WriteRow(p) \/ PassOver(p)
    /\ UNCHANGED others

PassFault(p) == (WriteLost(p) \/ Stop(p)) /\ UNCHANGED others

HookStep(h) ==
    \/ /\ \/ \E m \in Messages, n \in 1..MaxCopies, fate \in {"sent", "delivered", "failed"} :
               Report(h, m, n, fate)
          \/ HookRow(h)
       /\ UNCHANGED others
    \/ Propagate(h)

-----------------------------------------------------------------------------

Review(q) ==
    \/ \E a \in Approvals : approve_approval(q, a) \/ reject_approval(q, a)
    \/ \E ids \in SUBSET Approvals, by \in {"batch", "reject"} :
         batch_review_approvals(q, ids, by)
    \/ approve_run(q)

RequestStep(q) ==
    \/ NextApproval(q) \/ LoopOver(q) \/ execute_approved_tool(q) \/ Finalize(q)
    \/ EndRun(q) \/ ReconcileCount(q) \/ ReconcileLook(q) \/ ReconcileSum(q)
    \/ ReconcileSettle(q)

AgentStep == (\E a \in Approvals : maybe_create_approval(a)) \/ AgentEnds \/ WriteRun

ApprovalsInit ==
    /\ log = [m \in Messages |-> [status |-> "absent", tries |-> 0, copy |-> 0]]
    /\ poll = [p \in Pollers |-> NoPass]
    /\ hook = [h \in Hooks |-> NoHandler]
    /\ copies = [m \in Messages |-> 0]
    /\ arrived = {} /\ excused = {}
    /\ appr = [a \in Approvals |-> [status |-> "absent", delivery |-> "none", link |-> Nil]]
    /\ run = "running"
    /\ agent = "working"
    /\ req = [q \in Reviewers |-> NoRequest]
    /\ ran = [a \in Approvals |-> 0]

ApprovalsNext ==
    \/ AgentStep
    \/ cancel_run
    \/ \E m \in Messages : send_message(m)
    \/ \E q \in Reviewers : Review(q) \/ RequestStep(q) \/ CutShort(q)
    \/ \E p \in Pollers : PassStep(p) \/ PassFault(p)
    \/ \E h \in Hooks : HookStep(h)

ApprovalsSpec == ApprovalsInit /\ [][ApprovalsNext]_approvalVars

\* The scheduler starts pass after pass, a started pass goes on, writes do not
\* fail for ever, and the process stops stopping.  Users, the agent and the
\* provider owe nothing.
PollingFairness ==
    /\ \A p \in Pollers :
         /\ WF_approvalVars(PassStep(p))
         /\ SF_approvalVars(WriteRow(p) /\ UNCHANGED others)
    /\ <>[][\A p \in Pollers : ~Stop(p)]_approvalVars

-----------------------------------------------------------------------------
(* Properties.                                                             *)

\* However passes overlap and retry, retry_count never exceeds 3 (it does not
\* count the failures the provider reports, so it does not bound the tries),
\* and requests keep what they claimed until its result is written.
ApprovalsTypeOK ==
    /\ log \in [Messages -> Log]
    /\ poll \in [Pollers -> Pass]
    /\ hook \in [Hooks -> Handler]
    /\ copies \in [Messages -> Copy]
    /\ arrived \subseteq Messages \X Copy
    /\ excused \subseteq Messages
    /\ appr \in [Approvals -> Approval]
    /\ run \in {"running", "waiting_for_approval"} \cup Over
    /\ agent \in {"working", "done", "asking", "failing", "over", "failed"}
    /\ req \in [Reviewers -> Request]
    /\ ran \in [Approvals -> Nat]

\* However single, batch and whole-run reviews of the same approvals race and
\* are cut short, a tool is executed at most once, never unless its approval
\* was approved, and an approval that says it was executed or failed was.
ExecutedOnce ==
    \A a \in Approvals :
        /\ ran[a] <= 1
        /\ appr[a].status \in {"absent", "pending", "rejected"} => ran[a] = 0
        /\ appr[a].status \in {"executed", "execution_failed"} => ran[a] = 1

\* Although the result is written by id alone, a decision is final: what was
\* rejected, executed or failed stays so, and what was approved is never
\* rejected or pending again.
DecisionStands ==
    [][\A a \in Approvals :
         /\ appr[a].status \in {"rejected", "executed", "execution_failed"} =>
              appr'[a].status = appr[a].status
         /\ appr[a].status = "approved" =>
              appr'[a].status \in {"approved", "executed", "execution_failed"}]_approvalVars

\* An approval that says delivered has a message of which a copy arrived,
\* although reports come out of order, late, or for rows written since.
DeliveredArrived ==
    \A a \in Approvals : appr[a].delivery = "delivered" =>
        \E n \in Copy : <<appr[a].link, n>> \in arrived

\* No pass claims its messages, so a guest may get one twice; but only if two
\* passes had it in hand, a pass stopped at it, the provider's answer or the
\* row's write was lost, or the provider reported a copy as failed.
RepeatsExplained == \A m \in Messages : copies[m] > 1 => m \in excused

\* Four writers set the run's status by id and overwrite each other; even so
\* a run is failed only if its execution failed or an action it asked for was
\* rejected or failed.
FailedForCause ==
    run = "failed" =>
        \/ agent = "failed"
        \/ \E a \in Approvals : appr[a].status \in {"rejected", "execution_failed"}

\* The reviews implement ApprovalLifecycle: a call approved is acted upon once,
\* although its row says approved before and after, and a report reaches the
\* one approval whose message it is about.
Stage(a) ==
    IF appr[a].status = "approved" /\ ran[a] = 1 THEN "acted" ELSE appr[a].status

Lifecycle == INSTANCE ApprovalLifecycle WITH
                 Calls    <- Approvals,
                 stage    <- [a \in Approvals |-> Stage(a)],
                 delivery <- [a \in Approvals |-> appr[a].delivery]

KeepsReview == Lifecycle!LifecycleSpec

\* A queued message that has a recipient does not stay queued, whatever else
\* is queued before it, unless rows nobody can send fill a pass's listing.
QueuedTried ==
    Cardinality(Unaddressed) < QueuedLimit =>
        \A m \in Messages \ Unaddressed :
            log[m].status = "queued" ~> log[m].status # "queued"
=============================================================================
