------------------------- MODULE AgentApprovalsProofs -------------------------
(***************************************************************************)
(* What holds of AgentApprovals and MessageQueue for any number of         *)
(* messages, passes, webhook requests, approvals and reviewers.            *)
(*                                                                         *)
(* The messages change only as QueueStep says, whoever moves: their        *)
(* invariants are kept by QueueStep, those of the approvals by             *)
(* ApprovalsNext.                                                          *)
(***************************************************************************)
EXTENDS AgentApprovals, TLAPS

QueueTypeOK ==
    /\ log \in [Messages -> Log]
    /\ poll \in [Pollers -> Pass]
    /\ hook \in [Hooks -> Handler]
    /\ copies \in [Messages -> Copy]
    /\ arrived \subseteq Messages \X Copy
    /\ excused \subseteq Messages

\* A queued message was never tried: what a pass lists has tries left.
QueuedUntried == \A m \in Messages : log[m].status = "queued" => log[m].tries = 0

PassesOK ==
    \A p \in Pollers :
        /\ poll[p].pc = "idle" => poll[p].todo = {}
        /\ poll[p].pc = "list" => \A j \in poll[p].todo : j.was = "queued"
        /\ poll[p].pc = "write" => poll[p].job \in Job
        /\ poll[p].pc # "write" => poll[p].copy = 0

HooksOK == \A h \in Hooks : hook[h].pc # "idle" => hook[h].msg \in Messages

QueueInv == QueueTypeOK /\ QueuedUntried /\ PassesOK /\ HooksOK

\* All that can happen to the messages.
PollStep(p) ==
    \/ ListQueued(p) \/ ListFailed(p) \/ Send(p) \/ WriteRow(p) \/ PassOver(p)
    \/ WriteLost(p) \/ Stop(p)

WebhookStep(h) ==
    \/ \E m \in Messages, n \in 1..MaxCopies, fate \in {"sent", "delivered", "failed"} :
         Report(h, m, n, fate)
    \/ HookRow(h)
    \/ HookOver(h)

QueueStep ==
    \/ UNCHANGED queueVars
    \/ \E m \in Messages : InsertMessage(m)
    \/ \E p \in Pollers : PollStep(p)
    \/ \E h \in Hooks : WebhookStep(h)

LEMMA ConstantsOK == MaxCopies \in Nat /\ Nil \notin Messages
BY QueueAssumption

USE ConstantsOK

-----------------------------------------------------------------------------
(* The messages                                                            *)

LEMMA StepOnQueue == ASSUME [ApprovalsNext]_approvalVars PROVE QueueStep
<1>1. CASE AgentStep
  BY <1>1 DEF AgentStep, maybe_create_approval, AgentEnds, WriteRun, QueueStep
<1>2. CASE cancel_run  BY <1>2 DEF cancel_run, QueueStep
<1>3. CASE \E q \in Reviewers : Review(q) \/ RequestStep(q) \/ CutShort(q)
  <2> PICK q \in Reviewers : Review(q) \/ RequestStep(q) \/ CutShort(q)  BY <1>3
  <2>1. CASE Review(q)
    BY <2>1 DEF Review, approve_approval, reject_approval, batch_review_approvals,
                approve_run, QueueStep
  <2>2. CASE execute_approved_tool(q)
    BY <2>2 DEF execute_approved_tool, QueueStep
  <2>3. CASE RequestStep(q) /\ ~execute_approved_tool(q)
    BY <2>3 DEF RequestStep, NextApproval, LoopOver, Finalize, EndRun, ReconcileCount,
                ReconcileLook, ReconcileSum, ReconcileSettle, QueueStep
  <2>4. CASE CutShort(q)  BY <2>4 DEF CutShort, QueueStep
  <2> QED  BY <2>1, <2>2, <2>3, <2>4
<1>4. CASE \E p \in Pollers : PassStep(p) \/ PassFault(p)
  BY <1>4 DEF PassStep, PassFault, PollStep, QueueStep
<1>5. CASE \E h \in Hooks : HookStep(h)
  BY <1>5 DEF HookStep, Propagate, WebhookStep, QueueStep
<1>6. CASE UNCHANGED approvalVars  BY <1>6 DEF approvalVars, QueueStep
<1>7. CASE \E m \in Messages : send_message(m)  BY <1>7 DEF send_message, QueueStep
<1> QED  BY <1>1, <1>2, <1>3, <1>4, <1>5, <1>6, <1>7 DEF ApprovalsNext

LEMMA InitQueueInv == ApprovalsInit => QueueInv
<1> SUFFICES ASSUME ApprovalsInit PROVE QueueInv  OBVIOUS
<1>1. QueueTypeOK
  BY DEF ApprovalsInit, QueueTypeOK, Log, Pass, Handler, Copy, NoPass, NoHandler
<1>2. QueuedUntried  BY DEF ApprovalsInit, QueuedUntried
<1>3. PassesOK  BY DEF ApprovalsInit, PassesOK, NoPass
<1>4. HooksOK  BY DEF ApprovalsInit, HooksOK, NoHandler
<1> QED  BY <1>1, <1>2, <1>3, <1>4 DEF QueueInv

LEMMA InsertKeepsQueue ==
    ASSUME QueueInv, NEW m \in Messages, InsertMessage(m)
    PROVE  QueueInv'
<1> USE DEF QueueInv
<1>1. [status |-> "queued", tries |-> 0, copy |-> 0] \in Log  BY DEF Log, Copy
<1>2. QueueTypeOK'  BY <1>1 DEF InsertMessage, QueueTypeOK
<1>3. QueuedUntried'  BY <1>1 DEF InsertMessage, QueueTypeOK, QueuedUntried
<1>4. PassesOK' /\ HooksOK'  BY DEF InsertMessage, PassesOK, HooksOK
<1> QED  BY <1>2, <1>3, <1>4

\* The jobs a listing adds.
Listing(status, rows) ==
    {[msg |-> m, tries |-> log[m].tries, was |-> status] : m \in rows \ Unaddressed}

LEMMA ListKeepsQueue ==
    ASSUME QueueInv, NEW p \in Pollers, NEW next, NEW status, NEW ms \in SUBSET Messages,
           List(p, next, status, ms), poll[p].pc # "write",
           \/ next = "list" /\ status = "queued" /\ poll[p].pc = "idle"
           \/ next = "send" /\ status = "failed",
           \A m \in ms : log[m].tries \in 0..2
    PROVE  QueueInv'
<1> USE DEF QueueInv
<1>1. Listing(status, ms) \subseteq Job  BY DEF Listing, Job
<1>2. poll' = [poll EXCEPT ![p] = [poll[p] EXCEPT !.pc = next,
                                                  !.todo = @ \cup Listing(status, ms)]]
  BY DEF List, Listing, QueueTypeOK, Pass
<1>3. [poll[p] EXCEPT !.pc = next, !.todo = @ \cup Listing(status, ms)] \in Pass
  BY <1>1 DEF QueueTypeOK, Pass
<1>4. QueueTypeOK'  BY <1>2, <1>3 DEF List, QueueTypeOK, Overlapping
<1>5. PassesOK'
  <2> SUFFICES ASSUME NEW o \in Pollers
               PROVE  /\ poll'[o].pc = "idle" => poll'[o].todo = {}
                      /\ poll'[o].pc = "list" => \A j \in poll'[o].todo : j.was = "queued"
                      /\ poll'[o].pc = "write" => poll'[o].job \in Job
                      /\ poll'[o].pc # "write" => poll'[o].copy = 0
    BY DEF PassesOK
  <2>1. CASE o # p  BY <2>1, <1>2 DEF PassesOK, QueueTypeOK
  <2>2. CASE o = p
    <3>1. \A j \in Listing(status, ms) : j.was = status  BY DEF Listing
    <3>2. /\ poll'[p].pc = next /\ poll'[p].todo = poll[p].todo \cup Listing(status, ms)
          /\ poll'[p].job = poll[p].job /\ poll'[p].copy = poll[p].copy
      BY <1>2 DEF QueueTypeOK, Pass
    <3> QED  BY <2>2, <3>1, <3>2 DEF PassesOK
  <2> QED  BY <2>1, <2>2
<1>6. QueuedUntried' /\ HooksOK'  BY DEF List, QueuedUntried, HooksOK
<1> QED  BY <1>4, <1>5, <1>6

LEMMA SendEffect ==
    ASSUME QueueInv, NEW p \in Pollers, Send(p)
    PROVE  \E j \in poll[p].todo, ok \in BOOLEAN, n \in Copy :
             /\ poll[p].pc = "send"
             /\ j \in Job /\ j.msg \in Messages
             /\ j.was = "queued" \/ \A k \in poll[p].todo : k.was = "failed"
             /\ poll' = [poll EXCEPT ![p] =
                    [pc |-> "write", todo |-> poll[p].todo \ {j}, job |-> j, ok |-> ok, copy |-> n]]
             /\ \/ ~ok /\ UNCHANGED <<copies, excused>>
                \/ /\ copies[j.msg] < MaxCopies
                   /\ copies' = [copies EXCEPT ![j.msg] = @ + 1]
                   /\ \/ ok /\ UNCHANGED excused
                      \/ ~ok /\ excused' = excused \cup {j.msg}
             /\ UNCHANGED <<log, hook, arrived>>
<1> DEFINE Answer(j, ok, n) == poll' = [poll EXCEPT ![p] =
               [pc |-> "write", todo |-> poll[p].todo \ {j}, job |-> j, ok |-> ok, copy |-> n]]
<1>1. PICK j \in poll[p].todo :
        /\ j.was = "queued" \/ \A k \in poll[p].todo : k.was = "failed"
        /\ \/ Answer(j, FALSE, 0) /\ UNCHANGED <<copies, excused>>
           \/ /\ copies[j.msg] < MaxCopies
              /\ copies' = [copies EXCEPT ![j.msg] = @ + 1]
              /\ \/ \E n \in {0, copies[j.msg] + 1} : Answer(j, TRUE, n) /\ UNCHANGED excused
                 \/ Answer(j, FALSE, 0) /\ excused' = excused \cup {j.msg}
  BY DEF Send
<1>2. j \in Job /\ j.msg \in Messages  BY DEF QueueInv, QueueTypeOK, Pass, Job
<1>3. copies[j.msg] \in Copy  BY <1>2 DEF QueueInv, QueueTypeOK
<1>4. 0 \in Copy /\ (copies[j.msg] < MaxCopies => copies[j.msg] + 1 \in Copy)
  BY <1>3 DEF Copy
<1>5. poll[p].pc = "send" /\ UNCHANGED <<log, hook, arrived>>  BY DEF Send
<1>6. CASE UNCHANGED <<copies, excused>> /\ Answer(j, FALSE, 0)
  BY <1>1, <1>2, <1>4, <1>5, <1>6
<1>7. CASE /\ copies[j.msg] < MaxCopies
           /\ copies' = [copies EXCEPT ![j.msg] = @ + 1]
           /\ \E n \in {0, copies[j.msg] + 1} : Answer(j, TRUE, n) /\ UNCHANGED excused
  <2>1. PICK n \in {0, copies[j.msg] + 1} : Answer(j, TRUE, n) /\ UNCHANGED excused  BY <1>7
  <2>2. n \in Copy  BY <1>4, <1>7
  <2> QED  BY <1>1, <1>2, <1>5, <1>7, <2>1, <2>2
<1>8. CASE /\ copies[j.msg] < MaxCopies
           /\ copies' = [copies EXCEPT ![j.msg] = @ + 1]
           /\ Answer(j, FALSE, 0) /\ excused' = excused \cup {j.msg}
  BY <1>1, <1>2, <1>4, <1>5, <1>8
<1> QED  BY <1>1, <1>6, <1>7, <1>8

LEMMA SendKeepsQueue ==
    ASSUME QueueInv, NEW p \in Pollers, Send(p)
    PROVE  QueueInv'
<1> USE DEF QueueInv
<1>1. PICK j \in poll[p].todo, ok \in BOOLEAN, n \in Copy :
        /\ j \in Job /\ j.msg \in Messages
        /\ poll' = [poll EXCEPT ![p] =
               [pc |-> "write", todo |-> poll[p].todo \ {j}, job |-> j, ok |-> ok, copy |-> n]]
        /\ \/ UNCHANGED <<copies, excused>>
           \/ /\ copies[j.msg] < MaxCopies
              /\ copies' = [copies EXCEPT ![j.msg] = @ + 1]
              /\ excused' \in {excused, excused \cup {j.msg}}
        /\ UNCHANGED <<log, hook, arrived>>
  BY SendEffect
<1>2. [pc |-> "write", todo |-> poll[p].todo \ {j}, job |-> j, ok |-> ok, copy |-> n] \in Pass
  BY <1>1 DEF QueueTypeOK, Pass
<1>3. copies' \in [Messages -> Copy]
  <2>1. copies[j.msg] < MaxCopies => copies[j.msg] + 1 \in Copy
    BY <1>1 DEF QueueTypeOK, Copy
  <2> QED  BY <1>1, <2>1 DEF QueueTypeOK
<1>4. excused' \subseteq Messages  BY <1>1 DEF QueueTypeOK
<1>5. QueueTypeOK'  BY <1>1, <1>2, <1>3, <1>4 DEF QueueTypeOK
<1>6. PassesOK'  BY <1>1 DEF PassesOK, QueueTypeOK
<1>7. QueuedUntried' /\ HooksOK'  BY <1>1 DEF QueuedUntried, HooksOK
<1> QED  BY <1>5, <1>6, <1>7

LEMMA PatchedIsRow ==
    ASSUME NEW j \in Job, NEW ok \in BOOLEAN, NEW n \in Copy, log[j.msg] \in Log
    PROVE  Patched(j, ok, n) \in Log /\ Patched(j, ok, n).status # "queued"
<1>1. j.tries + 1 \in 0..3  BY DEF Job
<1>2. CASE ok  BY <1>2 DEF Patched, Log
<1>3. CASE ~ok  BY <1>1, <1>3 DEF Patched, Log
<1> QED  BY <1>2, <1>3

LEMMA WriteKeepsQueue ==
    ASSUME QueueInv, NEW p \in Pollers, WriteRow(p) \/ WriteLost(p)
    PROVE  QueueInv'
<1> USE DEF QueueInv
<1> DEFINE j == poll[p].job
           ok == poll[p].ok
           n == poll[p].copy
           m == j.msg
<1>1. j \in Job /\ m \in Messages /\ j.tries \in 0..2 /\ ok \in BOOLEAN /\ n \in Copy
  BY DEF WriteRow, WriteLost, PassesOK, QueueTypeOK, Pass, Job
<1>2. poll' = [poll EXCEPT ![p] = [poll[p] EXCEPT !.pc = "send", !.job = Nil,
                                                  !.ok = FALSE, !.copy = 0]]
  BY DEF WriteRow, WriteLost, NextJob, QueueTypeOK, Pass
<1>3. [poll[p] EXCEPT !.pc = "send", !.job = Nil, !.ok = FALSE, !.copy = 0] \in Pass
  <2>1. poll[p] \in Pass /\ 0 \in Copy  BY DEF QueueTypeOK, Copy
  <2> QED  BY <2>1 DEF Pass
<1>4. Patched(j, ok, n) \in Log /\ Patched(j, ok, n).status # "queued"
  BY <1>1, PatchedIsRow DEF QueueTypeOK
<1>5. log' = log \/ log' = [log EXCEPT ![m] = Patched(j, ok, n)]  BY DEF WriteRow, WriteLost
<1>6. QueueTypeOK'
  <2>1. log' \in [Messages -> Log]  BY <1>4, <1>5 DEF QueueTypeOK
  <2>2. excused' \subseteq Messages  BY DEF WriteRow, WriteLost, Unrecorded, QueueTypeOK
  <2> QED  BY <2>1, <2>2, <1>2, <1>3 DEF WriteRow, WriteLost, QueueTypeOK
<1>7. PassesOK'  BY <1>2 DEF PassesOK, QueueTypeOK, Pass
<1>8. QueuedUntried'  BY <1>1, <1>4, <1>5 DEF QueuedUntried, QueueTypeOK
<1>9. HooksOK'  BY DEF WriteRow, WriteLost, HooksOK
<1> QED  BY <1>6, <1>7, <1>8, <1>9

LEMMA EndKeepsQueue ==
    ASSUME QueueInv, NEW p \in Pollers, PassOver(p) \/ Stop(p)
    PROVE  QueueInv'
<1> USE DEF QueueInv
<1>1. poll' = [poll EXCEPT ![p] = NoPass]  BY DEF PassOver, Stop
<1>2. NoPass \in Pass  BY DEF NoPass, Pass, Copy
<1>3. excused' \subseteq Messages  BY DEF PassOver, Stop, Unrecorded, QueueTypeOK
<1>4. QueueTypeOK'  BY <1>1, <1>2, <1>3 DEF PassOver, Stop, QueueTypeOK
<1>5. PassesOK'  BY <1>1 DEF PassesOK, QueueTypeOK, NoPass
<1>6. QueuedUntried' /\ HooksOK'  BY DEF PassOver, Stop, QueuedUntried, HooksOK
<1> QED  BY <1>4, <1>5, <1>6

LEMMA HookKeepsQueue ==
    ASSUME QueueInv, NEW h \in Hooks, WebhookStep(h)
    PROVE  QueueInv'
<1> USE DEF QueueInv
<1>1. CASE \E m \in Messages, n \in 1..MaxCopies, fate \in {"sent", "delivered", "failed"} :
             Report(h, m, n, fate)
  <2> PICK m \in Messages, n \in 1..MaxCopies, fate \in {"sent", "delivered", "failed"} :
             Report(h, m, n, fate)
    BY <1>1
  <2>1. n \in Copy  BY DEF Copy
  <2>2. [pc |-> "row", msg |-> m, fate |-> fate] \in Handler  BY DEF Handler
  <2>3. QueueTypeOK'  BY <2>1, <2>2 DEF Report, QueueTypeOK
  <2>4. HooksOK'  BY DEF Report, HooksOK, QueueTypeOK
  <2>5. QueuedUntried' /\ PassesOK'  BY DEF Report, QueuedUntried, PassesOK
  <2> QED  BY <2>3, <2>4, <2>5
<1>2. CASE HookRow(h)
  <2>1. hook[h].msg \in Messages /\ hook[h] \in Handler
    BY <1>2 DEF HookRow, HooksOK, QueueTypeOK
  <2>2. [hook[h] EXCEPT !.pc = "approval"] \in Handler  BY <2>1 DEF Handler
  <2>3. hook' = [hook EXCEPT ![h] = [hook[h] EXCEPT !.pc = "approval"]]
    BY <1>2 DEF HookRow
  <2>4. [log[hook[h].msg] EXCEPT !.status = hook[h].fate] \in Log
    BY <2>1 DEF QueueTypeOK, Log, Handler
  <2>5. \/ log' = [log EXCEPT ![hook[h].msg] = [log[hook[h].msg] EXCEPT !.status = hook[h].fate]]
        \/ UNCHANGED log
    BY <1>2 DEF HookRow
  <2>6. log' \in [Messages -> Log]  BY <2>4, <2>5 DEF QueueTypeOK
  <2>7. excused' \subseteq Messages  BY <1>2, <2>1 DEF HookRow, QueueTypeOK
  <2>8. QueueTypeOK'  BY <1>2, <2>2, <2>3, <2>6, <2>7 DEF HookRow, QueueTypeOK
  <2>9. HooksOK'  BY <2>1, <2>3 DEF HooksOK, QueueTypeOK, Handler
  <2>10. QueuedUntried'
    BY <2>1, <2>5 DEF QueuedUntried, QueueTypeOK, Handler, Log
  <2>11. PassesOK'  BY <1>2 DEF HookRow, PassesOK
  <2> QED  BY <2>8, <2>9, <2>10, <2>11
<1>3. CASE HookOver(h)
  <2>1. NoHandler \in Handler  BY DEF NoHandler, Handler
  <2>2. QueueTypeOK'  BY <1>3, <2>1 DEF HookOver, QueueTypeOK
  <2>3. HooksOK'  BY <1>3 DEF HookOver, HooksOK, QueueTypeOK, NoHandler
  <2>4. QueuedUntried' /\ PassesOK'  BY <1>3 DEF HookOver, QueuedUntried, PassesOK
  <2> QED  BY <2>2, <2>3, <2>4
<1> QED  BY <1>1, <1>2, <1>3 DEF WebhookStep

LEMMA StepKeepsQueue == QueueInv /\ QueueStep => QueueInv'
<1> SUFFICES ASSUME QueueInv, QueueStep PROVE QueueInv'  OBVIOUS
<1>1. CASE UNCHANGED queueVars
  BY <1>1 DEF queueVars, QueueInv, QueueTypeOK, QueuedUntried, PassesOK, HooksOK
<1>2. CASE \E m \in Messages : InsertMessage(m)  BY <1>2, InsertKeepsQueue
<1>3. ASSUME NEW p \in Pollers, PollStep(p) PROVE QueueInv'
  <2>1. CASE ListQueued(p)
    <3> DEFINE ms == Oldest(InStatus("queued"), QueuedLimit)
    <3>1. ms \subseteq Messages /\ \A m \in ms : log[m].tries \in 0..2
      BY DEF Oldest, InStatus, QueueInv, QueuedUntried
    <3> QED  BY <2>1, <3>1, ListKeepsQueue DEF ListQueued
  <2>2. CASE ListFailed(p)
    <3>1. PICK ms \in SUBSET Messages : List(p, "send", "failed", ms) /\ \A m \in ms : Retryable(m)
      BY <2>2 DEF ListFailed, Oldest, InStatus
    <3>2. \A m \in ms : log[m].tries \in 0..2
      BY <3>1 DEF Retryable, QueueInv, QueueTypeOK, Log
    <3> QED  BY <2>2, <3>1, <3>2, ListKeepsQueue DEF ListFailed
  <2>3. CASE Send(p)  BY <2>3, SendKeepsQueue
  <2>4. CASE WriteRow(p) \/ WriteLost(p)  BY <2>4, WriteKeepsQueue
  <2>5. CASE PassOver(p) \/ Stop(p)  BY <2>5, EndKeepsQueue
  <2> QED  BY <1>3, <2>1, <2>2, <2>3, <2>4, <2>5 DEF PollStep
<1>4. CASE \E h \in Hooks : WebhookStep(h)  BY <1>4, HookKeepsQueue
<1> QED  BY <1>1, <1>2, <1>3, <1>4 DEF QueueStep

\* The inductive invariant of the message queue beside the approvals: who has
\* a message in hand, and what its row says (services/messaging.rs).
THEOREM QueueInvariant == ApprovalsSpec => []QueueInv
<1>1. QueueInv /\ [ApprovalsNext]_approvalVars => QueueInv'
  BY StepOnQueue, StepKeepsQueue
<1> QED  BY InitQueueInv, <1>1, PTL DEF ApprovalsSpec

-----------------------------------------------------------------------------
(* Copies.  As long as a message has no excuse, one pass at most has it in *)
(* hand, with the row as it still is, and its copies are known.            *)

InHand(p, m) == Waiting(p, m) \/ Sending(p, m)

JobsCurrent(m) ==
    \A p \in Pollers : \A j \in poll[p].todo :
        j.msg = m => j.tries = log[m].tries /\ j.was = log[m].status /\ copies[m] = 0

SendingCurrent(m) ==
    \A p \in Pollers : Sending(p, m) =>
        /\ log[m].status \in {"queued", "failed"}
        /\ ~Waiting(p, m)
        /\ copies[m] = IF poll[p].ok THEN 1 ELSE 0

OneHolder(m) == \A p, o \in Pollers : InHand(p, m) /\ InHand(o, m) => p = o

UnsentUncopied(m) ==
    log[m].status \in {"absent", "queued", "failed"} /\ (\A p \in Pollers : ~Sending(p, m))
      => copies[m] = 0

HooksFindSent(m) ==
    \A h \in Hooks : hook[h].pc = "row" /\ hook[h].msg = m =>
        log[m].status \in {"sent", "delivered"}

Orderly(m) ==
    /\ JobsCurrent(m) /\ SendingCurrent(m) /\ OneHolder(m)
    /\ UnsentUncopied(m) /\ HooksFindSent(m)
    /\ copies[m] <= 1

OrderInv == \A m \in Messages : m \notin excused => Orderly(m)

LEMMA InitOrderInv == ApprovalsInit => OrderInv
<1> SUFFICES ASSUME ApprovalsInit, NEW m \in Messages PROVE Orderly(m)  BY DEF OrderInv
<1> QED
  BY DEF ApprovalsInit, Orderly, JobsCurrent, SendingCurrent, OneHolder, UnsentUncopied,
         HooksFindSent, InHand, Waiting, Sending, NoPass, NoHandler

\* Who has a message in hand finds it queued or failed.
LEMMA HeldIsUnsent ==
    ASSUME QueueInv, NEW m \in Messages, Orderly(m), NEW p \in Pollers, InHand(p, m)
    PROVE  log[m].status \in {"queued", "failed"}
<1>1. CASE Sending(p, m)  BY <1>1 DEF Orderly, SendingCurrent
<1>2. CASE Waiting(p, m)
  <2>1. PICK j \in poll[p].todo : j.msg = m  BY <1>2 DEF Waiting
  <2>2. j.was \in {"queued", "failed"}  BY DEF QueueInv, QueueTypeOK, Pass, Job
  <2> QED  BY <2>1, <2>2 DEF Orderly, JobsCurrent
<1> QED  BY <1>1, <1>2 DEF InHand

\* A message nobody has in hand before or after the step.
LEMMA UnheldStaysOrderly ==
    ASSUME NEW m, \A p \in Pollers : ~InHand(p, m)', copies'[m] = 0, HooksFindSent(m)'
    PROVE  Orderly(m)'
  BY DEF Orderly, JobsCurrent, SendingCurrent, OneHolder, UnsentUncopied, InHand, Waiting, Sending

\* A message the step does not concern.
LEMMA SameStaysOrderly ==
    ASSUME NEW m, Orderly(m), log'[m] = log[m], copies'[m] = copies[m],
           \A p \in Pollers :
              \/ poll'[p] = poll[p]
              \/ /\ \A j \in poll'[p].todo : j.msg = m => j \in poll[p].todo
                 /\ ~Sending(p, m)' /\ ~Sending(p, m),
           \A h \in Hooks : hook'[h].pc = "row" /\ hook'[h].msg = m =>
              hook[h].pc = "row" /\ hook[h].msg = m
    PROVE  Orderly(m)'
<1>1. \A p \in Pollers : Sending(p, m)' => Sending(p, m) /\ poll'[p] = poll[p]
  BY DEF Sending
<1>2. \A p \in Pollers : Sending(p, m) => Sending(p, m)'  BY DEF Sending
<1>3. \A p \in Pollers : \A j \in poll'[p].todo : j.msg = m => j \in poll[p].todo  OBVIOUS
<1>4. \A p \in Pollers : InHand(p, m)' => InHand(p, m)  BY <1>1, <1>3 DEF InHand, Waiting
<1>5. JobsCurrent(m)'  BY <1>3 DEF Orderly, JobsCurrent
<1>6. SendingCurrent(m)'  BY <1>1, <1>3 DEF Orderly, SendingCurrent, Waiting
<1>7. OneHolder(m)'  BY <1>4 DEF Orderly, OneHolder
<1>8. UnsentUncopied(m)'  BY <1>2 DEF Orderly, UnsentUncopied
<1>9. HooksFindSent(m)'  BY DEF Orderly, HooksFindSent
<1> QED  BY <1>5, <1>6, <1>7, <1>8, <1>9 DEF Orderly

LEMMA InsertKeepsOrder ==
    ASSUME QueueInv, OrderInv, NEW m \in Messages, InsertMessage(m)
    PROVE  OrderInv'
<1> SUFFICES ASSUME NEW k \in Messages, k \notin excused, Orderly(k) PROVE Orderly(k)'
  BY DEF OrderInv, InsertMessage
<1>1. CASE k # m
  BY <1>1, SameStaysOrderly DEF InsertMessage, QueueInv, QueueTypeOK
<1>2. CASE k = m
  <2>1. \A p \in Pollers : ~InHand(p, m)  BY <1>2, HeldIsUnsent DEF InsertMessage
  <2>2. copies[m] = 0  BY <1>2, <2>1 DEF InsertMessage, Orderly, UnsentUncopied, InHand
  <2>3. \A h \in Hooks : ~(hook[h].pc = "row" /\ hook[h].msg = m)
    BY <1>2 DEF InsertMessage, Orderly, HooksFindSent
  <2> QED  BY <1>2, <2>1, <2>2, <2>3, UnheldStaysOrderly
           DEF InsertMessage, InHand, Waiting, Sending, HooksFindSent
<1> QED  BY <1>1, <1>2

LEMMA ListKeepsOrder ==
    ASSUME QueueInv, OrderInv, NEW p \in Pollers,
           NEW next \in {"list", "send"}, NEW status \in {"queued", "failed"},
           NEW ms \in SUBSET Messages,
           List(p, next, status, ms), poll[p].pc # "write",
           \A j \in poll[p].todo : j.was # status,
           \A m \in ms : log[m].status = status
    PROVE  OrderInv'
<1> SUFFICES ASSUME NEW m \in Messages, m \notin excused, Orderly(m),
                    m \notin Overlapping(p, ms \ Unaddressed)
             PROVE  Orderly(m)'
  BY DEF OrderInv, List
<1>1. /\ poll' = [poll EXCEPT ![p] = [poll[p] EXCEPT !.pc = next,
                                                     !.todo = @ \cup Listing(status, ms)]]
      /\ UNCHANGED <<log, hook, copies, arrived>>
  BY DEF List, Listing, QueueInv, QueueTypeOK, Pass
<1>2. /\ \A o \in Pollers \ {p} : poll'[o] = poll[o]
      /\ poll'[p].todo = poll[p].todo \cup Listing(status, ms)
      /\ poll'[p].pc # "write"
  BY <1>1 DEF QueueInv, QueueTypeOK, Pass
<1>3. CASE m \notin ms \ Unaddressed
  <2>1. \A j \in Listing(status, ms) : j.msg # m  BY <1>3 DEF Listing
  <2>2. \A j \in poll'[p].todo : j.msg = m => j \in poll[p].todo  BY <1>2, <2>1
  <2>3. ~Sending(p, m) /\ ~Sending(p, m)'  BY <1>2 DEF Sending
  <2> QED  BY <1>1, <1>2, <2>2, <2>3, SameStaysOrderly
<1>4. CASE m \in ms \ Unaddressed
  <2>1. \A o \in Pollers \ {p} : ~InHand(o, m)  BY <1>4 DEF Overlapping, InHand
  <2>2. ~Waiting(p, m)  BY <1>4 DEF Waiting, Orderly, JobsCurrent
  <2>3. \A o \in Pollers : ~Sending(o, m)  BY <2>1 DEF InHand, Sending
  <2>4. copies[m] = 0  BY <1>4, <2>3 DEF Orderly, UnsentUncopied
  <2>5. \A o \in Pollers : ~Sending(o, m)'  BY <1>2, <2>3 DEF Sending
  <2>6. \A o \in Pollers \ {p} : ~InHand(o, m)'  BY <1>2, <2>1 DEF InHand, Waiting, Sending
  <2>7. \A j \in Listing(status, ms) :
           j.msg = m => j.tries = log[m].tries /\ j.was = status
    BY DEF Listing
  <2>8. JobsCurrent(m)'
    <3> SUFFICES ASSUME NEW o \in Pollers, NEW j \in poll'[o].todo, j.msg = m
                 PROVE  j.tries = log[m].tries /\ j.was = log[m].status /\ copies[m] = 0
      BY <1>1 DEF JobsCurrent
    <3>1. o = p  BY <2>6 DEF InHand, Waiting
    <3>2. j \in Listing(status, ms)  BY <3>1, <1>2, <2>2 DEF Waiting
    <3> QED  BY <3>2, <2>4, <2>7, <1>4
  <2>9. SendingCurrent(m)'  BY <2>5 DEF SendingCurrent
  <2>10. OneHolder(m)'  BY <2>6 DEF OneHolder
  <2>11. UnsentUncopied(m)' /\ HooksFindSent(m)' /\ copies'[m] <= 1
    BY <1>1, <2>4 DEF UnsentUncopied, HooksFindSent, Orderly
  <2> QED  BY <2>8, <2>9, <2>10, <2>11 DEF Orderly
<1> QED  BY <1>3, <1>4

LEMMA SendKeepsOrder ==
    ASSUME QueueInv, OrderInv, NEW p \in Pollers, Send(p)
    PROVE  OrderInv'
<1>1. PICK j \in poll[p].todo, ok \in BOOLEAN, n \in Copy :
        /\ poll[p].pc = "send"
        /\ j \in Job /\ j.msg \in Messages
        /\ poll' = [poll EXCEPT ![p] =
               [pc |-> "write", todo |-> poll[p].todo \ {j}, job |-> j, ok |-> ok, copy |-> n]]
        /\ \/ ~ok /\ UNCHANGED <<copies, excused>>
           \/ /\ copies' = [copies EXCEPT ![j.msg] = @ + 1]
              /\ \/ ok /\ UNCHANGED excused
                 \/ ~ok /\ excused' = excused \cup {j.msg}
        /\ UNCHANGED <<log, hook, arrived>>
  BY SendEffect
<1> SUFFICES ASSUME NEW m \in Messages, m \notin excused, m \notin excused', Orderly(m)
             PROVE  Orderly(m)'
  BY <1>1 DEF OrderInv
<1>2. /\ \A o \in Pollers \ {p} : poll'[o] = poll[o]
      /\ poll'[p] = [pc |-> "write", todo |-> poll[p].todo \ {j}, job |-> j, ok |-> ok, copy |-> n]
  BY <1>1 DEF QueueInv, QueueTypeOK
<1>3. CASE j.msg # m
  <2>1. copies'[m] = copies[m]  BY <1>1, <1>3 DEF QueueInv, QueueTypeOK
  <2>2. ~Sending(p, m) /\ ~Sending(p, m)'  BY <1>1, <1>2, <1>3 DEF Sending
  <2> QED  BY <1>1, <1>2, <2>1, <2>2, SameStaysOrderly
<1>4. CASE j.msg = m
  <2>1. InHand(p, m)  BY <1>4 DEF InHand, Waiting
  <2>2. copies[m] = 0 /\ log[m].status \in {"queued", "failed"}
    BY <2>1, <1>4, HeldIsUnsent DEF Orderly, JobsCurrent
  <2>3. \A o \in Pollers \ {p} : ~InHand(o, m)  BY <2>1 DEF Orderly, OneHolder
  <2>4. \A o \in Pollers \ {p} : ~InHand(o, m)'  BY <1>2, <2>3 DEF InHand, Waiting, Sending
  <2>5. ~Waiting(p, m)'
    <3> SUFFICES ASSUME NEW i \in poll[p].todo \ {j}, i.msg = m PROVE FALSE
      BY <1>2 DEF Waiting
    <3>1. i \in Job  BY DEF QueueInv, QueueTypeOK, Pass
    <3>2. i.tries = j.tries /\ i.was = j.was  BY <1>4 DEF Orderly, JobsCurrent
    <3> QED  BY <1>1, <1>4, <3>1, <3>2 DEF Job
  <2>6. copies'[m] = (IF ok THEN 1 ELSE 0) /\ poll'[p].ok = ok
    BY <1>1, <1>2, <1>4, <2>2 DEF QueueInv, QueueTypeOK
  <2>7. JobsCurrent(m)'  BY <2>4, <2>5 DEF JobsCurrent, InHand, Waiting
  <2>8. SendingCurrent(m)'
    <3> SUFFICES ASSUME NEW o \in Pollers, Sending(o, m)'
                 PROVE  /\ log[m].status \in {"queued", "failed"}
                        /\ ~Waiting(o, m)'
                        /\ copies'[m] = IF poll'[o].ok THEN 1 ELSE 0
      BY <1>1 DEF SendingCurrent
    <3>1. o = p  BY <2>4 DEF InHand
    <3> QED  BY <3>1, <2>2, <2>5, <2>6
  <2>9. OneHolder(m)'  BY <2>4 DEF OneHolder
  <2>10. Sending(p, m)'  BY <1>2, <1>4 DEF Sending
  <2>11. UnsentUncopied(m)' /\ HooksFindSent(m)' /\ copies'[m] <= 1
    BY <1>1, <2>6, <2>10 DEF UnsentUncopied, HooksFindSent, Orderly
  <2> QED  BY <2>7, <2>8, <2>9, <2>11 DEF Orderly
<1> QED  BY <1>3, <1>4

LEMMA WriteKeepsOrder ==
    ASSUME QueueInv, OrderInv, NEW p \in Pollers, WriteRow(p) \/ WriteLost(p)
    PROVE  OrderInv'
<1> DEFINE j == poll[p].job
           ok == poll[p].ok
           n == poll[p].copy
<1>1. /\ poll[p].pc = "write" /\ j \in Job /\ j.msg \in Messages
      /\ UNCHANGED <<hook, copies, arrived>>
      /\ excused \subseteq excused'
  BY DEF WriteRow, WriteLost, QueueInv, PassesOK, Job
<1>2. /\ \A o \in Pollers \ {p} : poll'[o] = poll[o]
      /\ poll'[p].todo = poll[p].todo /\ poll'[p].pc = "send"
  BY DEF WriteRow, WriteLost, NextJob, QueueInv, QueueTypeOK, Pass
<1>3. \/ WriteRow(p) /\ log' = [log EXCEPT ![j.msg] = Patched(j, ok, n)]
      \/ WriteLost(p) /\ log' = log
  BY DEF WriteRow, WriteLost
<1> SUFFICES ASSUME NEW m \in Messages, m \notin excused, m \notin excused', Orderly(m)
             PROVE  Orderly(m)'
  BY <1>1 DEF OrderInv
<1>4. CASE j.msg # m
  <2>1. log'[m] = log[m]  BY <1>1, <1>3, <1>4 DEF QueueInv, QueueTypeOK
  <2>2. ~Sending(p, m) /\ ~Sending(p, m)'  BY <1>2, <1>4 DEF Sending
  <2> QED  BY <1>1, <1>2, <2>1, <2>2, SameStaysOrderly
<1>5. CASE j.msg = m
  <2>1. Sending(p, m)  BY <1>1, <1>5 DEF Sending
  <2>2. /\ log[m].status \in {"queued", "failed"}
        /\ ~Waiting(p, m)
        /\ copies[m] = IF ok THEN 1 ELSE 0
    BY <2>1 DEF Orderly, SendingCurrent
  <2>3. \A o \in Pollers : o # p => ~InHand(o, m)  BY <2>1 DEF Orderly, OneHolder, InHand
  <2>4. \A o \in Pollers : ~InHand(o, m)'
    BY <1>2, <2>2, <2>3 DEF InHand, Waiting, Sending
  <2>5. \A h \in Hooks : ~(hook[h].pc = "row" /\ hook[h].msg = m)
    BY <2>2 DEF Orderly, HooksFindSent
  <2>6. HooksFindSent(m)'  BY <2>5, <1>1 DEF HooksFindSent
  <2>7. CASE ~ok  BY <2>2, <2>4, <2>6, <2>7, <1>1, UnheldStaysOrderly
  <2>8. CASE ok
    <3>1. log' = [log EXCEPT ![m] = Patched(j, ok, n)]
      BY <1>3, <1>5, <2>1, <2>8 DEF WriteLost, Unrecorded
    <3>2. log'[m].status = "sent"
      BY <3>1, <1>5, <2>8 DEF Patched, QueueInv, QueueTypeOK, Log
    <3> QED  BY <3>2, <2>2, <2>4, <2>6, <1>1
             DEF Orderly, JobsCurrent, SendingCurrent, OneHolder, UnsentUncopied, InHand, Waiting
  <2> QED  BY <2>7, <2>8
<1> QED  BY <1>4, <1>5

LEMMA EndKeepsOrder ==
    ASSUME QueueInv, OrderInv, NEW p \in Pollers, PassOver(p) \/ Stop(p)
    PROVE  OrderInv'
<1>1. /\ \A o \in Pollers \ {p} : poll'[o] = poll[o]
      /\ poll'[p] = NoPass
      /\ UNCHANGED <<log, hook, copies, arrived>>
      /\ excused \subseteq excused'
  BY DEF PassOver, Stop, QueueInv, QueueTypeOK
<1> SUFFICES ASSUME NEW m \in Messages, m \notin excused, m \notin excused', Orderly(m)
             PROVE  Orderly(m)'
  BY <1>1 DEF OrderInv
<1>2. ~Sending(p, m)' /\ poll'[p].todo = {}  BY <1>1 DEF Sending, NoPass
<1>3. CASE ~Sending(p, m)  BY <1>1, <1>2, <1>3, SameStaysOrderly
<1>4. CASE Sending(p, m)
  <2>1. ~poll[p].ok  BY <1>4 DEF PassOver, Stop, Unrecorded, Sending
  <2>2. copies[m] = 0  BY <1>4, <2>1 DEF Orderly, SendingCurrent
  <2>3. \A o \in Pollers \ {p} : ~InHand(o, m)  BY <1>4 DEF Orderly, OneHolder, InHand
  <2>4. \A o \in Pollers : ~InHand(o, m)'
    BY <1>1, <1>2, <2>3 DEF InHand, Waiting, Sending
  <2>5. HooksFindSent(m)'  BY <1>1 DEF Orderly, HooksFindSent
  <2> QED  BY <1>1, <2>2, <2>4, <2>5, UnheldStaysOrderly
<1> QED  BY <1>3, <1>4

LEMMA HookKeepsOrder ==
    ASSUME QueueInv, OrderInv, NEW h \in Hooks, WebhookStep(h)
    PROVE  OrderInv'
<1>1. UNCHANGED <<poll, copies>> /\ excused \subseteq excused'
  BY DEF WebhookStep, Report, HookRow, HookOver
<1> SUFFICES ASSUME NEW m \in Messages, m \notin excused, m \notin excused', Orderly(m)
             PROVE  Orderly(m)'
  BY <1>1 DEF OrderInv
<1>2. CASE \E k \in Messages, n \in 1..MaxCopies, fate \in {"sent", "delivered", "failed"} :
             Report(h, k, n, fate)
  <2>1. UNCHANGED log  BY <1>2 DEF Report
  <2>2. HooksFindSent(m)'
    BY <1>2, <2>1 DEF Report, ReportsOn, Orderly, HooksFindSent, QueueInv, QueueTypeOK
  <2> QED  BY <1>1, <2>1, <2>2
           DEF Orderly, JobsCurrent, SendingCurrent, OneHolder, UnsentUncopied, InHand,
               Waiting, Sending
<1>3. CASE HookRow(h)
  <2>1. /\ hook[h].msg \in Messages /\ hook[h].pc = "row"
        /\ hook[h].fate \in {"sent", "delivered", "failed"}
    BY <1>3 DEF HookRow, QueueInv, HooksOK, QueueTypeOK, Handler
  <2>2. \A g \in Hooks : hook'[g].pc = "row" => hook'[g] = hook[g]
    BY <1>3 DEF HookRow, QueueInv, QueueTypeOK, Handler
  <2>3. \/ log' = [log EXCEPT ![hook[h].msg].status = hook[h].fate]
        \/ UNCHANGED log
    BY <1>3 DEF HookRow
  <2>4. CASE hook[h].msg # m \/ log' = log
    <3>1. log'[m] = log[m]  BY <2>1, <2>3, <2>4 DEF QueueInv, QueueTypeOK
    <3> QED  BY <3>1, <1>1, <2>2, SameStaysOrderly
  <2>5. CASE hook[h].msg = m /\ log' # log
    <3>1. hook[h].fate # "failed"  BY <1>3, <2>5 DEF HookRow
    <3>2. log'[m].status \in {"sent", "delivered"}
      BY <2>1, <2>3, <2>5, <3>1 DEF QueueInv, QueueTypeOK, Log
    <3>3. log[m].status \in {"sent", "delivered"}
      BY <2>1, <2>5 DEF Orderly, HooksFindSent
    <3>4. \A p \in Pollers : ~InHand(p, m)  BY <3>3, HeldIsUnsent
    <3>5. \A p \in Pollers : ~InHand(p, m)'  BY <3>4, <1>1 DEF InHand, Waiting, Sending
    <3> QED  BY <3>2, <3>5, <1>1
             DEF Orderly, JobsCurrent, SendingCurrent, OneHolder, UnsentUncopied,
                 HooksFindSent, InHand, Waiting
  <2> QED  BY <2>4, <2>5
<1>4. CASE HookOver(h)
  <2>1. \A g \in Hooks : hook'[g].pc = "row" => hook'[g] = hook[g]
    BY <1>4 DEF HookOver, QueueInv, QueueTypeOK, NoHandler
  <2> QED  BY <1>1, <1>4, <2>1, SameStaysOrderly DEF HookOver
<1> QED  BY <1>2, <1>3, <1>4 DEF WebhookStep

LEMMA StepKeepsOrder == QueueInv /\ OrderInv /\ QueueStep => OrderInv'
<1> SUFFICES ASSUME QueueInv, OrderInv, QueueStep PROVE OrderInv'  OBVIOUS
<1>1. CASE UNCHANGED queueVars
  BY <1>1 DEF queueVars, OrderInv, Orderly, JobsCurrent, SendingCurrent, OneHolder,
              UnsentUncopied, HooksFindSent, InHand, Waiting, Sending
<1>2. CASE \E m \in Messages : InsertMessage(m)  BY <1>2, InsertKeepsOrder
<1>3. ASSUME NEW p \in Pollers, PollStep(p) PROVE OrderInv'
  <2>1. CASE ListQueued(p)
    <3>1. poll[p].todo = {} /\ poll[p].pc # "write"
      BY <2>1 DEF ListQueued, QueueInv, PassesOK
    <3> DEFINE ms == Oldest(InStatus("queued"), QueuedLimit)
    <3>2. ms \subseteq Messages /\ \A m \in ms : log[m].status = "queued"
      BY DEF Oldest, InStatus
    <3> QED  BY <2>1, <3>1, <3>2, ListKeepsOrder DEF ListQueued
  <2>2. CASE ListFailed(p)
    <3>1. /\ \A j \in poll[p].todo : j.was # "failed"
          /\ poll[p].pc # "write"
      BY <2>2 DEF ListFailed, QueueInv, PassesOK
    <3>2. PICK ms \in SUBSET Messages : List(p, "send", "failed", ms) /\ \A m \in ms : Retryable(m)
      BY <2>2 DEF ListFailed, Oldest, InStatus
    <3> QED  BY <3>1, <3>2, ListKeepsOrder DEF Retryable
  <2>3. CASE Send(p)  BY <2>3, SendKeepsOrder
  <2>4. CASE WriteRow(p) \/ WriteLost(p)  BY <2>4, WriteKeepsOrder
  <2>5. CASE PassOver(p) \/ Stop(p)  BY <2>5, EndKeepsOrder
  <2> QED  BY <1>3, <2>1, <2>2, <2>3, <2>4, <2>5 DEF PollStep
<1>4. CASE \E h \in Hooks : WebhookStep(h)  BY <1>4, HookKeepsOrder
<1> QED  BY <1>1, <1>2, <1>3, <1>4 DEF QueueStep

\* A guest gets a message twice only for a reason: two passes had it in hand, a
\* pass stopped at it, an answer or a write was lost, or a copy was reported
\* as failed (process_queued_messages claims nothing).
THEOREM RepeatsHaveReasons == ApprovalsSpec => []RepeatsExplained
<1>1. QueueInv /\ OrderInv /\ [ApprovalsNext]_approvalVars => (QueueInv /\ OrderInv)'
  BY StepOnQueue, StepKeepsQueue, StepKeepsOrder
<1>2. OrderInv /\ QueueInv => RepeatsExplained
  BY DEF OrderInv, Orderly, RepeatsExplained, QueueInv, QueueTypeOK, Copy
<1> QED  BY InitQueueInv, InitOrderInv, <1>1, <1>2, PTL DEF ApprovalsSpec

-----------------------------------------------------------------------------
(* Approvals, requests and the run                                         *)

ReviewTypeOK ==
    /\ appr \in [Approvals -> Approval]
    /\ run \in {"running", "waiting_for_approval"} \cup Over
    /\ agent \in {"working", "done", "asking", "failing", "over", "failed"}
    /\ req \in [Reviewers -> Request]
    /\ ran \in [Approvals -> Nat]

\* Between claim and result.
Claimed(q) == req[q].pc \in {"execute", "finalize"}

ClaimsOK ==
    /\ \A q \in Reviewers : Claimed(q) =>
         /\ req[q].at \in Approvals
         /\ appr[req[q].at].status = "approved"
         /\ ran[req[q].at] = IF req[q].pc = "execute" THEN 0 ELSE 1
    /\ \A q, r \in Reviewers :
         Claimed(q) /\ Claimed(r) /\ req[q].at = req[r].at => q = r

ApprovedOnce == \A a \in Approvals : appr[a].status = "approved" => ran[a] <= 1

\* A verdict that something was refused holds.
VerdictsOK == \A q \in Reviewers : req[q].bad => Refused

ReviewInv ==
    ReviewTypeOK /\ ClaimsOK /\ ApprovedOnce /\ ExecutedOnce /\ VerdictsOK /\ FailedForCause

LEMMA InitReviewInv == ApprovalsInit => ReviewInv
<1> SUFFICES ASSUME ApprovalsInit PROVE ReviewInv  OBVIOUS
<1>1. NoRequest \in Request  BY DEF NoRequest, Request
<1>2. ReviewTypeOK  BY <1>1 DEF ApprovalsInit, ReviewTypeOK, Approval
<1>3. ClaimsOK /\ VerdictsOK  BY DEF ApprovalsInit, ClaimsOK, VerdictsOK, Claimed, NoRequest
<1>4. ApprovedOnce /\ ExecutedOnce /\ FailedForCause
  BY DEF ApprovalsInit, ApprovedOnce, ExecutedOnce, FailedForCause
<1> QED  BY <1>2, <1>3, <1>4 DEF ReviewInv

\* The statuses a step leaves alone, or moves as a claim does not.
UnclaimedMove(a) ==
    \/ appr'[a].status = appr[a].status
    \/ appr[a].status = "absent" /\ appr'[a].status = "pending"
    \/ appr[a].status = "pending" /\ appr'[a].status = "rejected"

\* A step that claims nothing and ends no claim but by forgetting it.
LEMMA QuietKeeps ==
    ASSUME ReviewInv, ReviewTypeOK',
           \A a \in Approvals : UnclaimedMove(a),
           UNCHANGED ran,
           \A q \in Reviewers :
              /\ req'[q] = req[q] \/ ~Claimed(q)'
              /\ req'[q].bad => req[q].bad \/ Refused,
           run' = "failed" => run = "failed" \/ agent' = "failed" \/ Refused,
           agent = "failed" => agent' = "failed"
    PROVE  ReviewInv'
<1> USE DEF ReviewInv
<1>1. Refused => Refused'  BY DEF Refused, UnclaimedMove
<1>2. \A q \in Reviewers : Claimed(q)' => req'[q] = req[q] /\ Claimed(q)
  BY DEF Claimed
<1>3. \A a \in Approvals : appr[a].status = "approved" <=> appr'[a].status = "approved"
  BY DEF UnclaimedMove
<1>4. ClaimsOK'  BY <1>2, <1>3 DEF ClaimsOK
<1>5. ApprovedOnce'  BY <1>3 DEF ApprovedOnce
<1>6. ExecutedOnce'
  <2> SUFFICES ASSUME NEW a \in Approvals
               PROVE  /\ ran[a] <= 1
                      /\ appr'[a].status \in {"absent", "pending", "rejected"} => ran[a] = 0
                      /\ appr'[a].status \in {"executed", "execution_failed"} => ran[a] = 1
    BY DEF ExecutedOnce
  <2>1. UnclaimedMove(a)  OBVIOUS
  <2> QED  BY <2>1 DEF ExecutedOnce, UnclaimedMove
<1>7. VerdictsOK'  BY <1>1 DEF VerdictsOK
<1>8. FailedForCause'
  <2>1. CASE Refused'  BY <2>1 DEF Refused, FailedForCause
  <2>2. CASE ~Refused' /\ run' = "failed"
    <3>1. run = "failed" \/ agent' = "failed"  BY <2>2, <1>1
    <3>2. run = "failed" => agent = "failed"  BY <2>2, <1>1 DEF FailedForCause, Refused
    <3> QED  BY <3>1, <3>2 DEF FailedForCause
  <2>3. CASE run' # "failed"  BY <2>3 DEF FailedForCause
  <2> QED  BY <2>1, <2>2, <2>3
<1> QED  BY <1>4, <1>5, <1>6, <1>7, <1>8

\* Claimable(a) and the claim itself.
LEMMA ClaimKeeps ==
    ASSUME ReviewInv, ReviewTypeOK', NEW q \in Reviewers, NEW a \in Approvals,
           ~Claimed(q), Claimable(a),
           appr' = [appr EXCEPT ![a].status = "approved"],
           \A r \in Reviewers \ {q} : req'[r] = req[r],
           req'[q].pc = "execute", req'[q].at = a, req'[q].bad => req[q].bad,
           UNCHANGED <<run, agent, ran>>
    PROVE  ReviewInv'
<1> USE DEF ReviewInv
<1>1. appr[a].status = "pending" /\ ran[a] = 0  BY DEF Claimable, ExecutedOnce
<1>2. /\ appr'[a].status = "approved"
      /\ \A b \in Approvals \ {a} : appr'[b] = appr[b]
  BY DEF ReviewTypeOK, Approval
<1>3. Refused => Refused'  BY <1>1, <1>2 DEF Refused
<1>4. \A r \in Reviewers \ {q} : Claimed(r)' => Claimed(r) /\ req[r].at # a
  BY <1>1 DEF Claimed, ClaimsOK
<1>5. ClaimsOK'
  <2>1. ASSUME NEW r \in Reviewers, Claimed(r)'
        PROVE  /\ req'[r].at \in Approvals
               /\ appr'[req'[r].at].status = "approved"
               /\ ran[req'[r].at] = IF req'[r].pc = "execute" THEN 0 ELSE 1
    <3>1. CASE r = q  BY <3>1, <1>1, <1>2
    <3>2. CASE r # q  BY <2>1, <3>2, <1>2, <1>4 DEF ClaimsOK
    <3> QED  BY <3>1, <3>2
  <2>2. ASSUME NEW r \in Reviewers, NEW s \in Reviewers, Claimed(r)', Claimed(s)',
               req'[r].at = req'[s].at
        PROVE  r = s
    BY <2>2, <1>4 DEF ClaimsOK
  <2> QED  BY <2>1, <2>2 DEF ClaimsOK
<1>6. ApprovedOnce'  BY <1>1, <1>2 DEF ApprovedOnce
<1>7. ExecutedOnce'  BY <1>1, <1>2 DEF ExecutedOnce
<1>8. VerdictsOK'  BY <1>3 DEF VerdictsOK
<1>9. FailedForCause'  BY <1>3 DEF FailedForCause, Refused
<1> QED  BY <1>5, <1>6, <1>7, <1>8, <1>9

LEMMA ExecuteKeeps ==
    ASSUME ReviewInv, QueueInv, NEW q \in Reviewers, execute_approved_tool(q)
    PROVE  ReviewInv'
<1> USE DEF ReviewInv
<1>1. PICK ok \in BOOLEAN, m \in Messages \cup {Nil} :
        req' = [req EXCEPT ![q].pc = "finalize", ![q].ok = ok, ![q].msg = m]
  BY DEF execute_approved_tool
<1> DEFINE a == req[q].at
<1>2. /\ a \in Approvals /\ appr[a].status = "approved" /\ ran[a] = 0
      /\ req[q].pc = "execute"
  BY DEF execute_approved_tool, ClaimsOK, Claimed
<1>3. /\ ran' = [ran EXCEPT ![a] = 1]
      /\ UNCHANGED <<appr, run, agent>>
  BY <1>2 DEF execute_approved_tool
<1>4. /\ req'[q] = [req[q] EXCEPT !.pc = "finalize", !.ok = ok, !.msg = m]
      /\ \A r \in Reviewers \ {q} : req'[r] = req[r]
  BY <1>1 DEF ReviewTypeOK
<1>5. req' = [req EXCEPT ![q] = [req[q] EXCEPT !.pc = "finalize", !.ok = ok, !.msg = m]]
  BY <1>1
<1>6. [req[q] EXCEPT !.pc = "finalize", !.ok = ok, !.msg = m] \in Request
  BY DEF ReviewTypeOK, Request
<1>7. ReviewTypeOK'  BY <1>3, <1>5, <1>6 DEF ReviewTypeOK
<1>8. req'[q].pc = "finalize" /\ req'[q].at = a /\ req'[q].bad = req[q].bad
  BY <1>4 DEF ReviewTypeOK, Request
<1>9. \A r \in Reviewers \ {q} : Claimed(r)' => Claimed(r) /\ req[r].at # a
  BY <1>2, <1>4 DEF Claimed, ClaimsOK
<1>10. ClaimsOK'
  <2>1. ASSUME NEW r \in Reviewers, Claimed(r)'
        PROVE  /\ req'[r].at \in Approvals
               /\ appr'[req'[r].at].status = "approved"
               /\ ran'[req'[r].at] = IF req'[r].pc = "execute" THEN 0 ELSE 1
    <3>1. CASE r = q  BY <3>1, <1>2, <1>3, <1>8 DEF ReviewTypeOK
    <3>2. CASE r # q  BY <2>1, <3>2, <1>3, <1>4, <1>9 DEF ClaimsOK, ReviewTypeOK
    <3> QED  BY <3>1, <3>2
  <2>2. ASSUME NEW r \in Reviewers, NEW s \in Reviewers, Claimed(r)', Claimed(s)',
               req'[r].at = req'[s].at
        PROVE  r = s
    <3>1. \A t \in Reviewers \ {q} : Claimed(t)' => req'[t].at # req'[q].at
      BY <1>4, <1>8, <1>9
    <3>2. CASE r # q /\ s # q
      <4>1. Claimed(r) /\ Claimed(s) /\ req[r].at = req[s].at  BY <2>2, <3>2, <1>4, <1>9
      <4> QED  BY <4>1 DEF ClaimsOK
    <3> QED  BY <2>2, <3>1, <3>2
  <2> QED  BY <2>1, <2>2 DEF ClaimsOK
<1>11. ApprovedOnce' /\ ExecutedOnce'
  BY <1>2, <1>3 DEF ApprovedOnce, ExecutedOnce, ReviewTypeOK
<1>12. VerdictsOK' /\ FailedForCause'
  BY <1>3, <1>4, <1>8 DEF VerdictsOK, FailedForCause, Refused
<1> QED  BY <1>7, <1>10, <1>11, <1>12

\* What Finalize leaves of the request.
Released(q) ==
    [req[q] EXCEPT !.pc  = IF req[q].by = "one" THEN "count" ELSE "next",
                   !.at  = Nil, !.msg = Nil, !.ok = FALSE,
                   !.bad = req[q].bad \/ (req[q].by = "run" /\ ~req[q].ok)]

LEMMA FinalizeKeeps ==
    ASSUME ReviewInv, NEW q \in Reviewers, Finalize(q)
    PROVE  ReviewInv'
<1> USE DEF ReviewInv
<1> DEFINE a == req[q].at
<1>1. req' = [req EXCEPT ![q] = Released(q)]  BY DEF Finalize, Released
<1>2. /\ a \in Approvals /\ appr[a].status = "approved" /\ ran[a] = 1
      /\ req[q] \in Request /\ req[q].pc = "finalize"
  BY DEF Finalize, ClaimsOK, Claimed, ReviewTypeOK
<1>3. Released(q) \in Request  BY <1>2 DEF Released, Request
<1>4. /\ \A r \in Reviewers \ {q} : req'[r] = req[r]
      /\ req'[q] = Released(q)
  BY <1>1 DEF ReviewTypeOK
<1>5. ~Claimed(q)'  BY <1>2, <1>4 DEF Claimed, Released, Request
<1>6. /\ UNCHANGED <<run, agent, ran>>
      /\ \/ appr' = [appr EXCEPT ![a] = Finalized(a, q)]
         \/ req[q].by = "batch" /\ UNCHANGED appr
  BY DEF Finalize
<1>7. req'[q].bad => req[q].bad \/ (req[q].by = "run" /\ ~req[q].ok)
  BY <1>2, <1>4 DEF Released, Request
<1>8. CASE UNCHANGED appr /\ req[q].by = "batch"
  <2>1. ReviewTypeOK'  BY <1>1, <1>3, <1>6, <1>8 DEF ReviewTypeOK
  <2>2. \A b \in Approvals : UnclaimedMove(b)  BY <1>8 DEF UnclaimedMove
  <2> QED  BY <2>1, <2>2, <1>4, <1>5, <1>6, <1>7, <1>8, QuietKeeps
<1>9. CASE appr' = [appr EXCEPT ![a] = Finalized(a, q)]
  <2>1. /\ Finalized(a, q) \in Approval
        /\ Finalized(a, q).status = IF req[q].ok THEN "executed" ELSE "execution_failed"
    <3>1. appr[a] \in Approval  BY <1>2 DEF ReviewTypeOK
    <3> QED  BY <1>2, <3>1 DEF Finalized, Approval, Request
  <2>2. ReviewTypeOK'  BY <1>1, <1>3, <1>6, <1>9, <2>1 DEF ReviewTypeOK
  <2>3. /\ appr'[a].status = IF req[q].ok THEN "executed" ELSE "execution_failed"
        /\ \A b \in Approvals \ {a} : appr'[b] = appr[b]
    BY <1>2, <1>9, <2>1 DEF ReviewTypeOK
  <2>4. Refused => Refused'  BY <1>2, <2>3 DEF Refused
  <2>5. \A r \in Reviewers : Claimed(r)' =>
           r # q /\ req'[r] = req[r] /\ Claimed(r) /\ req[r].at # a
    BY <1>2, <1>4, <1>5 DEF Claimed, ClaimsOK
  <2>6. ClaimsOK'  BY <1>6, <2>3, <2>5 DEF ClaimsOK
  <2>7. ApprovedOnce' /\ ExecutedOnce'  BY <1>2, <1>6, <2>3 DEF ApprovedOnce, ExecutedOnce
  <2>8. VerdictsOK'
    <3>1. req'[q].bad => Refused'  BY <1>2, <1>7, <2>3, <2>4 DEF VerdictsOK, Refused
    <3> QED  BY <3>1, <2>4, <1>4 DEF VerdictsOK
  <2>9. FailedForCause'  BY <1>6, <2>4 DEF FailedForCause, Refused
  <2> QED  BY <2>2, <2>6, <2>7, <2>8, <2>9
<1> QED  BY <1>6, <1>8, <1>9

\* A request that only moves on, and may set the run by its verdict.
LEMMA MoveKeeps ==
    ASSUME ReviewInv, NEW q \in Reviewers, NEW r \in Request,
           req' = [req EXCEPT ![q] = r],
           r.pc \notin {"execute", "finalize"}, r.bad => req[q].bad \/ Refused,
           UNCHANGED <<appr, agent, ran>>,
           run' = run \/ run' = "completed" \/ (run' = "failed" /\ req[q].bad)
    PROVE  ReviewInv'
<1>1. ReviewTypeOK'  BY DEF ReviewInv, ReviewTypeOK, Over
<1>2. \A a \in Approvals : UnclaimedMove(a)  BY DEF UnclaimedMove
<1>3. \A s \in Reviewers : /\ req'[s] = req[s] \/ ~Claimed(s)'
                           /\ req'[s].bad => req[s].bad \/ Refused
  BY DEF ReviewInv, ReviewTypeOK, Claimed
<1>4. run' = "failed" => run = "failed" \/ Refused  BY DEF ReviewInv, VerdictsOK
<1> QED  BY <1>1, <1>2, <1>3, <1>4, QuietKeeps

LEMMA GotoKeeps ==
    ASSUME ReviewInv, NEW q \in Reviewers,
           NEW pc \in {"idle", "next", "count", "look", "sum", "settle", "end"},
           Goto(q, pc), UNCHANGED <<appr, agent, ran>>,
           run' = run \/ run' = "completed" \/ (run' = "failed" /\ req[q].bad)
    PROVE  ReviewInv'
<1> DEFINE r == IF pc = "idle" THEN NoRequest ELSE [req[q] EXCEPT !.pc = pc]
<1>1. req' = [req EXCEPT ![q] = r]  BY DEF Goto
<1>2. r \in Request  BY DEF ReviewInv, ReviewTypeOK, Request, NoRequest
<1>3. r.pc = pc /\ (r.bad => req[q].bad)  BY DEF ReviewInv, ReviewTypeOK, Request, NoRequest
<1> HIDE DEF r
<1> QED  BY <1>1, <1>2, <1>3, MoveKeeps

LEMMA StartKeeps ==
    ASSUME ReviewInv, NEW q \in Reviewers, Review(q)
    PROVE  ReviewInv'
<1>0. ~Claimed(q)
  BY DEF Review, approve_approval, reject_approval, batch_review_approvals, approve_run, Claimed
<1>1. ASSUME NEW a \in Approvals, approve_approval(q, a) PROVE ReviewInv'
  <2> DEFINE r == [NoRequest EXCEPT !.pc = "execute", !.at = a]
  <2>1. r \in Request /\ r.pc = "execute" /\ r.at = a /\ ~r.bad  BY DEF NoRequest, Request
  <2>2. req' = [req EXCEPT ![q] = r]  BY <1>1 DEF approve_approval
  <2> HIDE DEF r
  <2>3. ReviewTypeOK'
    BY <1>1, <2>1, <2>2 DEF approve_approval, ReviewInv, ReviewTypeOK, Approval
  <2>4. req'[q] = r /\ \A s \in Reviewers \ {q} : req'[s] = req[s]
    BY <2>2 DEF ReviewInv, ReviewTypeOK
  <2> QED  BY <1>0, <1>1, <2>1, <2>3, <2>4, ClaimKeeps DEF approve_approval
<1>2. ASSUME NEW a \in Approvals, reject_approval(q, a) PROVE ReviewInv'
  <2> DEFINE r == [NoRequest EXCEPT !.pc = "count"]
  <2>1. r \in Request /\ r.pc = "count" /\ ~r.bad  BY DEF NoRequest, Request
  <2>2. req' = [req EXCEPT ![q] = r]  BY <1>2 DEF reject_approval
  <2> HIDE DEF r
  <2>3. ReviewTypeOK'
    BY <1>2, <2>1, <2>2 DEF reject_approval, ReviewInv, ReviewTypeOK, Approval
  <2>4. req'[q] = r /\ \A s \in Reviewers \ {q} : req'[s] = req[s]
    BY <2>2 DEF ReviewInv, ReviewTypeOK
  <2>5. \A b \in Approvals : UnclaimedMove(b)
    BY <1>2 DEF reject_approval, Claimable, UnclaimedMove, ReviewInv, ReviewTypeOK, Approval
  <2> QED  BY <1>2, <2>1, <2>3, <2>4, <2>5, QuietKeeps DEF reject_approval, Claimed
<1>3. ASSUME NEW ids \in SUBSET Approvals, NEW by \in {"batch", "reject"},
             batch_review_approvals(q, ids, by)
      PROVE  ReviewInv'
  <2> DEFINE r == [NoRequest EXCEPT !.pc = "next", !.by = by, !.todo = ids]
  <2>1. r \in Request /\ r.pc = "next" /\ ~r.bad  BY DEF NoRequest, Request
  <2>2. req' = [req EXCEPT ![q] = r]  BY <1>3 DEF batch_review_approvals
  <2> HIDE DEF r
  <2> QED  BY <1>3, <2>1, <2>2, MoveKeeps DEF batch_review_approvals
<1>4. CASE approve_run(q)
  <2> DEFINE r == [NoRequest EXCEPT !.pc = "next", !.by = "run", !.todo = Pending]
  <2>1. r \in Request /\ r.pc = "next" /\ ~r.bad  BY DEF NoRequest, Request, Pending
  <2>2. req' = [req EXCEPT ![q] = r]  BY <1>4 DEF approve_run
  <2> HIDE DEF r
  <2> QED  BY <1>4, <2>1, <2>2, MoveKeeps DEF approve_run
<1> QED  BY <1>1, <1>2, <1>3, <1>4 DEF Review

LEMMA NextApprovalKeeps ==
    ASSUME ReviewInv, NEW q \in Reviewers, NextApproval(q)
    PROVE  ReviewInv'
<1> DEFINE rest(a) == [req[q] EXCEPT !.todo = @ \ {a}]
           taken(a) == [rest(a) EXCEPT !.pc = "execute", !.at = a]
<1>1. PICK a \in req[q].todo :
        \/ req' = [req EXCEPT ![q] = rest(a)] /\ UNCHANGED appr
        \/ /\ Claimable(a)
           /\ req' = [req EXCEPT ![q] = rest(a)]
           /\ appr' = [appr EXCEPT ![a].status = "rejected"]
        \/ /\ Claimable(a)
           /\ req' = [req EXCEPT ![q] = taken(a)]
           /\ appr' = [appr EXCEPT ![a].status = "approved"]
  BY DEF NextApproval
<1>2. /\ req[q] \in Request /\ req[q].pc = "next" /\ ~Claimed(q)
      /\ a \in Approvals
      /\ UNCHANGED <<run, agent, ran>>
  BY DEF NextApproval, ReviewInv, ReviewTypeOK, Claimed, Request
<1>3. /\ rest(a) \in Request /\ rest(a).pc = "next" /\ (rest(a).bad => req[q].bad)
      /\ taken(a) \in Request /\ taken(a).pc = "execute" /\ taken(a).at = a
      /\ taken(a).bad => req[q].bad
  BY <1>2 DEF Request
<1> HIDE DEF rest, taken
<1>4. CASE req' = [req EXCEPT ![q] = rest(a)] /\ UNCHANGED appr
  BY <1>2, <1>3, <1>4, MoveKeeps
<1>5. CASE /\ Claimable(a)
           /\ req' = [req EXCEPT ![q] = rest(a)]
           /\ appr' = [appr EXCEPT ![a].status = "rejected"]
  <2>1. ReviewTypeOK'  BY <1>2, <1>3, <1>5 DEF ReviewInv, ReviewTypeOK, Approval
  <2>2. \A b \in Approvals : UnclaimedMove(b)
    BY <1>2, <1>5 DEF Claimable, UnclaimedMove, ReviewInv, ReviewTypeOK, Approval
  <2>3. req'[q] = rest(a) /\ \A s \in Reviewers \ {q} : req'[s] = req[s]
    BY <1>5 DEF ReviewInv, ReviewTypeOK
  <2> QED  BY <1>2, <1>3, <2>1, <2>2, <2>3, QuietKeeps DEF Claimed
<1>6. CASE /\ Claimable(a)
           /\ req' = [req EXCEPT ![q] = taken(a)]
           /\ appr' = [appr EXCEPT ![a].status = "approved"]
  <2>1. ReviewTypeOK'  BY <1>2, <1>3, <1>6 DEF ReviewInv, ReviewTypeOK, Approval
  <2>2. req'[q] = taken(a) /\ \A s \in Reviewers \ {q} : req'[s] = req[s]
    BY <1>6 DEF ReviewInv, ReviewTypeOK
  <2> QED  BY <1>2, <1>3, <1>6, <2>1, <2>2, ClaimKeeps
<1> QED  BY <1>1, <1>4, <1>5, <1>6

LEMMA RequestKeeps ==
    ASSUME ReviewInv, QueueInv, NEW q \in Reviewers, RequestStep(q) \/ CutShort(q)
    PROVE  ReviewInv'
<1>1. CASE NextApproval(q)  BY <1>1, NextApprovalKeeps
<1>2. CASE LoopOver(q)  BY <1>2, GotoKeeps DEF LoopOver
<1>3. CASE execute_approved_tool(q)  BY <1>3, ExecuteKeeps
<1>4. CASE Finalize(q)  BY <1>4, FinalizeKeeps
<1>5. CASE EndRun(q)  BY <1>5, GotoKeeps DEF EndRun
<1>6. CASE ReconcileCount(q)  BY <1>6, GotoKeeps DEF ReconcileCount
<1>7. CASE ReconcileLook(q)  BY <1>7, GotoKeeps DEF ReconcileLook
<1>8. CASE ReconcileSum(q)
  <2>1. CASE req' = [req EXCEPT ![q] = NoRequest]
    <3>1. NoRequest \in Request /\ NoRequest.pc = "idle" /\ ~NoRequest.bad
      BY DEF NoRequest, Request
    <3> QED  BY <1>8, <2>1, <3>1, MoveKeeps DEF ReconcileSum
  <2>2. CASE req' = [req EXCEPT ![q] = [req[q] EXCEPT !.pc = "settle", !.bad = Refused]]
    <3> DEFINE r == [req[q] EXCEPT !.pc = "settle", !.bad = Refused]
    <3>1. r \in Request /\ r.pc = "settle" /\ (r.bad => Refused)
      <4>1. req[q] \in Request /\ Refused \in BOOLEAN  BY DEF ReviewInv, ReviewTypeOK, Refused
      <4> QED  BY <4>1 DEF Request
    <3> HIDE DEF r
    <3>2. req' = [req EXCEPT ![q] = r]  BY <2>2 DEF r
    <3> QED  BY <1>8, <3>1, <3>2, MoveKeeps DEF ReconcileSum
  <2> QED  BY <1>8, <2>1, <2>2 DEF ReconcileSum
<1>9. CASE ReconcileSettle(q)  BY <1>9, GotoKeeps DEF ReconcileSettle
<1>10. CASE CutShort(q)  BY <1>10, GotoKeeps DEF CutShort
<1> QED
  BY <1>1, <1>2, <1>3, <1>4, <1>5, <1>6, <1>7, <1>8, <1>9, <1>10 DEF RequestStep

\* The agent, and whoever cancels the run.
LEMMA RunKeeps ==
    ASSUME ReviewInv, AgentStep \/ cancel_run
    PROVE  ReviewInv'
<1>1. UNCHANGED <<req, ran>>
  BY DEF AgentStep, cancel_run, maybe_create_approval, AgentEnds, WriteRun
<1>2. \A a \in Approvals : UnclaimedMove(a)
  BY DEF AgentStep, cancel_run, maybe_create_approval, AgentEnds, WriteRun, UnclaimedMove,
         ReviewInv, ReviewTypeOK, Approval
<1>3. ReviewTypeOK'
  BY DEF AgentStep, cancel_run, maybe_create_approval, AgentEnds, WriteRun,
         ReviewInv, ReviewTypeOK, Approval, Over
<1>4. /\ run' = "failed" => run = "failed" \/ agent' = "failed"
      /\ agent = "failed" => agent' = "failed"
  BY DEF AgentStep, cancel_run, maybe_create_approval, AgentEnds, WriteRun
<1> QED  BY <1>1, <1>2, <1>3, <1>4, QuietKeeps DEF ReviewInv

LEMMA PropagateKeeps ==
    ASSUME ReviewInv, QueueInv, NEW h \in Hooks, Propagate(h)
    PROVE  ReviewInv'
<1>1. /\ UNCHANGED <<run, agent, req, ran>>
      /\ hook[h].fate \in {"sent", "delivered", "failed"}
  BY DEF Propagate, QueueInv, QueueTypeOK, Handler
<1>2. \A a \in Approvals : /\ appr'[a] \in Approval
                           /\ appr'[a].status = appr[a].status
  BY <1>1 DEF Propagate, ReviewInv, ReviewTypeOK, Approval
<1>3. ReviewTypeOK'  BY <1>1, <1>2 DEF Propagate, ReviewInv, ReviewTypeOK
<1> QED  BY <1>1, <1>2, <1>3, QuietKeeps DEF UnclaimedMove, ReviewInv

LEMMA UnchangedKeeps == ReviewInv /\ UNCHANGED others => ReviewInv'
<1> SUFFICES ASSUME ReviewInv, UNCHANGED others PROVE ReviewInv'  OBVIOUS
<1>1. ReviewTypeOK'  BY DEF others, ReviewInv, ReviewTypeOK
<1> QED  BY <1>1, QuietKeeps DEF others, UnclaimedMove

LEMMA StepKeepsReview == QueueInv /\ ReviewInv /\ [ApprovalsNext]_approvalVars => ReviewInv'
<1> SUFFICES ASSUME QueueInv, ReviewInv, [ApprovalsNext]_approvalVars PROVE ReviewInv'
  OBVIOUS
<1>1. CASE AgentStep \/ cancel_run  BY <1>1, RunKeeps
<1>2. CASE \E q \in Reviewers : Review(q) \/ RequestStep(q) \/ CutShort(q)
  BY <1>2, StartKeeps, RequestKeeps
<1>3. CASE \E p \in Pollers : PassStep(p) \/ PassFault(p)
  BY <1>3, UnchangedKeeps DEF PassStep, PassFault
<1>6. CASE \E m \in Messages : send_message(m)  BY <1>6, UnchangedKeeps DEF send_message
<1>4. CASE \E h \in Hooks : HookStep(h)
  BY <1>4, UnchangedKeeps, PropagateKeeps DEF HookStep
<1>5. CASE UNCHANGED approvalVars  BY <1>5, UnchangedKeeps DEF approvalVars, others
<1> QED  BY <1>1, <1>2, <1>3, <1>4, <1>5, <1>6 DEF ApprovalsNext

\* The inductive invariant of reviews: from its claim to its result a request
\* has the approval to itself (routes/approvals.rs).
THEOREM ReviewInvariant == ApprovalsSpec => [](QueueInv /\ ReviewInv)
<1>1. QueueInv /\ ReviewInv /\ [ApprovalsNext]_approvalVars => (QueueInv /\ ReviewInv)'
  BY StepOnQueue, StepKeepsQueue, StepKeepsReview
<1> QED  BY InitQueueInv, InitReviewInv, <1>1, PTL DEF ApprovalsSpec

\* Every variable keeps its type.
THEOREM ApprovalTypes == ApprovalsSpec => []ApprovalsTypeOK
<1>1. QueueInv /\ ReviewInv => ApprovalsTypeOK
  BY DEF QueueInv, QueueTypeOK, ReviewInv, ReviewTypeOK, ApprovalsTypeOK
<1> QED  BY ReviewInvariant, <1>1, PTL

\* However many reviews of the same approvals race, one by one, in batches or
\* of the whole run, a tool is executed at most once and only when approved.
THEOREM ToolRunsOnce == ApprovalsSpec => []ExecutedOnce
<1>1. ReviewInv => ExecutedOnce  BY DEF ReviewInv
<1> QED  BY ReviewInvariant, <1>1, PTL

\* A run is failed only if its execution failed or an action it asked for was
\* rejected or failed, although four writers set its status by id.
THEOREM FailedHasCause == ApprovalsSpec => []FailedForCause
<1>1. ReviewInv => FailedForCause  BY DEF ReviewInv
<1> QED  BY ReviewInvariant, <1>1, PTL

-----------------------------------------------------------------------------
(* Decisions                                                               *)

\* How a step may move the status of an approval.
Stands(a) ==
    /\ appr[a].status \in {"rejected", "executed", "execution_failed"} =>
         appr'[a].status = appr[a].status
    /\ appr[a].status = "approved" =>
         appr'[a].status \in {"approved", "executed", "execution_failed"}

LEMMA ReviewStands ==
    ASSUME ReviewInv, NEW q \in Reviewers, Review(q) \/ RequestStep(q) \/ CutShort(q),
           NEW a \in Approvals
    PROVE  Stands(a)
<1>1. appr \in [Approvals -> Approval] /\ appr[a] \in Approval
  BY DEF ReviewInv, ReviewTypeOK
<1>2. CASE Review(q)
  BY <1>1, <1>2 DEF Review, approve_approval, reject_approval, batch_review_approvals,
                    approve_run, Claimable, Stands, Approval
<1>3. CASE NextApproval(q)  BY <1>1, <1>3 DEF NextApproval, Claimable, Stands, Approval
<1>4. CASE Finalize(q)
  <2>1. appr[req[q].at].status = "approved" /\ req[q].at \in Approvals
    BY <1>4 DEF Finalize, ReviewInv, ClaimsOK, Claimed
  <2>2. Finalized(req[q].at, q).status \in {"executed", "execution_failed"}
    <3>1. appr[req[q].at] \in Approval  BY <1>1, <2>1
    <3> QED  BY <3>1 DEF Finalized, Approval
  <2> QED  BY <1>1, <1>4, <2>1, <2>2 DEF Finalize, Stands
<1>5. CASE UNCHANGED appr  BY <1>5 DEF Stands
<1> QED
  BY <1>2, <1>3, <1>4, <1>5
     DEF RequestStep, LoopOver, execute_approved_tool, EndRun, ReconcileCount,
         ReconcileLook, ReconcileSum, ReconcileSettle, CutShort

LEMMA StepStands ==
    ASSUME QueueInv, ReviewInv, [ApprovalsNext]_approvalVars, NEW a \in Approvals
    PROVE  Stands(a)
<1>1. appr \in [Approvals -> Approval] /\ appr[a] \in Approval
  BY DEF ReviewInv, ReviewTypeOK
<1>2. CASE AgentStep \/ cancel_run
  BY <1>1, <1>2 DEF AgentStep, maybe_create_approval, AgentEnds, WriteRun, cancel_run,
                    Stands, Approval
<1>3. CASE \E q \in Reviewers : Review(q) \/ RequestStep(q) \/ CutShort(q)
  BY <1>3, ReviewStands
<1>4. ASSUME NEW h \in Hooks, Propagate(h) PROVE Stands(a)
  <2>1. appr'[a].status = appr[a].status  BY <1>1, <1>4 DEF Propagate, Approval
  <2> QED  BY <2>1 DEF Stands
<1>5. CASE UNCHANGED appr  BY <1>5 DEF Stands
<1> QED
  BY <1>2, <1>3, <1>4, <1>5
     DEF ApprovalsNext, PassStep, PassFault, HookStep, send_message, others, approvalVars

\* A decision is final, although the result is written by id alone.
THEOREM DecisionsFinal == ApprovalsSpec => DecisionStands
<1>1. QueueInv /\ ReviewInv /\ [ApprovalsNext]_approvalVars =>
        [\A a \in Approvals :
           /\ appr[a].status \in {"rejected", "executed", "execution_failed"} =>
                appr'[a].status = appr[a].status
           /\ appr[a].status = "approved" =>
                appr'[a].status \in {"approved", "executed", "execution_failed"}]_approvalVars
  BY StepStands DEF Stands
<1> QED  BY ReviewInvariant, <1>1, PTL DEF ApprovalsSpec, DecisionStands

-----------------------------------------------------------------------------
(* Deliveries                                                              *)

Arrived(m) == \E n \in Copy : <<m, n>> \in arrived

HooksTellTrue ==
    \A h \in Hooks : hook[h].pc # "idle" /\ hook[h].fate = "delivered" => Arrived(hook[h].msg)

DeliveryInv == HooksTellTrue /\ DeliveredArrived

LEMMA HooksStayTrue ==
    QueueInv /\ HooksTellTrue /\ QueueStep => HooksTellTrue' /\ arrived \subseteq arrived'
<1> SUFFICES ASSUME QueueInv, HooksTellTrue, QueueStep
             PROVE  HooksTellTrue' /\ arrived \subseteq arrived'
  OBVIOUS
<1>1. CASE UNCHANGED <<hook, arrived>>  BY <1>1 DEF HooksTellTrue, Arrived
<1>2. ASSUME NEW h \in Hooks, NEW m \in Messages, NEW n \in 1..MaxCopies,
             NEW fate \in {"sent", "delivered", "failed"}, Report(h, m, n, fate)
      PROVE  HooksTellTrue' /\ arrived \subseteq arrived'
  <2>1. arrived \subseteq arrived'  BY <1>2 DEF Report
  <2>2. fate = "delivered" => Arrived(m)'  BY <1>2 DEF Report, Arrived, Copy
  <2>3. \A g \in Hooks : \/ hook'[g] = hook[g]
                         \/ hook'[g] = [pc |-> "row", msg |-> m, fate |-> fate]
    BY <1>2 DEF Report, QueueInv, QueueTypeOK
  <2> QED  BY <2>1, <2>2, <2>3 DEF HooksTellTrue, Arrived
<1>3. ASSUME NEW h \in Hooks, HookRow(h) \/ HookOver(h)
      PROVE  HooksTellTrue' /\ arrived \subseteq arrived'
  <2>1. UNCHANGED arrived  BY <1>3 DEF HookRow, HookOver
  <2>2. \A g \in Hooks : hook'[g].pc # "idle" =>
           hook[g].pc # "idle" /\ hook'[g].msg = hook[g].msg /\ hook'[g].fate = hook[g].fate
    BY <1>3 DEF HookRow, HookOver, NoHandler, QueueInv, QueueTypeOK, Handler
  <2> QED  BY <2>1, <2>2 DEF HooksTellTrue, Arrived
<1>4. ASSUME NEW p \in Pollers, PollStep(p) PROVE UNCHANGED <<hook, arrived>>
  BY <1>4 DEF PollStep, ListQueued, ListFailed, List, Send, WriteRow, WriteLost, PassOver, Stop
<1> QED  BY <1>1, <1>2, <1>3, <1>4 DEF QueueStep, queueVars, InsertMessage, WebhookStep

LEMMA StepKeepsDelivery ==
    QueueInv /\ ReviewInv /\ DeliveryInv /\ [ApprovalsNext]_approvalVars => DeliveryInv'
<1> SUFFICES ASSUME QueueInv, ReviewInv, DeliveryInv, [ApprovalsNext]_approvalVars
             PROVE  DeliveryInv'
  OBVIOUS
<1>1. HooksTellTrue' /\ arrived \subseteq arrived'
  BY StepOnQueue, HooksStayTrue DEF DeliveryInv
<1> SUFFICES ASSUME NEW a \in Approvals, appr'[a].delivery = "delivered"
             PROVE  \E n \in Copy : <<appr'[a].link, n>> \in arrived'
  BY <1>1 DEF DeliveryInv, DeliveredArrived
<1>2. CASE appr[a].delivery = "delivered" /\ appr'[a].link = appr[a].link
  BY <1>1, <1>2 DEF DeliveryInv, DeliveredArrived
<1>3. appr \in [Approvals -> Approval]  BY DEF ReviewInv, ReviewTypeOK
<1>4. CASE AgentStep \/ cancel_run
  BY <1>2, <1>3, <1>4 DEF AgentStep, maybe_create_approval, AgentEnds, WriteRun, cancel_run,
                          Approval
<1>5. ASSUME NEW q \in Reviewers, Review(q) \/ RequestStep(q) \/ CutShort(q)
      PROVE  appr[a].delivery = "delivered" /\ appr'[a].link = appr[a].link
  <2>1. CASE Review(q)
    <3>1. \/ UNCHANGED appr
          \/ \E b \in Approvals, status \in {"approved", "rejected"} :
               appr' = [appr EXCEPT ![b].status = status]
      BY <2>1 DEF Review, approve_approval, reject_approval, batch_review_approvals,
                  approve_run
    <3> QED  BY <1>3, <3>1 DEF Approval
  <2>2. CASE NextApproval(q)  BY <1>3, <2>2 DEF NextApproval, Approval
  <2>3. CASE Finalize(q)
    <3>1. req[q].at \in Approvals  BY <2>3 DEF Finalize, ReviewInv, ClaimsOK, Claimed
    <3>2. CASE appr' = [appr EXCEPT ![req[q].at] = Finalized(req[q].at, q)] /\ a = req[q].at
      <4>1. Finalized(a, q).delivery = "delivered"  BY <1>3, <3>1, <3>2
      <4>2. appr[a] \in Approval  BY <1>3
      <4>3. ~(req[q].by = "one" /\ req[q].msg # Nil)  BY <3>2, <4>1, <4>2 DEF Finalized, Approval
      <4> QED  BY <1>3, <3>2, <4>2, <4>3 DEF Finalized, Approval
    <3>3. CASE appr'[a] = appr[a]  BY <3>3
    <3> QED  BY <1>3, <2>3, <3>1, <3>2, <3>3 DEF Finalize
  <2>4. CASE UNCHANGED appr  BY <2>4
  <2> QED
    BY <1>5, <2>1, <2>2, <2>3, <2>4
       DEF RequestStep, LoopOver, execute_approved_tool, EndRun, ReconcileCount,
           ReconcileLook, ReconcileSum, ReconcileSettle, CutShort
<1>6. ASSUME NEW h \in Hooks, Propagate(h)
      PROVE  \E n \in Copy : <<appr'[a].link, n>> \in arrived'
  <2>1. CASE appr'[a] = appr[a]  BY <1>2, <2>1
  <2>2. CASE appr'[a] # appr[a]
    <3>0. appr' = [b \in Approvals |-> IF Linked(b, h)
                                       THEN [appr[b] EXCEPT !.delivery = hook[h].fate]
                                       ELSE appr[b]]
      BY <1>6, <2>2 DEF Propagate
    <3>1. /\ appr[a].link = hook[h].msg
          /\ appr'[a] = [appr[a] EXCEPT !.delivery = hook[h].fate]
      BY <2>2, <3>0 DEF Linked
    <3>2. appr'[a].link = hook[h].msg /\ hook[h].fate = "delivered"
      BY <1>3, <3>1 DEF Approval
    <3>3. Arrived(hook[h].msg)
      BY <1>6, <3>2 DEF Propagate, HookOver, DeliveryInv, HooksTellTrue
    <3> QED  BY <1>1, <3>2, <3>3 DEF Arrived
  <2> QED  BY <2>1, <2>2
<1>7. CASE UNCHANGED appr  BY <1>2, <1>7
<1> QED
  BY <1>2, <1>4, <1>5, <1>6, <1>7
     DEF ApprovalsNext, PassStep, PassFault, HookStep, send_message, others, approvalVars

\* An approval shown as delivered is linked to a message of which a copy
\* arrived, in whatever order reports, writes and reviews come.
THEOREM DeliveredDid == ApprovalsSpec => []DeliveredArrived
<1>1. ApprovalsInit => DeliveryInv
  BY DEF ApprovalsInit, DeliveryInv, HooksTellTrue, DeliveredArrived, NoHandler
<1>2. DeliveryInv => DeliveredArrived  BY DEF DeliveryInv
<1> QED  BY ReviewInvariant, StepKeepsDelivery, <1>1, <1>2, PTL DEF ApprovalsSpec

-----------------------------------------------------------------------------
(* Links                                                                   *)

\* A linked approval was executed, waits for word of its message or had some,
\* and shares the message with no other.
LinkOK(a) ==
    /\ appr[a].link = Nil => appr[a].delivery = "none"
    /\ appr[a].link # Nil =>
         /\ appr[a].status = "executed" /\ appr[a].delivery # "none"
         /\ log[appr[a].link].status # "absent"
         /\ \A b \in Approvals : appr[b].link = appr[a].link => a = b

\* The message a request has just queued is no other's.
MessageOK(q) ==
    req[q].msg # Nil =>
      /\ req[q].pc = "finalize" /\ req[q].ok
      /\ log[req[q].msg].status # "absent"
      /\ \A a \in Approvals : appr[a].link # req[q].msg
      /\ \A r \in Reviewers : req[r].msg = req[q].msg => q = r

LinksOK == (\A a \in Approvals : LinkOK(a)) /\ (\A q \in Reviewers : MessageOK(q))

LEMMA InitLinksOK == ApprovalsInit => LinksOK
  BY DEF ApprovalsInit, LinksOK, LinkOK, MessageOK, NoRequest

\* Rows of message_logs stay.
LEMMA LogStays ==
    ASSUME QueueInv, QueueStep, NEW m \in Messages, log[m].status # "absent"
    PROVE  log'[m].status # "absent"
<1>1. ASSUME NEW k \in Messages, InsertMessage(k) PROVE log'[m] = log[m]
  BY <1>1 DEF InsertMessage, QueueInv, QueueTypeOK
<1>2. ASSUME NEW p \in Pollers, WriteRow(p) PROVE log'[m].status # "absent"
  <2> DEFINE j == poll[p].job
  <2>1. j \in Job /\ j.msg \in Messages  BY <1>2 DEF WriteRow, QueueInv, PassesOK, Job
  <2>2. Patched(j, poll[p].ok, poll[p].copy).status \in {"sent", "failed"}
    BY <2>1 DEF Patched, QueueInv, QueueTypeOK, Log
  <2>3. log' = [log EXCEPT ![j.msg] = Patched(j, poll[p].ok, poll[p].copy)]  BY <1>2 DEF WriteRow
  <2> HIDE DEF j
  <2> QED  BY <2>1, <2>2, <2>3 DEF QueueInv, QueueTypeOK
<1>3. ASSUME NEW h \in Hooks, HookRow(h) PROVE log'[m].status # "absent"
  <2>1. hook[h].msg \in Messages /\ hook[h].fate # "absent"
    BY <1>3 DEF HookRow, QueueInv, HooksOK, QueueTypeOK, Handler
  <2> QED  BY <1>3, <2>1 DEF HookRow, QueueInv, QueueTypeOK, Log
<1>4. CASE UNCHANGED log  BY <1>4
<1> QED
  BY <1>1, <1>2, <1>3, <1>4
     DEF QueueStep, queueVars, PollStep, ListQueued, ListFailed, List, Send, WriteLost,
         PassOver, Stop, WebhookStep, Report, HookOver

\* A step that links nothing and queues nothing.
LEMMA UnlinkedKeepsLinks ==
    ASSUME QueueInv, QueueStep, ReviewInv, LinksOK,
           \A a \in Approvals :
              /\ appr'[a].link = appr[a].link
              /\ appr'[a].delivery = "none" <=> appr[a].delivery = "none"
              /\ appr[a].status = "executed" => appr'[a].status = "executed",
           \A q \in Reviewers : req'[q].msg = Nil \/ req'[q] = req[q]
    PROVE  LinksOK'
<1>1. ASSUME NEW a \in Approvals PROVE LinkOK(a)'
  <2>1. appr[a].link \in Messages \cup {Nil}  BY DEF ReviewInv, ReviewTypeOK, Approval
  <2> QED  BY <2>1, LogStays DEF LinksOK, LinkOK
<1>2. ASSUME NEW q \in Reviewers PROVE MessageOK(q)'
  <2>1. req[q].msg \in Messages \cup {Nil}  BY DEF ReviewInv, ReviewTypeOK, Request
  <2> QED  BY <2>1, LogStays DEF LinksOK, MessageOK
<1> QED  BY <1>1, <1>2 DEF LinksOK

LEMMA ExecuteKeepsLinks ==
    ASSUME QueueInv, QueueStep, ReviewInv, LinksOK,
           NEW q \in Reviewers, execute_approved_tool(q)
    PROVE  LinksOK'
<1>1. PICK ok \in BOOLEAN, m \in Messages \cup {Nil} :
        /\ req' = [req EXCEPT ![q].pc = "finalize", ![q].ok = ok, ![q].msg = m]
        /\ IF m = Nil THEN UNCHANGED queueVars ELSE ok /\ InsertMessage(m)
  BY DEF execute_approved_tool
<1>2. /\ req'[q].pc = "finalize" /\ req'[q].ok = ok /\ req'[q].msg = m
      /\ \A r \in Reviewers \ {q} : req'[r] = req[r]
  BY <1>1 DEF ReviewInv, ReviewTypeOK, Request
<1>3. UNCHANGED appr  BY DEF execute_approved_tool
<1>4. CASE m = Nil  BY <1>2, <1>3, <1>4, UnlinkedKeepsLinks
<1>5. CASE m # Nil
  <2>1. m \in Messages /\ ok /\ log[m].status = "absent" /\ log'[m].status = "queued"
    BY <1>1, <1>5 DEF InsertMessage, QueueInv, QueueTypeOK
  <2>2. \A a \in Approvals : appr[a].link # m
    BY <1>5, <2>1 DEF LinksOK, LinkOK
  <2>3. \A r \in Reviewers : req[r].msg # m  BY <1>5, <2>1 DEF LinksOK, MessageOK
  <2>4. ASSUME NEW a \in Approvals PROVE LinkOK(a)'
    <3>1. appr[a].link \in Messages \cup {Nil}  BY DEF ReviewInv, ReviewTypeOK, Approval
    <3> QED  BY <1>3, <3>1, LogStays DEF LinksOK, LinkOK
  <2>5. ASSUME NEW r \in Reviewers PROVE MessageOK(r)'
    <3>1. req[r].msg \in Messages \cup {Nil}  BY DEF ReviewInv, ReviewTypeOK, Request
    <3>2. CASE r = q  BY <3>2, <1>2, <1>3, <2>1, <2>2, <2>3 DEF MessageOK
    <3>3. CASE r # q  BY <3>1, <3>3, <1>2, <1>3, <2>3, LogStays DEF LinksOK, MessageOK
    <3> QED  BY <3>2, <3>3
  <2> QED  BY <2>4, <2>5 DEF LinksOK
<1> QED  BY <1>4, <1>5

LEMMA FinalizeKeepsLinks ==
    ASSUME QueueInv, QueueStep, ReviewInv, LinksOK, NEW q \in Reviewers, Finalize(q)
    PROVE  LinksOK'
<1> DEFINE a == req[q].at
<1>1. /\ a \in Approvals /\ appr[a] \in Approval /\ appr[a].status = "approved"
      /\ req[q] \in Request
  BY DEF Finalize, ReviewInv, ReviewTypeOK, ClaimsOK, Claimed
<1>2. appr[a].link = Nil /\ appr[a].delivery = "none"  BY <1>1 DEF LinksOK, LinkOK
<1>3. req'[q].msg = Nil /\ \A r \in Reviewers \ {q} : req'[r] = req[r]
  <2>1. req' = [req EXCEPT ![q] = Released(q)]  BY DEF Finalize, Released
  <2>2. Released(q).msg = Nil  BY <1>1 DEF Released, Request
  <2> QED  BY <2>1, <2>2 DEF ReviewInv, ReviewTypeOK
<1>4. CASE UNCHANGED appr  BY <1>3, <1>4, UnlinkedKeepsLinks
<1>5. CASE appr' = [appr EXCEPT ![a] = Finalized(a, q)]
  <2>1. appr'[a] = Finalized(a, q) /\ \A b \in Approvals \ {a} : appr'[b] = appr[b]
    BY <1>1, <1>5 DEF ReviewInv, ReviewTypeOK
  <2>2. CASE req[q].by = "one" /\ req[q].msg # Nil
    <3>1. /\ appr'[a].status = "executed" /\ appr'[a].delivery = "pending"
          /\ appr'[a].link = req[q].msg
      BY <1>1, <2>1, <2>2 DEF Finalized, Approval, LinksOK, MessageOK
    <3>2. req[q].msg \in Messages /\ log'[req[q].msg].status # "absent"
      BY <1>1, <2>2, LogStays DEF Request, LinksOK, MessageOK
    <3>3. \A b \in Approvals : appr[b].link # req[q].msg
      BY <2>2 DEF LinksOK, MessageOK
    <3>4. \A r \in Reviewers \ {q} : req[r].msg # req[q].msg
      BY <2>2 DEF LinksOK, MessageOK
    <3>5. ASSUME NEW b \in Approvals PROVE LinkOK(b)'
      <4>1. CASE b = a  BY <4>1, <2>1, <2>2, <3>1, <3>2, <3>3 DEF LinkOK
      <4>2. CASE b # a
        <5>1. appr[b].link \in Messages \cup {Nil}  BY DEF ReviewInv, ReviewTypeOK, Approval
        <5> QED  BY <4>2, <5>1, <2>1, <3>1, <3>3, LogStays DEF LinksOK, LinkOK
      <4> QED  BY <4>1, <4>2
    <3>6. ASSUME NEW r \in Reviewers PROVE MessageOK(r)'
      <4>1. CASE r = q  BY <4>1, <1>3 DEF MessageOK
      <4>2. CASE r # q
        <5>1. req[r].msg \in Messages \cup {Nil}  BY DEF ReviewInv, ReviewTypeOK, Request
        <5> QED  BY <4>2, <5>1, <1>3, <2>1, <3>1, <3>4, LogStays DEF LinksOK, MessageOK
      <4> QED  BY <4>1, <4>2
    <3> QED  BY <3>5, <3>6 DEF LinksOK
  <2>3. CASE ~(req[q].by = "one" /\ req[q].msg # Nil)
    <3>1. appr'[a].link = appr[a].link /\ appr'[a].delivery = appr[a].delivery
      BY <1>1, <2>1, <2>3 DEF Finalized, Approval
    <3> QED  BY <1>1, <1>3, <2>1, <3>1, UnlinkedKeepsLinks
  <2> QED  BY <2>2, <2>3
<1> QED  BY <1>4, <1>5 DEF Finalize

LEMMA StepKeepsLinks ==
    QueueInv /\ ReviewInv /\ LinksOK /\ [ApprovalsNext]_approvalVars => LinksOK'
<1> SUFFICES ASSUME QueueInv, ReviewInv, LinksOK, [ApprovalsNext]_approvalVars
             PROVE  LinksOK'
  OBVIOUS
<1>0. QueueStep  BY StepOnQueue
<1>1. appr \in [Approvals -> Approval] /\ req \in [Reviewers -> Request]
  BY DEF ReviewInv, ReviewTypeOK
<1>2. CASE AgentStep \/ cancel_run
  <2>1. UNCHANGED req
    BY <1>2 DEF AgentStep, maybe_create_approval, AgentEnds, WriteRun, cancel_run
  <2>2. \A a \in Approvals :
           /\ appr'[a].link = appr[a].link /\ appr'[a].delivery = appr[a].delivery
           /\ appr[a].status = "executed" => appr'[a].status = "executed"
    BY <1>1, <1>2 DEF AgentStep, maybe_create_approval, AgentEnds, WriteRun, cancel_run,
                      Approval
  <2> QED  BY <1>0, <2>1, <2>2, UnlinkedKeepsLinks
<1>3. ASSUME NEW q \in Reviewers, Review(q) \/ RequestStep(q) \/ CutShort(q) PROVE LinksOK'
  <2>1. CASE execute_approved_tool(q)  BY <1>0, <2>1, ExecuteKeepsLinks
  <2>2. CASE Finalize(q)  BY <1>0, <2>2, FinalizeKeepsLinks
  <2>3. CASE ~execute_approved_tool(q) /\ ~Finalize(q)
    <3>1. req[q].pc # "finalize" => req[q].msg = Nil  BY DEF LinksOK, MessageOK
    <3>2. \A r \in Reviewers \ {q} : req'[r] = req[r]
      BY <1>1, <1>3, <2>3 DEF Review, approve_approval, reject_approval,
             batch_review_approvals, approve_run, RequestStep, NextApproval, LoopOver,
             EndRun, ReconcileCount, ReconcileLook, ReconcileSum, ReconcileSettle, CutShort,
             Goto
    <3>3. req'[q].msg = Nil
      <4>1. CASE Review(q)
        <5>1. ASSUME NEW a \in Approvals, approve_approval(q, a) \/ reject_approval(q, a)
              PROVE  req'[q].msg = Nil
          BY <1>1, <5>1 DEF approve_approval, reject_approval, NoRequest
        <5>2. ASSUME NEW ids, NEW by, batch_review_approvals(q, ids, by)
              PROVE  req'[q].msg = Nil
          BY <1>1, <5>2 DEF batch_review_approvals, NoRequest
        <5>3. CASE approve_run(q)  BY <1>1, <5>3 DEF approve_run, NoRequest
        <5> QED  BY <4>1, <5>1, <5>2, <5>3 DEF Review
      <4>2. CASE NextApproval(q)  BY <1>1, <3>1, <4>2 DEF NextApproval, Request
      <4>3. CASE LoopOver(q) \/ EndRun(q) \/ ReconcileCount(q) \/ ReconcileLook(q)
                   \/ ReconcileSum(q) \/ ReconcileSettle(q)
        <5>1. req[q] \in Request /\ req[q].msg = Nil
          BY <1>1, <3>1, <4>3 DEF LoopOver, EndRun, ReconcileCount, ReconcileLook,
                                  ReconcileSum, ReconcileSettle
        <5>2. ASSUME NEW pc, Goto(q, pc) PROVE req'[q].msg = Nil
          BY <1>1, <5>1, <5>2 DEF Goto, NoRequest, Request
        <5>3. CASE ReconcileSum(q)
          BY <1>1, <5>1, <5>3 DEF ReconcileSum, NoRequest, Request
        <5> QED
          BY <4>3, <5>2, <5>3
             DEF LoopOver, EndRun, ReconcileCount, ReconcileLook, ReconcileSettle
      <4>4. CASE CutShort(q)  BY <1>1, <4>4 DEF CutShort, Goto, NoRequest
      <4> QED  BY <1>3, <2>3, <4>1, <4>2, <4>3, <4>4 DEF RequestStep
    <3>4. \A a \in Approvals : appr'[a] = appr[a] \/ \E s \in {"approved", "rejected"} :
             /\ appr[a].status = "pending" /\ appr'[a] = [appr[a] EXCEPT !.status = s]
      BY <1>1, <1>3, <2>3 DEF Review, approve_approval, reject_approval,
             batch_review_approvals, approve_run, Claimable, RequestStep, NextApproval,
             LoopOver, EndRun, ReconcileCount, ReconcileLook, ReconcileSum, ReconcileSettle,
             CutShort
    <3>5. ASSUME NEW a \in Approvals
          PROVE  /\ appr'[a].link = appr[a].link /\ appr'[a].delivery = appr[a].delivery
                 /\ appr[a].status = "executed" => appr'[a].status = "executed"
      <4>1. appr[a] \in Approval  BY <1>1
      <4>2. CASE appr'[a] = appr[a]  BY <4>2
      <4>3. ASSUME NEW s \in {"approved", "rejected"}, appr[a].status = "pending",
                   appr'[a] = [appr[a] EXCEPT !.status = s]
            PROVE  /\ appr'[a].link = appr[a].link /\ appr'[a].delivery = appr[a].delivery
                   /\ appr[a].status # "executed"
        BY <4>1, <4>3 DEF Approval
      <4> QED  BY <3>4, <4>2, <4>3
    <3> QED  BY <1>0, <3>2, <3>3, <3>5, UnlinkedKeepsLinks
  <2> QED  BY <2>1, <2>2, <2>3
<1>4. ASSUME NEW h \in Hooks, Propagate(h) PROVE LinksOK'
  <2>1. hook[h].msg \in Messages /\ hook[h].fate # "none"
    BY <1>4 DEF Propagate, HookOver, QueueInv, HooksOK, QueueTypeOK, Handler
  <2>2. \A a \in Approvals :
           /\ appr'[a].link = appr[a].link /\ appr'[a].status = appr[a].status
           /\ appr'[a].delivery = "none" <=> appr[a].delivery = "none"
    BY <1>1, <1>4, <2>1 DEF Propagate, Linked, LinksOK, LinkOK, Approval
  <2> QED  BY <1>0, <1>4, <2>2, UnlinkedKeepsLinks DEF Propagate
<1>5. CASE UNCHANGED <<appr, req>>  BY <1>0, <1>5, UnlinkedKeepsLinks
<1> QED
  BY <1>2, <1>3, <1>4, <1>5
     DEF ApprovalsNext, PassStep, PassFault, HookStep, send_message, others, approvalVars

\* However reviews, reports and repetitions race, a message is the delivery of
\* one approval at most, which was executed (delivery_message_log_id).
THEOREM LinksInvariant == ApprovalsSpec => [](QueueInv /\ ReviewInv /\ LinksOK)
<1> QED  BY ReviewInvariant, InitLinksOK, StepKeepsLinks, PTL DEF ApprovalsSpec

-----------------------------------------------------------------------------
(* The lifecycle                                                           *)

Stages == [a \in Approvals |-> Stage(a)]

LEMMA InitLifecycle == ApprovalsInit => Lifecycle!LifecycleInit
  BY DEF ApprovalsInit, Lifecycle!LifecycleInit, Stage

\* One approval moves, the others stay.
LEMMA StageMoves ==
    ASSUME NEW a \in Approvals, NEW from, NEW to, Stage(a) = from, Stage(a)' = to,
           \A b \in Approvals \ {a} : Stage(b)' = Stage(b)
    PROVE  Lifecycle!Move(a, from, to)
<1>1. Stages[a] = from  BY DEF Stages
<1>2. Stages' = [Stages EXCEPT ![a] = to]  BY DEF Stages
<1> QED  BY <1>1, <1>2 DEF Lifecycle!Move, Stages

LEMMA SameDeliveries ==
    ASSUME \A a \in Approvals : appr'[a].delivery = appr[a].delivery
    PROVE  UNCHANGED [a \in Approvals |-> appr[a].delivery]
  OBVIOUS

\* The claim of a pending approval, or its rejection.
LEMMA ClaimDecides ==
    ASSUME ReviewInv, NEW a \in Approvals, Claimable(a), UNCHANGED ran,
           NEW s \in {"approved", "rejected"}, appr' = [appr EXCEPT ![a].status = s]
    PROVE  Lifecycle!LifecycleNext
<1>1. appr[a].status = "pending" /\ ran[a] = 0
  BY DEF Claimable, ReviewInv, ExecutedOnce
<1>2. /\ appr'[a].status = s /\ appr'[a].delivery = appr[a].delivery
      /\ \A b \in Approvals \ {a} : appr'[b] = appr[b]
  BY DEF ReviewInv, ReviewTypeOK, Approval
<1>3. Stage(a) = "pending" /\ Stage(a)' = s  BY <1>1, <1>2 DEF Stage
<1>4. \A b \in Approvals \ {a} : Stage(b)' = Stage(b)  BY <1>2 DEF Stage
<1>5. Lifecycle!Move(a, "pending", s)  BY <1>3, <1>4, StageMoves
<1>6. UNCHANGED [b \in Approvals |-> appr[b].delivery]  BY <1>2, SameDeliveries
<1> QED  BY <1>5, <1>6 DEF Lifecycle!LifecycleNext, Lifecycle!Decide

LEMMA ExecuteActs ==
    ASSUME ReviewInv, NEW q \in Reviewers, execute_approved_tool(q)
    PROVE  Lifecycle!LifecycleNext
<1>1. PICK a \in Approvals : a = req[q].at /\ appr[a].status = "approved" /\ ran[a] = 0
  BY DEF execute_approved_tool, ReviewInv, ClaimsOK, Claimed
<1>2. UNCHANGED appr /\ ran' = [ran EXCEPT ![a] = 1]  BY <1>1 DEF execute_approved_tool
<1>3. ran'[a] = 1 /\ \A b \in Approvals \ {a} : ran'[b] = ran[b]
  BY <1>1, <1>2 DEF ReviewInv, ReviewTypeOK
<1>4. Stage(a) = "approved" /\ Stage(a)' = "acted"  BY <1>1, <1>2, <1>3 DEF Stage
<1>5. \A b \in Approvals \ {a} : Stage(b)' = Stage(b)  BY <1>2, <1>3 DEF Stage
<1>6. Lifecycle!Move(a, "approved", "acted")  BY <1>1, <1>4, <1>5, StageMoves
<1>7. UNCHANGED [b \in Approvals |-> appr[b].delivery]  BY <1>2
<1> QED  BY <1>1, <1>6, <1>7 DEF Lifecycle!LifecycleNext, Lifecycle!Act

LEMMA FinalizeRecords ==
    ASSUME ReviewInv, LinksOK, NEW q \in Reviewers, Finalize(q), appr' # appr
    PROVE  Lifecycle!LifecycleNext
<1>1. PICK a \in Approvals :
        /\ a = req[q].at /\ appr[a] \in Approval /\ appr[a].status = "approved"
        /\ ran[a] = 1 /\ UNCHANGED ran
  BY DEF Finalize, ReviewInv, ReviewTypeOK, ClaimsOK, Claimed
<1>2. appr' = [appr EXCEPT ![a] = Finalized(a, q)]  BY <1>1 DEF Finalize
<1>3. appr'[a] = Finalized(a, q) /\ \A b \in Approvals \ {a} : appr'[b] = appr[b]
  BY <1>1, <1>2 DEF ReviewInv, ReviewTypeOK
<1>4. /\ appr'[a].status = IF req[q].ok THEN "executed" ELSE "execution_failed"
      /\ appr'[a].delivery = IF req[q].by = "one" /\ req[q].msg # Nil THEN "pending"
                             ELSE appr[a].delivery
  BY <1>1, <1>3 DEF Finalized, Approval
<1>5. Stage(a) = "acted" /\ Stage(a)' = appr'[a].status  BY <1>1, <1>4 DEF Stage
<1>6. \A b \in Approvals \ {a} : Stage(b)' = Stage(b)  BY <1>1, <1>3 DEF Stage
<1>7. req[q].msg # Nil => req[q].ok  BY DEF LinksOK, MessageOK
<1>8. Lifecycle!Move(a, "acted", appr'[a].status)  BY <1>1, <1>5, <1>6, StageMoves
<1>9. CASE req[q].by = "one" /\ req[q].msg # Nil
  <2>1. appr'[a].status = "executed" /\ appr'[a].delivery = "pending"  BY <1>4, <1>7, <1>9
  <2>2. [b \in Approvals |-> appr[b].delivery]' =
          [[b \in Approvals |-> appr[b].delivery] EXCEPT ![a] = "pending"]
    BY <1>3, <2>1
  <2> QED  BY <1>1, <1>8, <2>1, <2>2 DEF Lifecycle!LifecycleNext, Lifecycle!Record
<1>10. CASE ~(req[q].by = "one" /\ req[q].msg # Nil)
  <2>1. UNCHANGED [b \in Approvals |-> appr[b].delivery]
    BY <1>3, <1>4, <1>10, SameDeliveries
  <2>2. appr'[a].status \in {"executed", "execution_failed"}  BY <1>4
  <2> QED  BY <1>1, <1>8, <2>1, <2>2 DEF Lifecycle!LifecycleNext, Lifecycle!Record
<1> QED  BY <1>9, <1>10

LEMMA PropagateTells ==
    ASSUME QueueInv, ReviewInv, LinksOK, NEW h \in Hooks, Propagate(h), appr' # appr
    PROVE  Lifecycle!LifecycleNext
<1>1. hook[h].msg \in Messages /\ hook[h].fate \in {"sent", "delivered", "failed"}
  BY DEF Propagate, HookOver, QueueInv, HooksOK, QueueTypeOK, Handler
<1>2. /\ appr' = [b \in Approvals |-> IF Linked(b, h)
                                      THEN [appr[b] EXCEPT !.delivery = hook[h].fate]
                                      ELSE appr[b]]
      /\ UNCHANGED ran /\ appr \in [Approvals -> Approval]
  BY DEF Propagate, ReviewInv, ReviewTypeOK
<1>3. PICK a \in Approvals : Linked(a, h)  BY <1>2
<1>4. appr[a].status = "executed" /\ appr[a].delivery # "none"
  BY <1>1, <1>3 DEF Linked, LinksOK, LinkOK
<1>5. \A b \in Approvals \ {a} : appr'[b] = appr[b]
  BY <1>1, <1>2, <1>3 DEF Linked, LinksOK, LinkOK
<1>6. appr'[a].status = appr[a].status /\ appr'[a].delivery = hook[h].fate
  BY <1>2, <1>3 DEF Approval
<1>7. Stage(a) = "executed"  BY <1>4 DEF Stage
<1>8. UNCHANGED [b \in Approvals |-> Stage(b)]
  <2>1. \A b \in Approvals : appr'[b].status = appr[b].status  BY <1>5, <1>6
  <2> QED  BY <1>2, <2>1 DEF Stage
<1>9. [b \in Approvals |-> appr[b].delivery]' =
        [[b \in Approvals |-> appr[b].delivery] EXCEPT ![a] = hook[h].fate]
  BY <1>5, <1>6
<1> QED  BY <1>1, <1>4, <1>7, <1>8, <1>9 DEF Lifecycle!LifecycleNext, Lifecycle!Tell

LEMMA StepOnLifecycle ==
    QueueInv /\ ReviewInv /\ LinksOK /\ [ApprovalsNext]_approvalVars =>
        [Lifecycle!LifecycleNext]_<<[a \in Approvals |-> Stage(a)],
                                    [a \in Approvals |-> appr[a].delivery]>>
<1> SUFFICES ASSUME QueueInv, ReviewInv, LinksOK, [ApprovalsNext]_approvalVars,
                    ~(UNCHANGED <<appr, ran>>)
             PROVE  Lifecycle!LifecycleNext
  BY DEF Stage
<1>1. CASE AgentStep \/ cancel_run
  <2>1. PICK a \in Approvals : maybe_create_approval(a)
    BY <1>1 DEF AgentStep, AgentEnds, WriteRun, cancel_run
  <2>2. /\ appr[a].status = "absent" /\ appr'[a].status = "pending"
        /\ appr'[a].delivery = appr[a].delivery
        /\ \A b \in Approvals \ {a} : appr'[b] = appr[b]
        /\ UNCHANGED ran
    BY <2>1 DEF maybe_create_approval, ReviewInv, ReviewTypeOK, Approval
  <2>3. Stage(a) = "absent" /\ Stage(a)' = "pending"  BY <2>2 DEF Stage
  <2>4. \A b \in Approvals \ {a} : Stage(b)' = Stage(b)  BY <2>2 DEF Stage
  <2>5. Lifecycle!Move(a, "absent", "pending")  BY <2>3, <2>4, StageMoves
  <2>6. UNCHANGED [b \in Approvals |-> appr[b].delivery]  BY <2>2, SameDeliveries
  <2> QED  BY <2>5, <2>6 DEF Lifecycle!LifecycleNext, Lifecycle!File
<1>2. ASSUME NEW q \in Reviewers, Review(q) \/ RequestStep(q) \/ CutShort(q)
      PROVE  Lifecycle!LifecycleNext
  <2>1. CASE execute_approved_tool(q)  BY <2>1, ExecuteActs
  <2>2. CASE Finalize(q)
    <3>1. appr' # appr  BY <2>2 DEF Finalize
    <3> QED  BY <2>2, <3>1, FinalizeRecords
  <2>3. CASE ~execute_approved_tool(q) /\ ~Finalize(q)
    <3>1. /\ UNCHANGED ran
          /\ \E a \in Approvals, s \in {"approved", "rejected"} :
               Claimable(a) /\ appr' = [appr EXCEPT ![a].status = s]
      <4>1. CASE Review(q)
        BY <4>1 DEF Review, approve_approval, reject_approval, batch_review_approvals,
                    approve_run
      <4>2. CASE NextApproval(q)
        BY <4>2 DEF NextApproval, ReviewInv, ReviewTypeOK, Request
      <4> QED
        BY <1>2, <2>3, <4>1, <4>2
           DEF RequestStep, LoopOver, EndRun, ReconcileCount, ReconcileLook, ReconcileSum,
               ReconcileSettle, CutShort
    <3> QED  BY <3>1, ClaimDecides
  <2> QED  BY <2>1, <2>2, <2>3
<1>3. ASSUME NEW h \in Hooks, Propagate(h) PROVE Lifecycle!LifecycleNext
  <2>1. appr' # appr  BY <1>3 DEF Propagate
  <2> QED  BY <1>3, <2>1, PropagateTells
<1> QED
  BY <1>1, <1>2, <1>3
     DEF ApprovalsNext, PassStep, PassFault, HookStep, send_message, others, approvalVars

\* The reviews implement ApprovalLifecycle: whoever reviews, in whatever order
\* claims, results and reports come and wherever a request is cut short, a
\* call is decided once, acted upon once, recorded once, and told of its own
\* message only.
THEOREM ReviewsKeepLifecycle == ApprovalsSpec => KeepsReview
<1> QED
  BY InitLifecycle, LinksInvariant, StepOnLifecycle, PTL
     DEF ApprovalsSpec, KeepsReview, Lifecycle!LifecycleSpec
=============================================================================
