----------------------------- MODULE MessageQueue -----------------------------
(***************************************************************************)
(* The outbound messages: table message_logs, the passes of                *)
(* process_queued_messages (services/messaging.rs) that the scheduler and  *)
(* the internal endpoint start, whether or not an earlier pass is over,    *)
(* and the WhatsApp webhook of routes/messaging.rs.  No pass claims a      *)
(* message: it sends what it listed and writes the row by id.              *)
(*                                                                         *)
(* A message is numbered by its created_at; a row may become visible after *)
(* a younger one.                                                          *)
(*                                                                         *)
(* The provider is modelled from how the code uses it: it takes a copy of  *)
(* a message or not, answers with the copy's id or not, and reports the    *)
(* copy's fate as it pleases.  Copies of a message are numbered.           *)
(***************************************************************************)
EXTENDS Naturals, FiniteSets

CONSTANTS
    Messages,       \* the rows that can still be inserted (bound)
    Unaddressed,    \* those of them whose recipient is empty
    QueuedLimit,    \* queued messages a pass lists (100)
    FailedLimit,    \* failed messages a pass lists (50)
    Pollers,        \* passes that may run at once
    Hooks,          \* webhook requests that may run at once
    MaxCopies,      \* copies of one message the provider still takes (bound)
    Nil

ASSUME QueueAssumption ==
    /\ Messages \subseteq Nat /\ Nil \notin Messages
    /\ Unaddressed \subseteq Messages
    /\ {MaxCopies, QueuedLimit, FailedLimit} \subseteq Nat

VARIABLES
    log,        \* [Messages -> Log]: message_logs
    poll,       \* [Pollers -> Pass]: locals of each pass
    hook,       \* [Hooks -> Handler]: locals of each webhook request
    copies,     \* provider: [Messages -> the copies it took]
    arrived,    \* provider: the copies <<message, number>> that arrived
    excused     \* history: messages for which a repetition has a reason

queueVars == <<log, poll, hook, copies, arrived, excused>>

Copy == 0..MaxCopies        \* 0: none

Log == [status : {"absent", "queued", "sent", "delivered", "failed"},
        tries  : 0..3,      \* retry_count
        copy   : Copy]      \* the id in provider_response

Job == [msg : Messages, tries : 0..2, was : {"queued", "failed"}]

Pass == [pc   : {"idle", "list", "send", "write"},
         todo : SUBSET Job,         \* listed and not yet sent
         job  : Job \cup {Nil},     \* the one being sent
         ok   : BOOLEAN,            \* what the provider answered
         copy : Copy]               \* and the id in its answer

Handler == [pc  : {"idle", "row", "approval"},
            msg : Messages \cup {Nil},
            fate : {"sent", "delivered", "failed"}]

NoPass == [pc |-> "idle", todo |-> {}, job |-> Nil, ok |-> FALSE, copy |-> 0]

NoHandler == [pc |-> "idle", msg |-> Nil, fate |-> "sent"]

Waiting(p, m) == \E j \in poll[p].todo : j.msg = m

Sending(p, m) == poll[p].pc = "write" /\ poll[p].job.msg = m

\* create_row: a queued message.
InsertMessage(m) ==
    /\ log[m].status = "absent"
    /\ log' = [log EXCEPT ![m] = [status |-> "queued", tries |-> 0, copy |-> 0]]
    /\ UNCHANGED <<poll, hook, copies, arrived, excused>>

-----------------------------------------------------------------------------
(* process_queued_messages                                                 *)

\* ORDER BY created_at LIMIT n
Oldest(ms, n) == {m \in ms : Cardinality({k \in ms : k < m}) < n}

\* The messages listed that another pass has in hand too.
Overlapping(p, ms) ==
    {m \in ms : \E other \in Pollers \ {p} : Waiting(other, m) \/ Sending(other, m)}

\* A row without a recipient is passed over, and stays as it is.
List(p, next, status, rows) ==
    LET ms == rows \ Unaddressed
    IN /\ poll' = [poll EXCEPT ![p].pc = next, ![p].todo = @ \cup
                     {[msg |-> m, tries |-> log[m].tries, was |-> status] : m \in ms}]
       /\ excused' = excused \cup Overlapping(p, ms)
       /\ UNCHANGED <<log, hook, copies, arrived>>

InStatus(status) == {m \in Messages : log[m].status = status}

ListQueued(p) ==
    /\ poll[p].pc = "idle"
    /\ List(p, "list", "queued", Oldest(InStatus("queued"), QueuedLimit))

\* Mutant: messages are retried for ever.
RetryableAlways(m) == log[m].status = "failed"

Retryable(m) == log[m].status = "failed" /\ log[m].tries < 3

\* The limit counts messages that are not retried any more, too.  When this
\* listing fails, the pass goes on with the queued ones.
ListFailed(p) ==
    /\ poll[p].pc = "list"
    /\ \E ms \in {{}, {m \in Oldest(InStatus("failed"), FailedLimit) : Retryable(m)}} :
         List(p, "send", "failed", ms)

\* Queued messages first.  The provider takes a copy or not; either way its
\* answer may be lost, which is an error to the pass.  An answer without an id
\* in it, or none that can be parsed, says as much as that it took the copy.
Send(p) ==
    /\ poll[p].pc = "send"
    /\ \E j \in poll[p].todo :
         LET m == j.msg
             Answer(ok, n) == poll' = [poll EXCEPT ![p] =
                 [pc |-> "write", todo |-> poll[p].todo \ {j}, job |-> j, ok |-> ok, copy |-> n]]
         IN /\ j.was = "queued" \/ \A k \in poll[p].todo : k.was = "failed"
            /\ \/ /\ Answer(FALSE, 0)
                  /\ UNCHANGED <<copies, excused>>
               \/ /\ copies[m] < MaxCopies
                  /\ copies' = [copies EXCEPT ![m] = @ + 1]
                  /\ \/ \E n \in {0, copies[m] + 1} : Answer(TRUE, n) /\ UNCHANGED excused
                     \/ Answer(FALSE, 0) /\ excused' = excused \cup {m}
    /\ UNCHANGED <<log, hook, arrived>>

\* Mutant: a message that was sent keeps its status.
SentUnrecorded(j, ok, n) ==
    IF ok THEN [log[j.msg] EXCEPT !.copy = n]
    ELSE [log[j.msg] EXCEPT !.status = "failed", !.tries = j.tries + 1]

\* Mutant: a message that was refused keeps its status.
RefusedUnrecorded(j, ok, n) ==
    IF ok THEN [log[j.msg] EXCEPT !.status = "sent", !.copy = n]
    ELSE log[j.msg]

\* The patch for job j.  retry_count is what was listed, plus one.
Patched(j, ok, n) ==
    IF ok THEN [log[j.msg] EXCEPT !.status = "sent", !.copy = n]
    ELSE [log[j.msg] EXCEPT !.status = "failed", !.tries = j.tries + 1]

NextJob(p) ==
    poll' = [poll EXCEPT ![p].pc = "send", ![p].job = Nil, ![p].ok = FALSE, ![p].copy = 0]

\* update_row, by id.
WriteRow(p) ==
    /\ poll[p].pc = "write"
    /\ log' = [log EXCEPT ![poll[p].job.msg] =
                  Patched(poll[p].job, poll[p].ok, poll[p].copy)]
    /\ NextJob(p)
    /\ UNCHANGED <<hook, copies, arrived, excused>>

\* The message of which the provider took a copy nobody will remember.
Unrecorded(p) == {m \in Messages : Sending(p, m) /\ poll[p].ok}

\* Its error is ignored.
WriteLost(p) ==
    /\ poll[p].pc = "write"
    /\ NextJob(p)
    /\ excused' = excused \cup Unrecorded(p)
    /\ UNCHANGED <<log, hook, copies, arrived>>

PassOver(p) ==
    /\ poll[p].pc = "send" /\ poll[p].todo = {}
    /\ poll' = [poll EXCEPT ![p] = NoPass]
    /\ UNCHANGED <<log, hook, copies, arrived, excused>>

\* The process stops with something left to do.
Stop(p) ==
    /\ poll[p].pc \in {"list", "write"} \/ poll[p].todo # {}
    /\ poll' = [poll EXCEPT ![p] = NoPass]
    /\ excused' = excused \cup Unrecorded(p)
    /\ UNCHANGED <<log, hook, copies, arrived>>

-----------------------------------------------------------------------------
(* The webhook                                                             *)

\* The row a report is about: sent, and with the copy's id.
ReportsOn(m, n) == log[m].status = "sent" /\ log[m].copy = n

\* The provider reports on copy n ("read" counts as delivered), and the
\* handler looks for the row.  Finding none it answers ok, and the provider
\* does not report again.
Report(h, m, n, fate) ==
    /\ hook[h].pc = "idle"
    /\ n \in 1..copies[m]
    /\ fate = "failed" => <<m, n>> \notin arrived
    /\ arrived' = IF fate = "delivered" THEN arrived \cup {<<m, n>>} ELSE arrived
    /\ hook' = IF ReportsOn(m, n)
               THEN [hook EXCEPT ![h] = [pc |-> "row", msg |-> m, fate |-> fate]]
               ELSE hook
    /\ hook' # hook \/ arrived' # arrived
    /\ UNCHANGED <<log, poll, copies, excused>>

\* update_row by id; its error is ignored too.
HookRow(h) ==
    /\ hook[h].pc = "row"
    /\ hook' = [hook EXCEPT ![h].pc = "approval"]
    /\ \/ log' = [log EXCEPT ![hook[h].msg].status = hook[h].fate]
       \/ UNCHANGED log
    /\ excused' = IF hook[h].fate = "failed" THEN excused \cup {hook[h].msg} ELSE excused
    /\ UNCHANGED <<poll, copies, arrived>>

HookOver(h) ==
    /\ hook[h].pc = "approval"
    /\ hook' = [hook EXCEPT ![h] = NoHandler]
    /\ UNCHANGED <<log, poll, copies, arrived, excused>>

=============================================================================
