--------------------------- MODULE ReservationBook ---------------------------
(***************************************************************************)
(* The reservation book: the requests of routes/reservations.rs that       *)
(* create a reservation or move its status (and the update_status action   *)
(* of services/workflows.rs, which has the same shape), running beside the *)
(* iCal passes of ICalSync on one reservations table.                      *)
(*                                                                         *)
(* Each request is a read, a decision on what was read, and a write by id; *)
(* nothing holds the row in between, so other requests and passes run      *)
(* there.  What the handlers do to tasks and deposits after the write is   *)
(* in TurnoverTasks and Deposits.                                          *)
(***************************************************************************)
EXTENDS ICalSync

CONSTANTS
    Requests,   \* requests that may be in flight at once
    Payloads    \* the rows create requests ask for (bound)

ASSUME PayloadsAssumption ==
    Payloads \subseteq {v \in Row : v.status # "absent"}

VARIABLES
    req,        \* [Requests -> Request]: each request's local variables
    been        \* history: the statuses each reservation has had

bookVars == <<rows, feed, sync, req, been>>

Request == [pc      : {"idle", "insert", "write"},
            payload : Payloads \cup {NoRow},    \* create: the row asked for
            id      : Ids \cup {Nil},           \* transition: which row
            want    : Statuses \cup {Nil}]      \* and the status to write

NoRequest == [pc |-> "idle", payload |-> NoRow, id |-> Nil, want |-> Nil]

Remember == been' = [r \in Ids |-> been[r] \cup ({rows'[r].status} \ {"absent"})]

Done(q) == req' = [req EXCEPT ![q] = NoRequest]

-----------------------------------------------------------------------------
(* create_reservation                                                      *)

has_overlap(v) ==
    \E r \in Ids : rows[r].status \in ActiveStatuses /\ Overlap(rows[r], v)

\* The check.  daterange(from, to) is an error when from > to and empty, so
\* that nothing overlaps it, when from = to.  A refused request just ends.
CreateCheck(q, v) ==
    /\ req[q].pc = "idle"
    /\ v.from <= v.to
    /\ v.from < v.to => ~has_overlap(v)
    /\ req' = [req EXCEPT ![q] = [NoRequest EXCEPT !.pc = "insert", !.payload = v]]
    /\ UNCHANGED <<rows, feed, sync, been>>

CreateInsert(q) ==
    /\ req[q].pc = "insert"
    /\ InsertRow(req[q].payload) \/ InsertRefused(req[q].payload)
    /\ Done(q)
    /\ Remember
    /\ UNCHANGED <<feed, sync>>

-----------------------------------------------------------------------------
(* transition_status, and execute_update_status on a reservation           *)

allowed_transition(current, next) ==
    CASE current = "pending"    -> next \in {"confirmed", "cancelled"}
      [] current = "confirmed"  -> next \in {"checked_in", "cancelled", "no_show"}
      [] current = "checked_in" -> next = "checked_out"
      [] OTHER -> FALSE

\* get_row and the decision.  Asking for the status the row has, or for one
\* it may not move to, ends the request without a write.
TransitionRead(q, r, s) ==
    /\ req[q].pc = "idle"
    /\ Exists(r)
    /\ allowed_transition(rows[r].status, s)
    /\ req' = [req EXCEPT ![q] = [NoRequest EXCEPT !.pc = "write", !.id = r, !.want = s]]
    /\ UNCHANGED <<rows, feed, sync, been>>

\* update_row by id.  It fails when the exclusion constraint objects: the
\* row may have lost its nights since it was read.
TransitionWrite(q) ==
    /\ req[q].pc = "write"
    /\ UpdateRow(req[q].id, [rows[req[q].id] EXCEPT !.status = req[q].want])
    /\ Done(q)
    /\ Remember
    /\ UNCHANGED <<feed, sync>>

\* The task restarts or the client goes away between two statements.
Crash(q) ==
    /\ req[q].pc # "idle"
    /\ Done(q)
    /\ UNCHANGED <<rows, feed, sync, been>>

-----------------------------------------------------------------------------

RequestStep(q) ==
    \/ \E v \in Payloads : CreateCheck(q, v)
    \/ CreateInsert(q)
    \/ \E r \in Ids, s \in Statuses : TransitionRead(q, r, s)
    \/ TransitionWrite(q)
    \/ Crash(q)

\* A step of the channel or of a pass.
SyncStep == ICalNext /\ Remember /\ UNCHANGED req

ScheduledFetch(i) ==
    (\E p \in Syncs : Fetch(p, i, "system")) /\ Remember /\ UNCHANGED req

BookInit ==
    /\ rows = [r \in Ids |-> NoRow]
    /\ ICalInit
    /\ req = [q \in Requests |-> NoRequest]
    /\ been = [r \in Ids |-> {}]

BookNext == (\E q \in Requests : RequestStep(q)) \/ SyncStep

BookSpec == BookInit /\ [][BookNext]_bookVars

\* The scheduler starts a pass for every integration again and again
\* (sync_all; the slots of Syncs are ours, so a pass finding one free now and
\* then must get it), a started pass goes on, and in the end the process stops
\* crashing in the middle of passes, and the database failing statements that
\* its constraints allow.  Requests and the channel owe nothing.
SchedulerFairness ==
    /\ \A i \in Integrations : SF_bookVars(ScheduledFetch(i))
    /\ \A p \in Syncs : WF_bookVars(PassStep(p) /\ Remember /\ UNCHANGED req)
    /\ <>[][\A p \in Syncs : ~Abandon(p) /\ ~StatementFails(p)]_bookVars

FairBookSpec == BookSpec /\ SchedulerFairness

-----------------------------------------------------------------------------
(* Properties.                                                             *)

\* Whatever passes import and requests write, what is stored is a row: a
\* stay of at least a night, in a status the table knows.
BookTypeOK ==
    /\ PassesTypeOK
    /\ req \in [Requests -> Request]
    /\ been \in [Ids -> SUBSET Statuses]

\* However requests and passes interleave, an operator's reservation only
\* ever gets a status that one of its earlier statuses led to: a late write
\* may be stale, but it is never one nobody was entitled to, and no iCal
\* pass touches a reservation it did not import.  (A status may be the one
\* the reservation was created in.)
EveryStatusEarned ==
    \A r \in Ids : rows[r].source = "manual" =>
        \E first \in Statuses : \A s \in been[r] \ {first} :
            \E p \in been[r] :
                \/ p = "pending"    /\ s \in {"confirmed", "cancelled"}
                \/ p = "confirmed"  /\ s \in {"checked_in", "cancelled", "no_show"}
                \/ p = "checked_in" /\ s = "checked_out"

\* The book keeps the promise of Occupancy: each night of each unit is held
\* by at most one reservation, and reservations get all their nights at once,
\* from nights that were free or their own.
Nights == 0..(LastDay - 1)

Holder(u, n) ==
    LET holders == {r \in Ids : /\ rows[r].status \in {"pending", "confirmed", "checked_in"}
                                /\ rows[r].unit = u
                                /\ rows[r].from <= n /\ n < rows[r].to}
    IN IF holders = {} THEN Nil ELSE CHOOSE r \in holders : TRUE

Promise == INSTANCE Occupancy WITH
             Guests <- Ids, Free <- Nil,
             occ <- [u \in Units |-> [n \in Nights |-> Holder(u, n)]]

KeepsOccupancy == Promise!OccupancySpec

\* An imported booking the channel takes back gives its nights back, whatever
\* operators and late writes do meanwhile: cancelled in the feed, it ends
\* cancelled; gone from the feed, it does not stay pending or confirmed.
WithdrawnEventsFreeNights ==
    \A r \in Ids, i \in Integrations, u \in Uids :
        LET ours == rows[r].integ = i /\ rows[r].ext = u /\ rows[r].source = "ical"
        IN /\ ours /\ feed[i][u].state = "cancelled"
                ~> rows[r].status = "cancelled" \/ feed[i][u].state # "cancelled"
           /\ ours /\ feed[i][u].state = "none"
                ~> rows[r].status \notin {"pending", "confirmed"} \/ feed[i][u].state # "none"

\* An imported booking follows its event to new dates once the event stays
\* put and nobody else holds the nights.
MovedEventsFollow ==
    \A r \in Ids, i \in Integrations, u \in Uids, f \in Feeds :
        LET settled ==
              /\ rows[r].integ = i /\ rows[r].ext = u /\ rows[r].source = "ical"
              /\ feed[i] = f /\ f[u].state = "active"
              /\ \A s \in Ids \ {r} :
                    \/ rows[s].status \notin {"pending", "confirmed", "checked_in"}
                    \/ rows[s].to <= f[u].from \/ f[u].to <= rows[s].from
        IN <>[]settled => <>[](rows[r].from = f[u].from /\ rows[r].to = f[u].to)

\* apps/admin/components/shell/module-table-card.tsx:279: "connect an OTA
\* channel to import automatically".  An event that stays in the feed, on
\* nights nobody holds, would then become a reservation without anybody
\* pressing the sync button.
ImportsAutomatically ==
    \A i \in Integrations, u \in Uids, f \in Feeds :
        LET waiting ==
              /\ feed[i] = f /\ f[u].state = "active"
              /\ \A s \in Ids : \/ rows[s].status \notin ActiveStatuses
                                \/ rows[s].to <= f[u].from \/ f[u].to <= rows[s].from
        IN <>[]waiting => <>(\E r \in Ids : rows[r].integ = i /\ rows[r].ext = u)
=============================================================================
