------------------------------ MODULE ICalSync ------------------------------
(***************************************************************************)
(* services/ical.rs: a pass of sync_listing_ical_reservations mirrors the  *)
(* iCal feed of one integration into the reservations table.  It fetches   *)
(* the feed, reads the integration's reservations once, and then writes    *)
(* row by row from that snapshot, with no transaction and no lock: passes  *)
(* of the scheduler ("system") and of operators run at the same time, and  *)
(* beside every other writer of the table.                                 *)
(*                                                                         *)
(* The text of a feed is abstracted to what parse_ical_events hands over:  *)
(* for each UID no event, or an active or cancelled one of at least one    *)
(* night.  Events with the platform's own UIDs never reach the loop.       *)
(***************************************************************************)
EXTENDS ReservationTable

CONSTANTS
    Syncs,      \* passes that may be in flight at once
    UnitOf,     \* the unit_id of each integration
    Feeds       \* the feeds a channel may publish (bound)

VARIABLES
    feed,       \* [Integrations -> Feed]: what the channel publishes now
    sync        \* [Syncs -> Pass]: each pass's local variables

syncVars == <<rows, feed, sync>>

Event   == [state : {"none", "active", "cancelled"}, from : Day, to : Day]
NoEvent == [state |-> "none", from |-> 0, to |-> 0]
Feed    == [Uids -> Event]

ASSUME FeedAssumption ==
    /\ Feeds \subseteq Feed
    /\ UnitOf \in [Integrations -> Units]
    /\ Nil \notin Uids
    /\ Nil \notin Integrations

Pass == [pc    : {"idle", "list", "events"},
         by    : {"user", "system"},    \* user_id: an app user, or "system"
         integ : Integrations \cup {Nil},
         feed  : Feed,                  \* `desired`
         snap  : [Ids -> Row],          \* `existing`
         todo  : SUBSET Uids,           \* events still to handle
         left  : SUBSET Ids,            \* rows still to sweep
         clean : BOOLEAN]               \* `conflicts` is zero

NoPass == [pc |-> "idle", by |-> "system", integ |-> Nil,
           feed |-> [u \in Uids |-> NoEvent], snap |-> [r \in Ids |-> NoRow],
           todo |-> {}, left |-> {}, clean |-> TRUE]

-----------------------------------------------------------------------------
(* The channel.                                                            *)

Publish(i, f) ==
    /\ f \in Feeds
    /\ f # feed[i]
    /\ feed' = [feed EXCEPT ![i] = f]
    /\ UNCHANGED <<rows, sync>>

-----------------------------------------------------------------------------
(* One pass.                                                               *)

\* fetch_ical_text and parse_ical_events.
Fetch(p, i, by) ==
    /\ sync[p].pc = "idle"
    /\ sync' = [sync EXCEPT ![p] =
                  [NoPass EXCEPT !.pc = "list", !.by = by, !.integ = i,
                                 !.feed = feed[i]]]
    /\ UNCHANGED <<rows, feed>>

\* Mutant: only bookings nobody confirmed are swept.
DisappearedPendingOnly(f, snap) ==
    {r \in Ids : /\ snap[r].ext # Nil
                 /\ f[snap[r].ext].state = "none"
                 /\ snap[r].status = "pending"}

\* Mutant: the sweep cancels whatever has left the feed.
DisappearedAnyStatus(f, snap) ==
    {r \in Ids : /\ snap[r].ext # Nil
                 /\ f[snap[r].ext].state = "none"}

\* Rows of the snapshot the sweep will cancel: imported, no longer in the
\* feed, and still pending or confirmed when they were read.
Disappeared(f, snap) ==
    {r \in Ids : /\ snap[r].ext # Nil
                 /\ f[snap[r].ext].state = "none"
                 /\ snap[r].status \in {"pending", "confirmed"}}

\* Mutant: the query forgets source = 'ical'.
SnapshotOfAnySource(i) ==
    [r \in Ids |-> IF rows[r].integ = i THEN rows[r] ELSE NoRow]

Snapshot(i) ==
    [r \in Ids |-> IF rows[r].integ = i /\ rows[r].source = "ical"
                   THEN rows[r] ELSE NoRow]

\* list_rows: the integration's rows with source 'ical', all at once.
ListExisting(p) ==
    LET snap == Snapshot(sync[p].integ)
    IN /\ sync[p].pc = "list"
       /\ sync' = [sync EXCEPT ![p].pc = "events",
                               ![p].snap = snap,
                               ![p].todo = {u \in Uids : sync[p].feed[u].state # "none"},
                               ![p].left = Disappeared(sync[p].feed, snap)]
       /\ UNCHANGED <<rows, feed>>

\* A cancelled event cancels any row; an active one confirms, and revives, a
\* row that is not yet confirmed or further along.
PatchedStatus(old, cur, e) ==
    CASE e.state = "cancelled" /\ old.status # "cancelled" -> "cancelled"
      [] e.state = "active" /\ old.status \notin
           {"checked_in", "checked_out", "confirmed"} -> "confirmed"
      [] OTHER -> cur.status

\* Mutant: the departure date is not patched.
PatchedArrivalOnly(old, cur, e, unit) ==
    [cur EXCEPT
       !.unit   = IF old.unit # unit   THEN unit   ELSE @,
       !.from   = IF old.from # e.from THEN e.from ELSE @,
       !.status = PatchedStatus(old, cur, e)]

\* The patch holds the fields in which the event differs from the row as it
\* was read (old); it is applied to the row as it is now (cur).
Patched(old, cur, e, unit) ==
    [cur EXCEPT
       !.unit   = IF old.unit # unit   THEN unit   ELSE @,
       !.from   = IF old.from # e.from THEN e.from ELSE @,
       !.to     = IF old.to   # e.to   THEN e.to   ELSE @,
       !.status = PatchedStatus(old, cur, e)]

\* Mutant: the event's own word for its state is stored.
ImportedRaw(i, u, e) ==
    [unit |-> UnitOf[i], from |-> e.from, to |-> e.to, status |-> e.state,
     integ |-> i, ext |-> u, source |-> "ical"]

\* Mutant: imports wait for an operator to confirm them.
ImportedPending(i, u, e) ==
    [unit |-> UnitOf[i], from |-> e.from, to |-> e.to, status |-> "pending",
     integ |-> i, ext |-> u, source |-> "ical"]

Imported(i, u, e) ==
    [unit |-> UnitOf[i], from |-> e.from, to |-> e.to, status |-> "confirmed",
     integ |-> i, ext |-> u, source |-> "ical"]

\* Bookkeeping of the loop: event u is behind us, in conflict or not.
Handled(p, u, ok) ==
    sync' = [sync EXCEPT ![p].todo = @ \ {u}, ![p].clean = @ /\ ok]

\* A UID the snapshot knows: patch its row.
PatchEvent(p, u) ==
    LET e == sync[p].feed[u]
        old(r) == sync[p].snap[r]
    IN /\ sync[p].pc = "events"
       /\ u \in sync[p].todo
       /\ \E r \in Ids :
            /\ old(r).ext = u
            /\ LET v == Patched(old(r), rows[r], e, UnitOf[sync[p].integ])
               IN \/ v = rows[r] /\ Handled(p, u, TRUE) /\ UNCHANGED rows
                  \/ v # rows[r] /\ Handled(p, u, Accepts(r, v)) /\ UpdateRow(r, v)
       /\ UNCHANGED feed

\* A UID the snapshot does not know: insert it, unless it arrives cancelled.
\* created_by_user_id is a uuid column, so the INSERT of a "system" pass is
\* refused whatever the dates.
CreateEvent(p, u) ==
    LET e == sync[p].feed[u]
        v == Imported(sync[p].integ, u, e)
    IN /\ sync[p].pc = "events"
       /\ u \in sync[p].todo
       /\ \A r \in Ids : sync[p].snap[r].ext # u
       /\ \/ e.state = "cancelled" /\ Handled(p, u, TRUE) /\ UNCHANGED rows
          \/ e.state = "active" /\ sync[p].by = "user"
               /\ \/ InsertRow(v) /\ Handled(p, u, TRUE)
                  \/ InsertRefused(v) /\ Handled(p, u, FALSE)
          \/ e.state = "active" /\ sync[p].by = "system"
               /\ Handled(p, u, FALSE) /\ UNCHANGED rows
       /\ UNCHANGED feed

\* An UPDATE or INSERT that the table would take fails all the same (a lost
\* connection, a trigger): it is counted with the conflicts, and the pass goes
\* on to the next event.
PatchFails(p, u) ==
    /\ sync[p].pc = "events"
    /\ u \in sync[p].todo
    /\ \E r \in Ids :
         LET v == Patched(sync[p].snap[r], rows[r], sync[p].feed[u], UnitOf[sync[p].integ])
         IN sync[p].snap[r].ext = u /\ v # rows[r] /\ Accepts(r, v)
    /\ Handled(p, u, FALSE)
    /\ UNCHANGED <<rows, feed>>

InsertFails(p, u) ==
    /\ sync[p].pc = "events" /\ sync[p].by = "user"
    /\ u \in sync[p].todo
    /\ sync[p].feed[u].state = "active"
    /\ \A r \in Ids : sync[p].snap[r].ext # u
    /\ \E r \in Ids : /\ ~Exists(r)
                      /\ Accepts(r, Imported(sync[p].integ, u, sync[p].feed[u]))
    /\ Handled(p, u, FALSE)
    /\ UNCHANGED <<rows, feed>>

\* Cancel a row that left the feed.  The status was judged on the snapshot.
Sweep(p, r) ==
    /\ sync[p].pc = "events"
    /\ sync[p].todo = {}
    /\ r \in sync[p].left
    /\ UpdateRow(r, [rows[r] EXCEPT !.status = "cancelled"])
    /\ sync' = [sync EXCEPT ![p].left = @ \ {r}]
    /\ UNCHANGED feed

\* The cancellation fails: counted, and the sweep goes on.
SweepFails(p, r) ==
    /\ sync[p].pc = "events"
    /\ sync[p].todo = {}
    /\ r \in sync[p].left
    /\ rows[r].status # "cancelled"
    /\ sync' = [sync EXCEPT ![p].left = @ \ {r}, ![p].clean = FALSE]
    /\ UNCHANGED <<rows, feed>>

PassOver(p) == sync[p].pc = "events" /\ sync[p].todo = {} /\ sync[p].left = {}

Finish(p) ==
    /\ PassOver(p)
    /\ sync' = [sync EXCEPT ![p] = NoPass]
    /\ UNCHANGED <<rows, feed>>

\* A process restart, a failed fetch or list: the pass stops where it is.
Abandon(p) ==
    /\ sync[p].pc # "idle"
    /\ ~PassOver(p)
    /\ sync' = [sync EXCEPT ![p] = NoPass]
    /\ UNCHANGED <<rows, feed>>

PassStep(p) ==
    \/ ListExisting(p)
    \/ \E u \in Uids : PatchEvent(p, u) \/ CreateEvent(p, u)
    \/ \E r \in Ids : Sweep(p, r)
    \/ Finish(p)

StatementFails(p) ==
    \/ \E u \in Uids : PatchFails(p, u) \/ InsertFails(p, u)
    \/ \E r \in Ids : SweepFails(p, r)

StartBy(by) == \E p \in Syncs, i \in Integrations : Fetch(p, i, by)

ICalInit ==
    /\ feed = [i \in Integrations |-> [u \in Uids |-> NoEvent]]
    /\ sync = [p \in Syncs |-> NoPass]

ICalNext ==
    \/ \E i \in Integrations, f \in Feeds : Publish(i, f)
    \/ StartBy("user")
    \/ StartBy("system")
    \/ \E p \in Syncs : PassStep(p) \/ StatementFails(p) \/ Abandon(p)

-----------------------------------------------------------------------------
(* Properties.                                                             *)

PassesTypeOK ==
    /\ TableTypeOK
    /\ feed \in [Integrations -> Feed]
    /\ sync \in [Syncs -> Pass]

\* The rows mirror the feed f of integration i: every active event is a row
\* with its dates, confirmed or already further along; no row it cancelled
\* holds the unit; no pending or confirmed row is missing from the feed.
Mirrors(i, f) ==
    /\ \A u \in Uids : f[u].state = "active" =>
         \E r \in Ids : /\ rows[r].integ = i /\ rows[r].ext = u
                        /\ rows[r].unit = UnitOf[i]
                        /\ rows[r].from = f[u].from /\ rows[r].to = f[u].to
                        /\ rows[r].status \in {"confirmed", "checked_in", "checked_out"}
    /\ \A r \in Ids : rows[r].integ = i /\ rows[r].ext # Nil /\ rows[r].source = "ical" =>
         /\ f[rows[r].ext].state = "cancelled" => rows[r].status = "cancelled"
         /\ f[rows[r].ext].state = "none" => rows[r].status \notin {"pending", "confirmed"}

\* When a pass that counted no conflict ends, and nobody else wrote meanwhile
\* (one pass, no operator), the reservations mirror the feed it read, in
\* whatever order the events came out of the hash map.
CleanPassMirrorsFeed ==
    \A p \in Syncs :
        PassOver(p) /\ sync[p].clean => Mirrors(sync[p].integ, sync[p].feed)

\* Only a CANCELLED event cancels the booking of a guest who is or was in
\* house; an event that merely leaves the feed does not.  (One pass alone: a
\* check-in between a pass's read and its sweep is lost.)
InHouseKept ==
    \A r \in Ids :
      /\ rows[r].status \in {"checked_in", "checked_out"}
      /\ rows'[r].status # rows[r].status
      => \E p \in Syncs : rows[r].ext \in {u \in Uids : sync[p].feed[u].state = "cancelled"}

InHouseStaysKept == [][InHouseKept]_syncVars
=============================================================================
