-------------------------- MODULE ReservationProofs --------------------------
(***************************************************************************)
(* Proofs about the reservation book, for every number of units, feeds,    *)
(* passes and requests: the table's constraints are enough.  Handlers and  *)
(* passes decide on stale rows, so nothing they check can be relied on;    *)
(* what is inductive is what each single statement, accepted or refused,   *)
(* preserves.                                                              *)
(***************************************************************************)
EXTENDS ReservationBook, TLAPS

TableInv == TableTypeOK /\ NoDoubleBooking /\ ExternalIdsUnique /\ StaysNonEmpty

\* A pass past its fetch knows its integration; a request past its read
\* knows its row or its payload.
PassesBound ==
    \A p \in Syncs : sync[p].pc # "idle" => sync[p].integ \in Integrations

LocalsBound ==
    /\ PassesBound
    /\ \A q \in Requests :
         /\ req[q].pc = "insert" => req[q].payload \in Payloads
         /\ req[q].pc = "write" => req[q].id \in Ids /\ req[q].want \in Statuses

\* What passes keep by themselves, with or without requests beside them.
Sound == PassesTypeOK /\ TableInv /\ PassesBound

IInv == BookTypeOK /\ TableInv /\ LocalsBound

-----------------------------------------------------------------------------
(* The table: one accepted write preserves its invariant.                  *)

\* A write that PostgreSQL accepts leaves the table without double bookings,
\* repeated channel codes and empty stays.
LEMMA AcceptedWrite ==
    ASSUME TableInv, NEW r \in Ids, NEW v \in Row, Accepts(r, v),
           rows' = [rows EXCEPT ![r] = v]
    PROVE  TableInv'
<1>1. TableTypeOK'
  BY DEF TableInv, TableTypeOK
<1>2. \A s \in Ids : rows'[s] = IF s = r THEN v ELSE rows[s]
  BY DEF TableInv, TableTypeOK
<1>3. NoDoubleBooking'
  <2> SUFFICES ASSUME NEW s \in Ids, NEW t \in Ids, s # t,
                      rows'[s].status \in {"pending", "confirmed", "checked_in"},
                      rows'[t].status \in {"pending", "confirmed", "checked_in"},
                      rows'[s].unit = rows'[t].unit
               PROVE  rows'[s].to <= rows'[t].from \/ rows'[t].to <= rows'[s].from
    BY DEF NoDoubleBooking
  <2>1. /\ rows'[s].from \in Nat /\ rows'[s].to \in Nat
        /\ rows'[t].from \in Nat /\ rows'[t].to \in Nat
    BY <1>1, LastDayAssumption DEF TableTypeOK, Row, Day
  <2>2. CASE s # r /\ t # r
    BY <1>2, <2>2 DEF TableInv, NoDoubleBooking
  <2>3. CASE s = r
    BY <1>2, <2>1, <2>3 DEF Accepts, Clash, Overlap, ActiveStatuses
  <2>4. CASE t = r
    BY <1>2, <2>1, <2>4 DEF Accepts, Clash, Overlap, ActiveStatuses
  <2> QED
    BY <2>2, <2>3, <2>4
<1>4. ExternalIdsUnique'
  BY <1>2 DEF TableInv, ExternalIdsUnique, Accepts, SameKey
<1>5. StaysNonEmpty'
  BY <1>2 DEF TableInv, StaysNonEmpty, Exists, Accepts
<1> QED
  BY <1>1, <1>3, <1>4, <1>5 DEF TableInv

LEMMA InsertKeepsTable ==
    ASSUME TableInv, NEW v \in Row, InsertRow(v) \/ InsertRefused(v)
    PROVE  TableInv'
<1>1. CASE InsertRow(v)
  <2>1. PICK r \in Ids : Accepts(r, v) /\ rows' = [rows EXCEPT ![r] = v]
    BY <1>1 DEF InsertRow
  <2> QED
    BY <2>1, AcceptedWrite
<1>2. CASE InsertRefused(v)
  BY <1>2 DEF InsertRefused, TableInv, TableTypeOK, NoDoubleBooking,
              ExternalIdsUnique, StaysNonEmpty, Exists
<1> QED
  BY <1>1, <1>2

LEMMA UpdateKeepsTable ==
    ASSUME TableInv, NEW r \in Ids, NEW v \in Row, UpdateRow(r, v)
    PROVE  TableInv'
<1>1. CASE Accepts(r, v)
  BY <1>1, AcceptedWrite DEF UpdateRow
<1>2. CASE ~Accepts(r, v)
  BY <1>2 DEF UpdateRow, TableInv, TableTypeOK, NoDoubleBooking,
              ExternalIdsUnique, StaysNonEmpty, Exists
<1> QED
  BY <1>1, <1>2

LEMMA UnchangedKeepsTable ==
    ASSUME TableInv, UNCHANGED rows
    PROVE  TableInv'
BY DEF TableInv, TableTypeOK, NoDoubleBooking, ExternalIdsUnique, StaysNonEmpty, Exists

-----------------------------------------------------------------------------
(* Types of what passes and requests compute.                              *)

LEMMA NoRowTyped == NoRow \in Row
BY LastDayAssumption DEF NoRow, Row, Day

LEMMA NoPassTyped == NoPass \in Pass
BY NoRowTyped, LastDayAssumption DEF NoPass, Pass, Feed, Event, NoEvent, Day

\* A row stays a row when the patch of an event is applied to it.
LEMMA PatchedTyped ==
    ASSUME NEW old \in Row, NEW cur \in Row, NEW e \in Event, NEW u \in Units
    PROVE  Patched(old, cur, e, u) \in Row
<1> DEFINE unit   == IF old.unit # u      THEN u      ELSE cur.unit
           from   == IF old.from # e.from THEN e.from ELSE cur.from
           to     == IF old.to   # e.to   THEN e.to   ELSE cur.to
           status == PatchedStatus(old, cur, e)
<1>1. status \in {"cancelled", "confirmed", cur.status}
  BY DEF PatchedStatus
<1>2. status \in Statuses \cup {"absent"}
  BY <1>1 DEF Row, Statuses
<1>3. unit \in Units \cup {Nil} /\ from \in Day /\ to \in Day
  BY DEF Row, Event
<1>4. Patched(old, cur, e, u) =
        [cur EXCEPT !.unit = unit, !.from = from, !.to = to, !.status = status]
  BY Zenon DEF Patched
<1> HIDE DEF unit, from, to, status
<1> QED
  BY <1>2, <1>3, <1>4 DEF Row

LEMMA ImportedTyped ==
    ASSUME NEW i \in Integrations, NEW u \in Uids, NEW e \in Event
    PROVE  Imported(i, u, e) \in Row
BY FeedAssumption DEF Imported, Row, Event, Statuses

LEMMA RememberTyped ==
    ASSUME BookTypeOK, TableTypeOK', Remember
    PROVE  been' \in [Ids -> SUBSET Statuses]
<1> SUFFICES ASSUME NEW r \in Ids
             PROVE  been[r] \cup ({rows'[r].status} \ {"absent"}) \subseteq Statuses
  BY DEF Remember
<1>1. rows'[r].status \in Statuses \cup {"absent"}
  BY DEF TableTypeOK, Row
<1> QED
  BY <1>1 DEF BookTypeOK

-----------------------------------------------------------------------------
(* Requests.                                                               *)

LEMMA RequestKeepsIInv ==
    ASSUME IInv, NEW q \in Requests, RequestStep(q)
    PROVE  IInv'
<1> USE DEF IInv
<1> DEFINE Locals == /\ req' \in [Requests -> Request]
                     /\ LocalsBound'
<1>0. /\ rows \in [Ids -> Row]
      /\ req \in [Requests -> Request]
      /\ sync \in [Syncs -> Pass] /\ feed \in [Integrations -> Feed]
  BY DEF BookTypeOK, PassesTypeOK, TableTypeOK
<1>1. UNCHANGED <<feed, sync>>
  BY DEF RequestStep, CreateCheck, CreateInsert, TransitionRead, TransitionWrite, Crash
<1>2. ASSUME Done(q) PROVE Locals
  <2>1. NoRequest \in Request
    BY DEF NoRequest, Request
  <2> QED
    BY <1>0, <1>1, <1>2, <2>1 DEF Done, LocalsBound, PassesBound, NoRequest
<1>3. ASSUME NEW v \in Payloads, CreateCheck(q, v) PROVE Locals /\ UNCHANGED <<rows, been>>
  <2>1. [NoRequest EXCEPT !.pc = "insert", !.payload = v] \in Request
    BY DEF NoRequest, Request
  <2> QED
    BY <1>0, <1>1, <1>3, <2>1 DEF CreateCheck, LocalsBound, PassesBound, NoRequest
<1>4. ASSUME NEW r \in Ids, NEW s \in Statuses, TransitionRead(q, r, s)
      PROVE  Locals /\ UNCHANGED <<rows, been>>
  <2>1. rows[r].status \in Statuses
    BY <1>0, <1>4 DEF TransitionRead, Exists, Row
  <2>2. [NoRequest EXCEPT !.pc = "write", !.id = r, !.want = s]
          \in Request
    BY <2>1 DEF NoRequest, Request
  <2> QED
    BY <1>0, <1>1, <1>4, <2>2 DEF TransitionRead, LocalsBound, PassesBound, NoRequest
<1>5. ASSUME CreateInsert(q) PROVE Locals /\ TableInv' /\ Remember
  <2>1. req[q].payload \in Row
    BY <1>5, PayloadsAssumption DEF CreateInsert, LocalsBound
  <2> QED
    BY <1>2, <1>5, <2>1, InsertKeepsTable DEF CreateInsert
<1>6. ASSUME TransitionWrite(q) PROVE Locals /\ TableInv' /\ Remember
  <2>1. req[q].id \in Ids /\ req[q].want \in Statuses
    BY <1>6 DEF TransitionWrite, LocalsBound
  <2>2. [rows[req[q].id] EXCEPT !.status = req[q].want] \in Row
    BY <1>0, <2>1 DEF Row
  <2> QED
    BY <1>2, <1>6, <2>1, <2>2, UpdateKeepsTable DEF TransitionWrite
<1>7. ASSUME Crash(q) PROVE Locals /\ UNCHANGED <<rows, been>>
  BY <1>2, <1>7 DEF Crash
<1>8. Locals /\ TableInv' /\ (Remember \/ UNCHANGED been)
  BY <1>3, <1>4, <1>5, <1>6, <1>7, UnchangedKeepsTable DEF RequestStep
<1>9. been' \in [Ids -> SUBSET Statuses]
  BY <1>8, RememberTyped DEF BookTypeOK, TableInv
<1> QED
  BY <1>0, <1>1, <1>8, <1>9 DEF BookTypeOK, PassesTypeOK, TableInv

-----------------------------------------------------------------------------
(* The channel and the passes.                                             *)

LEMMA PassesKeepSound ==
    ASSUME Sound, ICalNext
    PROVE  Sound'
<1> USE DEF Sound
<1> DEFINE Passes == /\ feed' \in [Integrations -> Feed]
                     /\ sync' \in [Syncs -> Pass]
                     /\ PassesBound'
<1>0. /\ rows \in [Ids -> Row]
      /\ sync \in [Syncs -> Pass] /\ feed \in [Integrations -> Feed]
  BY DEF PassesTypeOK, TableTypeOK
<1>1. \A p \in Syncs : sync[p].pc # "idle" => sync[p].integ \in Integrations
  BY DEF PassesBound
<1>2. ASSUME NEW i \in Integrations, NEW f \in Feeds, Publish(i, f)
      PROVE  Passes /\ UNCHANGED rows
  BY <1>0, <1>1, <1>2, FeedAssumption DEF Publish, PassesBound
<1>3. ASSUME NEW p \in Syncs, NEW i \in Integrations, NEW by \in {"user", "system"},
             Fetch(p, i, by)
      PROVE  Passes /\ UNCHANGED rows
  <2>1. [NoPass EXCEPT !.pc = "list", !.by = by, !.integ = i, !.feed = feed[i]] \in Pass
    BY <1>0, NoPassTyped DEF Pass
  <2>2. [NoPass EXCEPT !.pc = "list", !.by = by, !.integ = i, !.feed = feed[i]].integ = i
    BY DEF NoPass
  <2> QED
    BY <1>0, <1>1, <1>3, <2>1, <2>2 DEF Fetch, PassesBound
<1>p. ASSUME NEW p \in Syncs, NEW l \in Pass, l.pc # "idle" => l.integ \in Integrations,
             sync' = [sync EXCEPT ![p] = l], UNCHANGED feed
      PROVE  Passes
  BY <1>0, <1>1, <1>p DEF PassesBound
<1>4. ASSUME NEW p \in Syncs, sync' = [sync EXCEPT ![p] = NoPass], UNCHANGED <<rows, feed>>
      PROVE  Passes /\ UNCHANGED rows
  BY <1>0, <1>1, <1>4, NoPassTyped DEF NoPass, PassesBound
<1>5. ASSUME NEW p \in Syncs, ListExisting(p) PROVE Passes /\ UNCHANGED rows
  <2> DEFINE snap == Snapshot(sync[p].integ)
  <2>1. snap \in [Ids -> Row]
    BY <1>0, NoRowTyped DEF Snapshot
  <2>2. Disappeared(sync[p].feed, snap) \subseteq Ids
    BY DEF Disappeared
  <2>3. sync' = [sync EXCEPT ![p] = [sync[p] EXCEPT
                   !.pc = "events", !.snap = snap,
                   !.todo = {u \in Uids : sync[p].feed[u].state # "none"},
                   !.left = Disappeared(sync[p].feed, snap)]]
    BY <1>5, Zenon DEF ListExisting
  <2>4. sync[p].integ \in Integrations
    BY <1>1, <1>5 DEF ListExisting
  <2> DEFINE l == [sync[p] EXCEPT !.pc = "events", !.snap = snap,
                     !.todo = {u \in Uids : sync[p].feed[u].state # "none"},
                     !.left = Disappeared(sync[p].feed, snap)]
  <2>5. l \in Pass /\ l.integ = sync[p].integ
    <3> HIDE DEF snap
    <3> QED
      BY <1>0, <2>1, <2>2 DEF Pass
  <2> QED
    BY <1>p, <1>5, <2>3, <2>4, <2>5 DEF ListExisting
<1>6. ASSUME NEW p \in Syncs, NEW u \in Uids, NEW ok \in BOOLEAN, Handled(p, u, ok),
             UNCHANGED feed, sync[p].pc = "events"
      PROVE  Passes
  <2> DEFINE l == [sync[p] EXCEPT !.todo = @ \ {u}, !.clean = @ /\ ok]
  <2>1. l \in Pass /\ l.integ = sync[p].integ /\ l.pc = sync[p].pc
    BY <1>0, <1>6 DEF Pass
  <2>2. sync' = [sync EXCEPT ![p] = l]
    BY <1>0, <1>6 DEF Handled, Pass
  <2> QED
    BY <1>p, <1>1, <1>6, <2>1, <2>2
<1>7. ASSUME NEW p \in Syncs, NEW u \in Uids, PatchEvent(p, u) PROVE Passes /\ TableInv'
  <2>1. PICK r \in Ids :
          LET v == Patched(sync[p].snap[r], rows[r], sync[p].feed[u], UnitOf[sync[p].integ])
          IN \/ Handled(p, u, TRUE) /\ UNCHANGED rows
             \/ Handled(p, u, Accepts(r, v)) /\ UpdateRow(r, v)
    BY <1>7 DEF PatchEvent
  <2> DEFINE v == Patched(sync[p].snap[r], rows[r], sync[p].feed[u], UnitOf[sync[p].integ])
  <2>2. sync[p].integ \in Integrations
    BY <1>1, <1>7 DEF PatchEvent
  <2>3. v \in Row
    BY <1>0, <2>2, PatchedTyped, FeedAssumption DEF Pass, Feed
  <2>4. Accepts(r, v) \in BOOLEAN
    BY DEF Accepts
  <2>5. Passes
    BY <1>6, <1>7, <2>1, <2>4 DEF PatchEvent
  <2> QED
    BY <2>1, <2>3, <2>5, UpdateKeepsTable, UnchangedKeepsTable
<1>8. ASSUME NEW p \in Syncs, NEW u \in Uids, CreateEvent(p, u) PROVE Passes /\ TableInv'
  <2> DEFINE v == Imported(sync[p].integ, u, sync[p].feed[u])
  <2>1. sync[p].integ \in Integrations
    BY <1>1, <1>8 DEF CreateEvent
  <2>2. v \in Row
    BY <1>0, <2>1, ImportedTyped DEF Pass, Feed
  <2>3. Passes
    BY <1>6, <1>8 DEF CreateEvent
  <2>4. InsertRow(v) \/ InsertRefused(v) \/ UNCHANGED rows
    BY <1>8 DEF CreateEvent
  <2> QED
    BY <2>2, <2>3, <2>4, InsertKeepsTable, UnchangedKeepsTable
<1>9. ASSUME NEW p \in Syncs, NEW r \in Ids, Sweep(p, r) PROVE Passes /\ TableInv'
  <2>1. [rows[r] EXCEPT !.status = "cancelled"] \in Row
    BY <1>0 DEF Row, Statuses
  <2>2. TableInv'
    BY <1>9, <2>1, UpdateKeepsTable DEF Sweep
  <2> DEFINE l == [sync[p] EXCEPT !.left = @ \ {r}]
  <2>3. l \in Pass /\ l.integ = sync[p].integ /\ l.pc = sync[p].pc
    BY <1>0 DEF Pass
  <2>4. sync' = [sync EXCEPT ![p] = l]
    BY <1>0, <1>9 DEF Sweep, Pass
  <2>5. Passes
    BY <1>p, <1>1, <1>9, <2>3, <2>4 DEF Sweep
  <2> QED
    BY <2>2, <2>5
<1>f. ASSUME NEW p \in Syncs, StatementFails(p) PROVE Passes /\ UNCHANGED rows
  <2>1. ASSUME NEW u \in Uids, PatchFails(p, u) \/ InsertFails(p, u)
        PROVE  Passes /\ UNCHANGED rows
    BY <1>6, <2>1 DEF PatchFails, InsertFails
  <2>2. ASSUME NEW r \in Ids, SweepFails(p, r) PROVE Passes /\ UNCHANGED rows
    <3> DEFINE l == [sync[p] EXCEPT !.left = @ \ {r}, !.clean = FALSE]
    <3>1. l \in Pass /\ l.integ = sync[p].integ /\ l.pc = sync[p].pc
      BY <1>0 DEF Pass
    <3>2. sync' = [sync EXCEPT ![p] = l]
      BY <1>0, <2>2 DEF SweepFails, Pass
    <3> QED
      BY <1>p, <1>1, <2>2, <3>1, <3>2 DEF SweepFails
  <2> QED
    BY <1>f, <2>1, <2>2 DEF StatementFails
<1>10. Passes /\ TableInv'
  <2>1. CASE \E i \in Integrations, f \in Feeds : Publish(i, f)
    BY <1>2, <2>1, UnchangedKeepsTable
  <2>2. CASE StartBy("user") \/ StartBy("system")
    BY <1>3, <2>2, UnchangedKeepsTable DEF StartBy
  <2>3. ASSUME NEW p \in Syncs, PassStep(p) \/ Abandon(p) PROVE Passes /\ TableInv'
    BY <1>4, <1>5, <1>7, <1>8, <1>9, <2>3, UnchangedKeepsTable DEF PassStep, Finish, Abandon
  <2>4. ASSUME NEW p \in Syncs, StatementFails(p) PROVE Passes /\ TableInv'
    BY <1>f, <2>4, UnchangedKeepsTable
  <2> QED
    BY <2>1, <2>2, <2>3, <2>4 DEF ICalNext
<1> QED
  BY <1>10 DEF PassesTypeOK, TableInv

LEMMA IInvSound == IInv => Sound
BY DEF IInv, Sound, BookTypeOK, LocalsBound

LEMMA SyncKeepsIInv ==
    ASSUME IInv, SyncStep
    PROVE  IInv'
<1>1. Sound'
  BY IInvSound, PassesKeepSound DEF SyncStep
<1>2. been' \in [Ids -> SUBSET Statuses]
  BY <1>1, RememberTyped DEF SyncStep, Sound, TableInv, IInv
<1> QED
  BY <1>1, <1>2 DEF IInv, Sound, BookTypeOK, LocalsBound, SyncStep

-----------------------------------------------------------------------------
(* The theorems.                                                           *)

LEMMA InitIInv == BookInit => IInv
<1> SUFFICES ASSUME BookInit PROVE IInv
  OBVIOUS
<1>1. TableInv
  BY NoRowTyped DEF BookInit, TableInv, TableTypeOK, NoDoubleBooking,
                    ExternalIdsUnique, StaysNonEmpty, Exists, NoRow
<1>2. NoRequest \in Request
  BY DEF NoRequest, Request
<1>3. feed \in [Integrations -> Feed] /\ sync \in [Syncs -> Pass]
  BY NoPassTyped, LastDayAssumption
  DEF BookInit, ICalInit, Feed, Event, NoEvent, Day
<1>4. LocalsBound
  BY DEF BookInit, ICalInit, LocalsBound, PassesBound, NoPass, NoRequest
<1> QED
  BY <1>1, <1>2, <1>3, <1>4 DEF IInv, BookTypeOK, PassesTypeOK, TableInv, BookInit

LEMMA NextIInv == IInv /\ [BookNext]_bookVars => IInv'
<1>1. CASE UNCHANGED bookVars
  BY <1>1 DEF bookVars, IInv, BookTypeOK, PassesTypeOK, TableInv, TableTypeOK,
              NoDoubleBooking, ExternalIdsUnique, StaysNonEmpty, Exists, LocalsBound, PassesBound
<1> QED
  BY <1>1, RequestKeepsIInv, SyncKeepsIInv DEF BookNext

\* The inductive invariant: every variable keeps its type and the table its
\* promises, and passes and requests know the rows they will write
\* (the constraints of `reservations` against every INSERT and UPDATE).
THEOREM Inductive == BookSpec => []IInv
BY InitIInv, NextIInv, PTL DEF BookSpec

\* Every variable keeps its type, whatever requests and passes write.
THEOREM TypeCorrect == BookSpec => []BookTypeOK
<1>1. IInv => BookTypeOK
  BY DEF IInv
<1> QED
  BY <1>1, Inductive, PTL

\* No double booking, whatever requests, scheduled passes and operator
\* passes run at once, wherever they are cut short, and for any feeds.
THEOREM NeverDoubleBooked == BookSpec => []NoDoubleBooking
<1>1. IInv => NoDoubleBooking
  BY DEF IInv, TableInv
<1> QED
  BY <1>1, Inductive, PTL
=============================================================================
