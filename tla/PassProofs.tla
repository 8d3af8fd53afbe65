------------------------------ MODULE PassProofs ------------------------------
(***************************************************************************)
(* What one iCal pass achieves when nobody else touches the reservations   *)
(* of its integration, for every feed, every table handlers can have left, *)
(* every order in which the events come, and whatever requests and passes  *)
(* of other integrations do at the same time: a pass without conflicts     *)
(* mirrors its feed, and once it has, further passes write nothing.        *)
(***************************************************************************)
EXTENDS ReservationProofs, ICalTurns

Import(v, i) == v.integ = i /\ v.source = "ical"

\* What is assumed in the reservation book: a step that is not of the pass
\* leaves alone the imports of an integration whose events a pass handles.
LeftAlone ==
    \A p \in Syncs : sync[p].pc = "events" /\ sync'[p] = sync[p] =>
        \A r \in Ids :
            Import(rows[r], sync[p].integ) \/ Import(rows'[r], sync[p].integ)
              => rows'[r] = rows[r]

Bare == \A r \in Ids : ~Exists(r) => rows[r] = NoRow

Known(p, r) == sync[p].snap[r].ext # Nil

\* Row r of the snapshot is still the reservation it was.
SameImport(p, r) ==
    /\ Exists(r)
    /\ rows[r].integ = sync[p].integ
    /\ rows[r].ext = sync[p].snap[r].ext
    /\ rows[r].source = "ical"

\* ... as it was read, until its event is handled, and then patched.
AsRead(p, r) == sync[p].snap[r].ext \in sync[p].todo => rows[r] = sync[p].snap[r]

AsPatched(p, r) ==
    LET e == sync[p].feed[sync[p].snap[r].ext]
    IN e.state # "none" /\ sync[p].snap[r].ext \notin sync[p].todo /\ sync[p].clean
         => rows[r] = Patched(sync[p].snap[r], sync[p].snap[r], e, UnitOf[sync[p].integ])

\* Without an event it waits for the sweep, or needs none.
AsSwept(p, r) ==
    sync[p].feed[sync[p].snap[r].ext].state = "none" /\ r \notin sync[p].left /\ sync[p].clean
      => rows[r].status \notin {"pending", "confirmed"}

\* Imports the snapshot does not know are those of this pass.
NewIsActive(p, r) ==
    rows[r].integ = sync[p].integ /\ rows[r].ext # Nil /\ rows[r].source = "ical"
      => sync[p].feed[rows[r].ext].state = "active"

AsImported(p, u) ==
    /\ sync[p].clean /\ u \notin sync[p].todo
    /\ sync[p].feed[u].state = "active"
    /\ \A r \in Ids : sync[p].snap[r].ext # u
    => \E r \in Ids : rows[r] = Imported(sync[p].integ, u, sync[p].feed[u])

\* A row still to be swept is as it was when the sweep was decided.
LeftAsRead(p) ==
    \A r \in sync[p].left :
        rows[r] = sync[p].snap[r] /\ rows[r].status \in {"pending", "confirmed"}

Mirroring(p) ==
    /\ LeftAsRead(p)
    /\ \A u \in sync[p].todo : sync[p].feed[u].state # "none"
    /\ \A r \in sync[p].left : Known(p, r) /\ sync[p].feed[sync[p].snap[r].ext].state = "none"
    /\ \A r \in Ids : Known(p, r) =>
         SameImport(p, r) /\ AsRead(p, r) /\ AsPatched(p, r) /\ AsSwept(p, r)
    /\ \A r \in Ids : ~Known(p, r) => NewIsActive(p, r)
    /\ \A u \in Uids : AsImported(p, u)

PassInv == Bare /\ \A p \in Syncs : sync[p].pc = "events" => Mirroring(p)

-----------------------------------------------------------------------------
(* What does not concern a pass leaves it where it is.                     *)

LEMMA PassTyped ==
    ASSUME Sound, NEW p \in Syncs
    PROVE  /\ sync[p] \in Pass /\ sync \in [Syncs -> Pass] /\ rows \in [Ids -> Row]
           /\ sync[p].pc # "idle" => sync[p].integ \in Integrations
BY DEF Sound, PassesTypeOK, TableTypeOK, PassesBound

LEMMA MirroringStays ==
    ASSUME Sound, NEW p \in Syncs, LeftAlone,
           sync'[p] = sync[p], sync[p].pc = "events", Mirroring(p)
    PROVE  Mirroring(p)'
<1>1. ASSUME NEW r \in Ids, Import(rows[r], sync[p].integ) \/ Import(rows'[r], sync[p].integ)
      PROVE  rows'[r] = rows[r]
  BY <1>1 DEF LeftAlone
<1>2. ASSUME NEW r \in Ids, Known(p, r)
      PROVE  /\ rows'[r] = rows[r]
             /\ SameImport(p, r)' /\ AsRead(p, r)' /\ AsPatched(p, r)' /\ AsSwept(p, r)'
  <2>1. SameImport(p, r) /\ AsRead(p, r) /\ AsPatched(p, r) /\ AsSwept(p, r)
    BY <1>2 DEF Mirroring
  <2>2. rows'[r] = rows[r]  BY <1>1, <2>1 DEF SameImport, Import
  <2> QED  BY <2>1, <2>2 DEF SameImport, AsRead, AsPatched, AsSwept, Exists
<1>3. ASSUME NEW r \in Ids, ~Known(p, r)  PROVE NewIsActive(p, r)'
  BY <1>1, <1>3 DEF Mirroring, NewIsActive, Import
<1>4. ASSUME NEW u \in Uids  PROVE AsImported(p, u)'
  <2> SUFFICES ASSUME sync[p].clean, u \notin sync[p].todo, sync[p].feed[u].state = "active",
                      \A t \in Ids : sync[p].snap[t].ext # u
               PROVE  \E t \in Ids : rows'[t] = Imported(sync[p].integ, u, sync[p].feed[u])
    BY DEF AsImported
  <2>1. PICK t \in Ids : rows[t] = Imported(sync[p].integ, u, sync[p].feed[u])
    BY DEF Mirroring, AsImported
  <2> QED  BY <1>1, <2>1 DEF Imported, Import
<1>5. \A r \in Ids : Known(p, r)' <=> Known(p, r)  BY DEF Known
<1>6. LeftAsRead(p)'
  <2> SUFFICES ASSUME NEW r \in sync[p].left
               PROVE  rows'[r] = sync[p].snap[r] /\ rows'[r].status \in {"pending", "confirmed"}
    BY DEF LeftAsRead
  <2>1. Known(p, r) /\ rows[r] = sync[p].snap[r] /\ rows[r].status \in {"pending", "confirmed"}
    BY DEF Mirroring, LeftAsRead
  <2>2. r \in Ids  BY PassTyped DEF Pass
  <2> QED  BY <1>2, <2>1, <2>2
<1> QED  BY <1>2, <1>3, <1>4, <1>5, <1>6 DEF Mirroring, Known

LEMMA WriteKeepsBare ==
    ASSUME Sound, Bare, NEW r \in Ids, NEW v, v.status # "absent",
           rows' = rows \/ rows' = [rows EXCEPT ![r] = v]
    PROVE  Bare'
BY DEF Bare, Exists, Sound, PassesTypeOK, TableTypeOK

-----------------------------------------------------------------------------
(* The steps of the pass.                                                  *)

\* The snapshot.
LEMMA ListMirrors ==
    ASSUME Sound, Bare, NEW p \in Syncs, ListExisting(p)
    PROVE  Mirroring(p)'
<1> DEFINE k == sync[p]
           snap == Snapshot(k.integ)
<1>1. k \in Pass /\ k.integ \in Integrations /\ rows \in [Ids -> Row]
  BY PassTyped DEF ListExisting
<1>2. /\ sync'[p].feed = k.feed /\ sync'[p].integ = k.integ /\ sync'[p].snap = snap
      /\ sync'[p].todo = {u \in Uids : k.feed[u].state # "none"}
      /\ sync'[p].left = Disappeared(k.feed, snap)
      /\ UNCHANGED rows
  BY PassTyped DEF ListExisting, Pass
<1>3. \A r \in Ids : snap[r] = IF rows[r].integ = k.integ /\ rows[r].source = "ical"
                               THEN rows[r] ELSE NoRow
  BY DEF Snapshot
<1>4. \A r \in Ids : rows[r].ext \in Uids \cup {Nil}  BY <1>1 DEF Row
<1>5. ASSUME NEW r \in Ids, snap[r].ext # Nil
      PROVE  /\ snap[r] = rows[r] /\ rows[r].integ = k.integ /\ rows[r].source = "ical"
             /\ rows[r].ext \in Uids /\ Exists(r)
  BY <1>3, <1>4, <1>5 DEF NoRow, Bare
<1>6. \A r \in Ids : Known(p, r)' <=> snap[r].ext # Nil  BY <1>2 DEF Known
<1>7. ASSUME NEW r \in Ids, Known(p, r)'
      PROVE  SameImport(p, r)' /\ AsRead(p, r)' /\ AsPatched(p, r)' /\ AsSwept(p, r)'
  <2>0. snap[r].ext # Nil  BY <1>6, <1>7
  <2>1. SameImport(p, r)'  BY <2>0, <1>2, <1>5 DEF SameImport, Exists
  <2>2. AsRead(p, r)'  BY <2>0, <1>2, <1>5 DEF AsRead
  <2>3. AsPatched(p, r)'  BY <2>0, <1>2, <1>5 DEF AsPatched
  <2>4. AsSwept(p, r)'  BY <2>0, <1>2, <1>5 DEF AsSwept, Disappeared
  <2> QED  BY <2>1, <2>2, <2>3, <2>4
<1>8. \A r \in Ids : ~Known(p, r)' => NewIsActive(p, r)'
  BY <1>2, <1>3, <1>6 DEF NewIsActive
<1>9. \A u \in Uids : AsImported(p, u)'
  BY <1>2 DEF AsImported
<1>10. \A u \in sync'[p].todo : sync'[p].feed[u].state # "none"  BY <1>2
<1>11. \A r \in sync'[p].left :
         Known(p, r)' /\ sync'[p].feed[sync'[p].snap[r].ext].state = "none"
  BY <1>2, <1>6 DEF Disappeared
<1>12. LeftAsRead(p)'  BY <1>2, <1>5 DEF LeftAsRead, Disappeared
<1> QED  BY <1>2, <1>7, <1>8, <1>9, <1>10, <1>11, <1>12 DEF Mirroring, Disappeared

\* No two rows of the snapshot are for one event.
LEMMA OneRowPerEvent ==
    ASSUME Sound, NEW p \in Syncs, sync[p].pc = "events", Mirroring(p),
           NEW r \in Ids, NEW t \in Ids, Known(p, r), sync[p].snap[r].ext = sync[p].snap[t].ext
    PROVE  r = t
<1>1. Known(p, t)  BY DEF Known
<1>2. SameImport(p, r) /\ SameImport(p, t)  BY <1>1 DEF Mirroring
<1>3. sync[p].integ # Nil  BY PassTyped, FeedAssumption
<1> QED  BY <1>2, <1>3 DEF Known, SameImport, Sound, TableInv, ExternalIdsUnique

\* An event is behind us: what that does to the locals.
LEMMA HandledLocals ==
    ASSUME Sound, NEW p \in Syncs, NEW u \in Uids, NEW ok \in BOOLEAN, Handled(p, u, ok)
    PROVE  /\ sync'[p].feed = sync[p].feed /\ sync'[p].integ = sync[p].integ
           /\ sync'[p].snap = sync[p].snap /\ sync'[p].left = sync[p].left
           /\ sync'[p].todo = sync[p].todo \ {u}
           /\ sync'[p].clean => sync[p].clean /\ ok
           /\ \A o \in Syncs \ {p} : sync'[o] = sync[o]
<1> DEFINE l == [sync[p] EXCEPT !.todo = @ \ {u}, !.clean = @ /\ ok]
<1>1. sync[p] \in Pass /\ sync \in [Syncs -> Pass]  BY PassTyped
<1>2. sync' = [sync EXCEPT ![p] = l]  BY <1>1 DEF Handled, Pass
<1>3. sync'[p] = l /\ \A o \in Syncs \ {p} : sync'[o] = sync[o]  BY <1>1, <1>2
<1>4. /\ l.feed = sync[p].feed /\ l.integ = sync[p].integ /\ l.snap = sync[p].snap
      /\ l.left = sync[p].left /\ l.todo = sync[p].todo \ {u}
      /\ l.clean = (sync[p].clean /\ ok)
  BY <1>1 DEF Pass
<1> QED  BY <1>3, <1>4

\* A patch leaves the row of its event as the event says, or a conflict.
LEMMA PatchMirrors ==
    ASSUME Sound, Bare, NEW p \in Syncs, sync[p].pc = "events", Mirroring(p),
           NEW u \in Uids, PatchEvent(p, u)
    PROVE  Bare' /\ Mirroring(p)'
<1> DEFINE k == sync[p]
           e == k.feed[u]
<1>1. PICK r \in Ids :
        /\ k.snap[r].ext = u
        /\ LET v == Patched(k.snap[r], rows[r], e, UnitOf[k.integ])
           IN \/ v = rows[r] /\ Handled(p, u, TRUE) /\ UNCHANGED rows
              \/ v # rows[r] /\ Handled(p, u, Accepts(r, v)) /\ UpdateRow(r, v)
  BY DEF PatchEvent
<1> DEFINE v == Patched(k.snap[r], rows[r], e, UnitOf[k.integ])
<1>2. /\ k \in Pass /\ k.integ \in Integrations /\ rows \in [Ids -> Row] /\ u # Nil
      /\ u \in k.todo
  BY PassTyped, FeedAssumption DEF PatchEvent
<1>3. PICK ok \in BOOLEAN : /\ Handled(p, u, ok)
                            /\ rows' = rows \/ rows' = [rows EXCEPT ![r] = v]
                            /\ ok => rows'[r] = v
  <2>1. CASE v = rows[r] /\ Handled(p, u, TRUE) /\ UNCHANGED rows  BY <2>1
  <2>2. CASE v # rows[r] /\ Handled(p, u, Accepts(r, v)) /\ UpdateRow(r, v)
    <3>1. Accepts(r, v) \in BOOLEAN  BY DEF Accepts
    <3>2. rows' = rows \/ rows' = [rows EXCEPT ![r] = v]  BY <2>2 DEF UpdateRow
    <3>3. Accepts(r, v) => rows'[r] = v  BY <1>2, <2>2 DEF UpdateRow
    <3> QED  BY <2>2, <3>1, <3>2, <3>3
  <2> QED  BY <1>1, <2>1, <2>2
<1>4. /\ sync'[p].feed = k.feed /\ sync'[p].integ = k.integ
      /\ sync'[p].snap = k.snap /\ sync'[p].left = k.left
      /\ sync'[p].todo = k.todo \ {u}
      /\ sync'[p].clean => k.clean /\ ok
  BY <1>3, HandledLocals
<1>5. /\ Known(p, r) /\ SameImport(p, r) /\ rows[r] = k.snap[r] /\ e.state # "none"
  BY <1>1, <1>2 DEF Mirroring, Known, AsRead
<1>6. /\ v.integ = rows[r].integ /\ v.ext = rows[r].ext /\ v.source = rows[r].source
      /\ v.status \in {"cancelled", "confirmed", rows[r].status}
  BY <1>2 DEF Patched, PatchedStatus, Row
<1>7. v.status # "absent"  BY <1>5, <1>6 DEF SameImport, Exists
<1>8. Bare'  BY <1>3, <1>7, WriteKeepsBare
<1>9. /\ \A t \in Ids : t # r => rows'[t] = rows[t]
      /\ rows'[r] \in {rows[r], v}
  BY <1>2, <1>3
<1>10. \A t \in Ids : Known(p, t)' <=> Known(p, t)  BY <1>4 DEF Known
<1>11. ASSUME NEW t \in Ids, Known(p, t), t # r
       PROVE  SameImport(p, t)' /\ AsRead(p, t)' /\ AsPatched(p, t)' /\ AsSwept(p, t)'
  <2>1. k.snap[t].ext # u  BY <1>1, <1>5, <1>11, OneRowPerEvent
  <2>2. SameImport(p, t) /\ AsRead(p, t) /\ AsPatched(p, t) /\ AsSwept(p, t)
    BY <1>11 DEF Mirroring
  <2>3. rows'[t] = rows[t]  BY <1>9, <1>11
  <2> QED
    BY <1>4, <2>1, <2>2, <2>3 DEF SameImport, AsRead, AsPatched, AsSwept, Exists
<1>12. SameImport(p, r)' /\ AsRead(p, r)' /\ AsPatched(p, r)' /\ AsSwept(p, r)'
  <2>1. SameImport(p, r)'
    BY <1>4, <1>5, <1>6, <1>7, <1>9 DEF SameImport, Exists
  <2>2. AsRead(p, r)'  BY <1>1, <1>4 DEF AsRead
  <2>3. AsPatched(p, r)'  BY <1>1, <1>3, <1>4, <1>5 DEF AsPatched
  <2>4. AsSwept(p, r)'  BY <1>1, <1>4, <1>5 DEF AsSwept
  <2> QED  BY <2>1, <2>2, <2>3, <2>4
<1>13. ASSUME NEW t \in Ids, ~Known(p, t)  PROVE NewIsActive(p, t)'
  <2>1. rows'[t] = rows[t]  BY <1>5, <1>9, <1>13
  <2> QED  BY <1>4, <1>13, <2>1 DEF NewIsActive, Mirroring
<1>14. ASSUME NEW w \in Uids  PROVE AsImported(p, w)'
  <2> SUFFICES ASSUME sync'[p].clean, w \notin sync'[p].todo, k.feed[w].state = "active",
                      \A t \in Ids : k.snap[t].ext # w
               PROVE  \E t \in Ids : rows'[t] = Imported(k.integ, w, k.feed[w])
    BY <1>4 DEF AsImported
  <2>1. w # u  BY <1>1
  <2>2. PICK t \in Ids : rows[t] = Imported(k.integ, w, k.feed[w])
    BY <1>4, <2>1 DEF Mirroring, AsImported
  <2>3. t # r  BY <1>1, <1>5, <2>1, <2>2 DEF Imported
  <2> QED  BY <1>9, <2>2, <2>3
<1>15. Mirroring(p)'
  <2>1. \A w \in sync'[p].todo : sync'[p].feed[w].state # "none"  BY <1>4 DEF Mirroring
  <2>2. \A t \in sync'[p].left :
          Known(p, t)' /\ sync'[p].feed[sync'[p].snap[t].ext].state = "none"
    BY <1>4 DEF Mirroring, Known
  <2>3. r \notin k.left  BY <1>1, <1>5 DEF Mirroring
  <2>4. LeftAsRead(p)'
    <3> SUFFICES ASSUME NEW t \in k.left
                 PROVE  rows'[t] = k.snap[t] /\ rows'[t].status \in {"pending", "confirmed"}
      BY <1>4 DEF LeftAsRead
    <3>1. t \in Ids /\ t # r  BY <1>2, <2>3 DEF Pass
    <3> QED  BY <1>9, <3>1 DEF Mirroring, LeftAsRead
  <2> QED  BY <1>10, <1>11, <1>12, <1>13, <1>14, <2>1, <2>2, <2>4 DEF Mirroring
<1> QED  BY <1>8, <1>15

\* An event the snapshot does not know is inserted, or is a conflict, or was
\* cancelled before it was ever seen.
LEMMA CreateMirrors ==
    ASSUME Sound, Bare, NEW p \in Syncs, sync[p].pc = "events", Mirroring(p),
           NEW u \in Uids, CreateEvent(p, u)
    PROVE  Bare' /\ Mirroring(p)'
<1> DEFINE k == sync[p]
           e == k.feed[u]
           v == Imported(k.integ, u, e)
<1>1. /\ k \in Pass /\ k.integ \in Integrations /\ rows \in [Ids -> Row]
      /\ u \in k.todo /\ \A r \in Ids : k.snap[r].ext # u
  BY PassTyped DEF CreateEvent
<1>2. PICK ok \in BOOLEAN :
        /\ Handled(p, u, ok)
        /\ \/ rows' = rows /\ (ok => e.state = "cancelled")
           \/ InsertRow(v) /\ e.state = "active"
  BY DEF CreateEvent, InsertRefused
<1>3. /\ sync'[p].feed = k.feed /\ sync'[p].integ = k.integ
      /\ sync'[p].snap = k.snap /\ sync'[p].left = k.left
      /\ sync'[p].todo = k.todo \ {u}
      /\ sync'[p].clean => k.clean /\ ok
  BY <1>2, HandledLocals
<1>4. /\ v.integ = k.integ /\ v.ext = u /\ v.source = "ical" /\ v.status = "confirmed"
  BY DEF Imported
\* What was stored stays, and a row that comes is this event's.
<1>5. /\ Bare'
      /\ \A r \in Ids : Exists(r) => rows'[r] = rows[r]
      /\ \A r \in Ids : rows'[r] = rows[r] \/ (~Exists(r) /\ rows'[r] = v /\ e.state = "active")
      /\ ok /\ e.state = "active" => \E r \in Ids : rows'[r] = v
  <2>1. CASE rows' = rows /\ (ok => e.state = "cancelled")
    BY <2>1 DEF Bare, Exists
  <2>2. CASE InsertRow(v) /\ e.state = "active"
    <3>1. PICK r \in Ids : ~Exists(r) /\ rows' = [rows EXCEPT ![r] = v]
      BY <2>2 DEF InsertRow
    <3>2. Bare'  BY <1>4, <3>1, WriteKeepsBare
    <3> QED  BY <1>1, <2>2, <3>1, <3>2
  <2> QED  BY <1>2, <2>1, <2>2
<1>6. ASSUME NEW r \in Ids, Known(p, r)
      PROVE  SameImport(p, r)' /\ AsRead(p, r)' /\ AsPatched(p, r)' /\ AsSwept(p, r)'
  <2>1. SameImport(p, r) /\ AsRead(p, r) /\ AsPatched(p, r) /\ AsSwept(p, r)
    BY <1>6 DEF Mirroring
  <2>2. rows'[r] = rows[r] /\ k.snap[r].ext # u  BY <1>1, <1>5, <2>1 DEF SameImport
  <2> QED  BY <1>3, <2>1, <2>2 DEF SameImport, AsRead, AsPatched, AsSwept, Exists
<1>7. ASSUME NEW r \in Ids, ~Known(p, r)  PROVE NewIsActive(p, r)'
  <2>1. NewIsActive(p, r)  BY <1>7 DEF Mirroring
  <2>2. CASE rows'[r] = rows[r]  BY <1>3, <2>1, <2>2 DEF NewIsActive
  <2>3. CASE rows'[r] = v /\ e.state = "active"  BY <1>3, <1>4, <2>3 DEF NewIsActive
  <2> QED  BY <1>5, <2>2, <2>3
<1>8. ASSUME NEW w \in Uids  PROVE AsImported(p, w)'
  <2> SUFFICES ASSUME sync'[p].clean, w \notin sync'[p].todo, k.feed[w].state = "active",
                      \A t \in Ids : k.snap[t].ext # w
               PROVE  \E t \in Ids : rows'[t] = Imported(k.integ, w, k.feed[w])
    BY <1>3 DEF AsImported
  <2>1. CASE w = u  BY <1>3, <1>5, <2>1
  <2>2. CASE w # u
    <3>1. PICK t \in Ids : rows[t] = Imported(k.integ, w, k.feed[w])
      BY <1>3, <2>2 DEF Mirroring, AsImported
    <3>2. Exists(t)  BY <3>1 DEF Imported, Exists
    <3> QED  BY <1>5, <3>1, <3>2
  <2> QED  BY <2>1, <2>2
<1>9. Mirroring(p)'
  <2>1. \A w \in sync'[p].todo : sync'[p].feed[w].state # "none"  BY <1>3 DEF Mirroring
  <2>2. \A t \in sync'[p].left :
          Known(p, t)' /\ sync'[p].feed[sync'[p].snap[t].ext].state = "none"
    BY <1>3 DEF Mirroring, Known
  <2>3. \A t \in Ids : Known(p, t)' <=> Known(p, t)  BY <1>3 DEF Known
  <2>4. LeftAsRead(p)'
    <3> SUFFICES ASSUME NEW t \in k.left
                 PROVE  rows'[t] = k.snap[t] /\ rows'[t].status \in {"pending", "confirmed"}
      BY <1>3 DEF LeftAsRead
    <3>1. t \in Ids /\ SameImport(p, t)  BY <1>1 DEF Mirroring, Pass
    <3> QED  BY <1>5, <3>1 DEF Mirroring, LeftAsRead, SameImport
  <2> QED  BY <1>6, <1>7, <1>8, <2>1, <2>2, <2>3, <2>4 DEF Mirroring
<1> QED  BY <1>5, <1>9

\* The sweep is never refused.
LEMMA SweepMirrors ==
    ASSUME Sound, Bare, NEW p \in Syncs, sync[p].pc = "events", Mirroring(p),
           NEW r \in Ids, Sweep(p, r)
    PROVE  Bare' /\ Mirroring(p)'
<1> DEFINE k == sync[p]
           v == [rows[r] EXCEPT !.status = "cancelled"]
<1>1. /\ k \in Pass /\ k.integ \in Integrations /\ rows \in [Ids -> Row]
      /\ r \in k.left /\ k.todo = {}
  BY PassTyped DEF Sweep
<1>2. /\ sync'[p].feed = k.feed /\ sync'[p].integ = k.integ
      /\ sync'[p].snap = k.snap /\ sync'[p].left = k.left \ {r}
      /\ sync'[p].todo = k.todo /\ sync'[p].clean = k.clean
  BY <1>1, PassTyped DEF Sweep, Pass
<1>3. Known(p, r) /\ k.feed[k.snap[r].ext].state = "none" /\ SameImport(p, r)
  BY <1>1 DEF Mirroring
<1>4. /\ v.status = "cancelled" /\ v.from = rows[r].from /\ v.to = rows[r].to
      /\ v.integ = rows[r].integ /\ v.ext = rows[r].ext /\ v.source = rows[r].source
  BY <1>1 DEF Row
<1>5. Accepts(r, v)
  <2>1. v.from < v.to
    BY <1>3, <1>4 DEF SameImport, Sound, TableInv, StaysNonEmpty
  <2>2. \A t \in Ids \ {r} : ~Clash(v, rows[t])  BY <1>4 DEF Clash, ActiveStatuses
  <2>3. \A t \in Ids \ {r} : ~SameKey(v, rows[t])
    BY <1>4 DEF SameKey, Sound, TableInv, ExternalIdsUnique
  <2> QED  BY <2>1, <2>2, <2>3 DEF Accepts
<1>6. rows' = [rows EXCEPT ![r] = v]  BY <1>5 DEF Sweep, UpdateRow
<1>7. rows'[r] = v /\ \A t \in Ids : t # r => rows'[t] = rows[t]  BY <1>1, <1>6
<1>8. Bare'  BY <1>4, <1>6, WriteKeepsBare
<1>9. ASSUME NEW t \in Ids, Known(p, t), t # r
      PROVE  SameImport(p, t)' /\ AsRead(p, t)' /\ AsPatched(p, t)' /\ AsSwept(p, t)'
  <2>1. SameImport(p, t) /\ AsRead(p, t) /\ AsPatched(p, t) /\ AsSwept(p, t)
    BY <1>9 DEF Mirroring
  <2> QED
    BY <1>2, <1>7, <1>9, <2>1 DEF SameImport, AsRead, AsPatched, AsSwept, Exists
<1>10. SameImport(p, r)' /\ AsRead(p, r)' /\ AsPatched(p, r)' /\ AsSwept(p, r)'
  <2>1. SameImport(p, r)'  BY <1>2, <1>3, <1>4, <1>7 DEF SameImport, Exists
  <2>2. AsRead(p, r)'  BY <1>1, <1>2 DEF AsRead
  <2>3. AsPatched(p, r)'  BY <1>2, <1>3 DEF AsPatched
  <2>4. AsSwept(p, r)'  BY <1>2, <1>4, <1>7 DEF AsSwept
  <2> QED  BY <2>1, <2>2, <2>3, <2>4
<1>11. ASSUME NEW t \in Ids, ~Known(p, t)  PROVE NewIsActive(p, t)'
  <2>1. rows'[t] = rows[t]  BY <1>3, <1>7, <1>11
  <2> QED  BY <1>2, <1>11, <2>1 DEF NewIsActive, Mirroring
<1>12. ASSUME NEW w \in Uids  PROVE AsImported(p, w)'
  <2> SUFFICES ASSUME k.clean, w \notin k.todo, k.feed[w].state = "active",
                      \A t \in Ids : k.snap[t].ext # w
               PROVE  \E t \in Ids : rows'[t] = Imported(k.integ, w, k.feed[w])
    BY <1>2 DEF AsImported
  <2>1. PICK t \in Ids : rows[t] = Imported(k.integ, w, k.feed[w])
    BY DEF Mirroring, AsImported
  <2>2. t # r  BY <1>3, <2>1 DEF Imported, SameImport
  <2> QED  BY <1>7, <2>1, <2>2
<1>13. Mirroring(p)'
  <2>1. \A w \in sync'[p].todo : sync'[p].feed[w].state # "none"  BY <1>2 DEF Mirroring
  <2>2. \A t \in sync'[p].left :
          Known(p, t)' /\ sync'[p].feed[sync'[p].snap[t].ext].state = "none"
    BY <1>2 DEF Mirroring, Known
  <2>3. \A t \in Ids : Known(p, t)' <=> Known(p, t)  BY <1>2 DEF Known
  <2>4. LeftAsRead(p)'
    <3> SUFFICES ASSUME NEW t \in k.left, t # r
                 PROVE  rows'[t] = k.snap[t] /\ rows'[t].status \in {"pending", "confirmed"}
      BY <1>2 DEF LeftAsRead
    <3>1. t \in Ids  BY <1>1 DEF Pass
    <3> QED  BY <1>7, <3>1 DEF Mirroring, LeftAsRead
  <2> QED  BY <1>9, <1>10, <1>11, <1>12, <2>1, <2>2, <2>3, <2>4 DEF Mirroring
<1> QED  BY <1>8, <1>13

\* A statement that fails: what it does to the locals.
LEMMA FailsLocals ==
    ASSUME Sound, NEW p \in Syncs, StatementFails(p)
    PROVE  /\ UNCHANGED <<rows, feed>> /\ ~PassOver(p)
           /\ sync[p].pc = "events" /\ sync'[p].pc = "events" /\ sync'[p] # sync[p]
           /\ \A o \in Syncs \ {p} : sync'[o] = sync[o]
           /\ sync'[p].feed = sync[p].feed /\ sync'[p].integ = sync[p].integ
           /\ sync'[p].snap = sync[p].snap /\ ~sync'[p].clean
           /\ sync'[p].todo \subseteq sync[p].todo /\ sync'[p].left \subseteq sync[p].left
<1>0. sync[p] \in Pass /\ sync \in [Syncs -> Pass]  BY PassTyped
<1>1. ASSUME NEW u \in Uids, PatchFails(p, u) \/ InsertFails(p, u)
      PROVE  /\ UNCHANGED <<rows, feed>> /\ u \in sync[p].todo
             /\ sync[p].pc = "events" /\ sync'[p].pc = "events" /\ Handled(p, u, FALSE)
  <2>1. /\ UNCHANGED <<rows, feed>> /\ u \in sync[p].todo
        /\ sync[p].pc = "events" /\ Handled(p, u, FALSE)
    BY <1>1 DEF PatchFails, InsertFails
  <2>2. sync'[p].pc = sync[p].pc  BY <1>0, <2>1 DEF Handled, Pass
  <2> QED  BY <2>1, <2>2
<1>2. ASSUME NEW r \in Ids, SweepFails(p, r)
      PROVE  /\ UNCHANGED <<rows, feed>> /\ r \in sync[p].left
             /\ sync[p].pc = "events" /\ sync'[p].pc = "events"
             /\ \A o \in Syncs \ {p} : sync'[o] = sync[o]
             /\ sync'[p].feed = sync[p].feed /\ sync'[p].integ = sync[p].integ
             /\ sync'[p].snap = sync[p].snap /\ ~sync'[p].clean
             /\ sync'[p].todo = sync[p].todo /\ sync'[p].left = sync[p].left \ {r}
  <2>1. UNCHANGED <<rows, feed>> /\ r \in sync[p].left /\ sync[p].pc = "events"
    BY <1>2 DEF SweepFails
  <2>2. \A o \in Syncs \ {p} : sync'[o] = sync[o]  BY <1>0, <1>2 DEF SweepFails
  <2>3. sync'[p] = [sync[p] EXCEPT !.left = @ \ {r}, !.clean = FALSE]
    BY <1>0, <1>2 DEF SweepFails, Pass
  <2> QED  BY <1>0, <2>1, <2>2, <2>3 DEF Pass
<1>3. CASE \E u \in Uids : PatchFails(p, u) \/ InsertFails(p, u)
  <2>1. PICK u \in Uids : PatchFails(p, u) \/ InsertFails(p, u)  BY <1>3
  <2>2. /\ UNCHANGED <<rows, feed>> /\ u \in sync[p].todo
        /\ sync[p].pc = "events" /\ sync'[p].pc = "events" /\ Handled(p, u, FALSE)
    BY <1>1, <2>1
  <2>3. sync'[p].todo = sync[p].todo \ {u}  BY <2>2, HandledLocals
  <2> QED  BY <2>2, <2>3, HandledLocals DEF PassOver
<1>4. CASE \E r \in Ids : SweepFails(p, r)
  <2>1. PICK r \in Ids : SweepFails(p, r)  BY <1>4
  <2> QED  BY <1>2, <2>1 DEF PassOver
<1> QED  BY <1>3, <1>4 DEF StatementFails

LEMMA FailsMirror ==
    ASSUME Sound, NEW p \in Syncs, Mirroring(p), StatementFails(p)
    PROVE  Mirroring(p)'
<1> DEFINE k == sync[p]
<1>1. /\ rows' = rows /\ ~sync'[p].clean
      /\ sync'[p].feed = k.feed /\ sync'[p].integ = k.integ /\ sync'[p].snap = k.snap
      /\ sync'[p].todo \subseteq k.todo /\ sync'[p].left \subseteq k.left
  BY FailsLocals
<1>2. \A r \in Ids : Known(p, r)' <=> Known(p, r)  BY <1>1 DEF Known
<1>3. ASSUME NEW r \in Ids, Known(p, r)
      PROVE  SameImport(p, r)' /\ AsRead(p, r)' /\ AsPatched(p, r)' /\ AsSwept(p, r)'
  <2>1. SameImport(p, r) /\ AsRead(p, r)  BY <1>3 DEF Mirroring
  <2>2. AsPatched(p, r)' /\ AsSwept(p, r)'  BY <1>1 DEF AsPatched, AsSwept
  <2> QED  BY <1>1, <2>1, <2>2 DEF SameImport, AsRead, Exists
<1>4. ASSUME NEW r \in Ids, ~Known(p, r)  PROVE NewIsActive(p, r)'
  BY <1>1, <1>4 DEF Mirroring, NewIsActive
<1>5. \A u \in Uids : AsImported(p, u)'  BY <1>1 DEF AsImported
<1>6. LeftAsRead(p)'  BY <1>1 DEF Mirroring, LeftAsRead
<1>7. \A u \in sync'[p].todo : sync'[p].feed[u].state # "none"  BY <1>1 DEF Mirroring
<1>8. \A r \in sync'[p].left :
        Known(p, r)' /\ sync'[p].feed[sync'[p].snap[r].ext].state = "none"
  BY <1>1 DEF Mirroring, Known
<1> QED  BY <1>2, <1>3, <1>4, <1>5, <1>6, <1>7, <1>8 DEF Mirroring

-----------------------------------------------------------------------------
(* Passes and requests beside each other.                                  *)

\* Steps that write nothing, and start no handling of events.
LEMMA QuietKeepsPassInv ==
    ASSUME Sound, PassInv, UNCHANGED rows,
           \A p \in Syncs : sync'[p] = sync[p] \/ sync'[p].pc # "events"
    PROVE  PassInv'
<1>1. LeftAlone /\ Bare'  BY DEF PassInv, LeftAlone, Bare, Exists
<1>2. ASSUME NEW p \in Syncs, sync'[p].pc = "events"  PROVE Mirroring(p)'
  BY <1>1, <1>2, MirroringStays DEF PassInv
<1> QED  BY <1>1, <1>2 DEF PassInv

LEMMA PassesKeepPassInv ==
    ASSUME Sound, PassInv, LeftAlone, ICalNext
    PROVE  PassInv'
<1>0. sync \in [Syncs -> Pass]  BY DEF Sound, PassesTypeOK
<1>2. ASSUME NEW p \in Syncs, \A o \in Syncs \ {p} : sync'[o] = sync[o],
             Bare' /\ Mirroring(p)'
      PROVE  PassInv'
  <2>1. ASSUME NEW o \in Syncs \ {p}, sync'[o].pc = "events"  PROVE Mirroring(o)'
    BY <1>2, <2>1, MirroringStays DEF PassInv
  <2> QED  BY <1>2, <2>1 DEF PassInv
<1>3. CASE \E i \in Integrations, f \in Feeds : Publish(i, f)
  BY <1>3, QuietKeepsPassInv DEF Publish
<1>4. CASE StartBy("user") \/ StartBy("system")
  BY <1>0, <1>4, QuietKeepsPassInv DEF StartBy, Fetch, NoPass
<1>5. ASSUME NEW p \in Syncs, ListExisting(p)  PROVE PassInv'
  <2>1. UNCHANGED rows /\ \A o \in Syncs \ {p} : sync'[o] = sync[o]
    BY <1>0, <1>5 DEF ListExisting
  <2>2. Bare'  BY <2>1 DEF PassInv, Bare, Exists
  <2> QED  BY <1>2, <1>5, <2>1, <2>2, ListMirrors DEF PassInv
<1>6. ASSUME NEW p \in Syncs, NEW u \in Uids, PatchEvent(p, u) \/ CreateEvent(p, u)
      PROVE  PassInv'
  <2>1. sync[p].pc = "events" /\ \A o \in Syncs \ {p} : sync'[o] = sync[o]
    BY <1>0, <1>6 DEF PatchEvent, CreateEvent, Handled
  <2> QED  BY <1>2, <1>6, <2>1, PatchMirrors, CreateMirrors DEF PassInv
<1>7. ASSUME NEW p \in Syncs, NEW r \in Ids, Sweep(p, r)  PROVE PassInv'
  <2>1. sync[p].pc = "events" /\ \A o \in Syncs \ {p} : sync'[o] = sync[o]
    BY <1>0, <1>7 DEF Sweep
  <2> QED  BY <1>2, <1>7, <2>1, SweepMirrors DEF PassInv
<1>8. ASSUME NEW p \in Syncs, Finish(p) \/ Abandon(p)  PROVE PassInv'
  BY <1>0, <1>8, QuietKeepsPassInv DEF Finish, Abandon, NoPass
<1>9. ASSUME NEW p \in Syncs, StatementFails(p)  PROVE PassInv'
  <2>1. UNCHANGED rows /\ sync[p].pc = "events" /\ \A o \in Syncs \ {p} : sync'[o] = sync[o]
    BY <1>9, FailsLocals
  <2>2. Bare'  BY <2>1 DEF PassInv, Bare, Exists
  <2> QED  BY <1>2, <1>9, <2>1, <2>2, FailsMirror DEF PassInv
<1> QED
  BY <1>3, <1>4, <1>5, <1>6, <1>7, <1>8, <1>9 DEF ICalNext, PassStep

LEMMA RequestKeepsPassInv ==
    ASSUME IInv, PassInv, LeftAlone, NEW q \in Requests, RequestStep(q)
    PROVE  PassInv'
<1> USE DEF PassInv
<1>0. Sound  BY IInvSound
<1>1. UNCHANGED sync
  BY DEF RequestStep, CreateCheck, CreateInsert, TransitionRead, TransitionWrite, Crash
<1>2. \A p \in Syncs : sync'[p].pc = "events" => Mirroring(p)'
  BY <1>0, <1>1, MirroringStays
<1>3. CASE UNCHANGED rows  BY <1>2, <1>3 DEF Bare, Exists
<1>4. CASE CreateInsert(q)
  <2>1. req[q].payload.status # "absent"
    BY <1>4, PayloadsAssumption DEF CreateInsert, IInv, LocalsBound
  <2>2. rows' = rows \/ \E r \in Ids : rows' = [rows EXCEPT ![r] = req[q].payload]
    BY <1>4 DEF CreateInsert, InsertRow, InsertRefused
  <2>3. Bare'  BY <1>0, <2>1, <2>2, WriteKeepsBare DEF Bare, Exists
  <2> QED  BY <1>2, <2>3
<1>5. CASE TransitionWrite(q)
  <2> DEFINE r == req[q].id
             v == [rows[r] EXCEPT !.status = req[q].want]
  <2>1. r \in Ids /\ req[q].want \in Statuses /\ rows[r] \in Row
    BY <1>5 DEF TransitionWrite, IInv, LocalsBound, BookTypeOK, PassesTypeOK, TableTypeOK
  <2>2. v.status # "absent"  BY <2>1 DEF Row, Statuses
  <2>3. rows' = rows \/ rows' = [rows EXCEPT ![r] = v]
    BY <1>5 DEF TransitionWrite, UpdateRow
  <2>4. Bare'  BY <1>0, <2>1, <2>2, <2>3, WriteKeepsBare
  <2> QED  BY <1>2, <2>4
<1> QED
  BY <1>3, <1>4, <1>5 DEF RequestStep, CreateCheck, TransitionRead, Crash

LEMMA StepKeepsPassInv ==
    IInv /\ PassInv /\ [LeftAlone]_bookVars /\ [BookNext]_bookVars => PassInv'
<1> SUFFICES ASSUME IInv, PassInv, [LeftAlone]_bookVars, [BookNext]_bookVars PROVE PassInv'
  OBVIOUS
<1>1. CASE UNCHANGED bookVars
  BY <1>1, IInvSound, QuietKeepsPassInv DEF bookVars
<1>2. CASE LeftAlone /\ BookNext
  BY <1>2, IInvSound, RequestKeepsPassInv, PassesKeepPassInv DEF BookNext, SyncStep
<1> QED  BY <1>1, <1>2

LEMMA InitPassInv == BookInit => PassInv
BY DEF BookInit, ICalInit, PassInv, Bare, NoPass

\* The inductive invariant while others leave the imports alone: event by
\* event, the rows of the integration become what the feed says of them
\* (sync_integration).
THEOREM PassInvariant == BookSpec /\ [][LeftAlone]_bookVars => []PassInv
<1>1. BookInit => PassInv  BY InitPassInv
<1>2. IInv /\ PassInv /\ [LeftAlone]_bookVars /\ [BookNext]_bookVars => PassInv'
  BY StepKeepsPassInv
<1> QED  BY <1>1, <1>2, Inductive, PTL DEF BookSpec

-----------------------------------------------------------------------------
(* A pass that is over.                                                    *)

\* A row is as the event e of integration i says.
Follows(v, i, e) ==
    /\ e.state # "none" => v.unit = UnitOf[i] /\ v.from = e.from /\ v.to = e.to
    /\ e.state = "active" => v.status \in {"confirmed", "checked_in", "checked_out"}
    /\ e.state = "cancelled" => v.status = "cancelled"
    /\ e.state = "none" => v.status \notin {"pending", "confirmed"}

Following(i, f) ==
    /\ \A r \in Ids : Import(rows[r], i) /\ rows[r].ext # Nil
                        => Follows(rows[r], i, f[rows[r].ext])
    /\ \A u \in Uids : f[u].state = "active" =>
         \E r \in Ids : Import(rows[r], i) /\ rows[r].ext = u

LEMMA OverFollows ==
    ASSUME Sound, PassInv, NEW p \in Syncs, PassOver(p), sync[p].clean
    PROVE  Following(sync[p].integ, sync[p].feed)
<1> DEFINE k == sync[p]
           i == sync[p].integ
           f == sync[p].feed
<1>1. /\ k \in Pass /\ rows \in [Ids -> Row] /\ k.todo = {} /\ k.left = {} /\ Mirroring(p)
      /\ f \in Feed /\ k.snap \in [Ids -> Row] /\ i \in Integrations /\ i # Nil
  BY PassTyped, FeedAssumption DEF PassOver, PassInv, Pass
\* What the patch of an event leaves, and the sweep.
<1>2. ASSUME NEW r \in Ids, Known(p, r)
      PROVE  Follows(rows[r], i, f[k.snap[r].ext])
  <2> DEFINE e == f[k.snap[r].ext]
             old == k.snap[r]
  <2>1. CASE e.state = "none"
    <3>1. rows[r].status \notin {"pending", "confirmed"}
      BY <1>1, <1>2, <2>1 DEF Mirroring, AsSwept
    <3> QED  BY <2>1, <3>1 DEF Follows
  <2>2. CASE e.state # "none"
    <3>1. rows[r] = Patched(old, old, e, UnitOf[i])
      BY <1>1, <1>2, <2>2 DEF Mirroring, AsPatched
    <3>2. old \in Row  BY <1>1
    <3>3. /\ rows[r].unit = UnitOf[i] /\ rows[r].from = e.from /\ rows[r].to = e.to
          /\ rows[r].status = PatchedStatus(old, old, e)
      BY <3>1, <3>2 DEF Patched, Row
    <3>4. e.state = "cancelled" => PatchedStatus(old, old, e) = "cancelled"
      BY DEF PatchedStatus
    <3>5. e.state = "active" =>
            PatchedStatus(old, old, e) \in {"confirmed", "checked_in", "checked_out"}
      BY DEF PatchedStatus
    <3> QED  BY <2>2, <3>3, <3>4, <3>5 DEF Follows
  <2> QED  BY <2>1, <2>2
\* What the pass inserted itself.
<1>3. ASSUME NEW u \in Uids, f[u].state = "active", \A r \in Ids : k.snap[r].ext # u
      PROVE  \E t \in Ids : /\ Import(rows[t], i) /\ rows[t].ext = u
                            /\ Follows(rows[t], i, f[u])
  <2>1. PICK t \in Ids : rows[t] = Imported(i, u, f[u])
    BY <1>1, <1>3 DEF Mirroring, AsImported
  <2> QED  BY <1>3, <2>1 DEF Imported, Import, Follows
<1>4. ASSUME NEW r \in Ids, Import(rows[r], i), rows[r].ext # Nil
      PROVE  Follows(rows[r], i, f[rows[r].ext])
  <2>0. rows[r].ext \in Uids  BY <1>1, <1>4 DEF Row
  <2>1. CASE Known(p, r)
    <3>1. rows[r].ext = k.snap[r].ext  BY <1>1, <2>1 DEF Mirroring, SameImport
    <3> QED  BY <1>2, <2>1, <3>1
  <2>2. CASE ~Known(p, r)
    <3>1. f[rows[r].ext].state = "active"
      BY <1>1, <1>4, <2>2 DEF Mirroring, NewIsActive, Import
    <3>2. ASSUME NEW t \in Ids, rows[t].integ = i, rows[t].ext = rows[r].ext  PROVE t = r
      BY <1>1, <1>4, <3>2 DEF Sound, TableInv, ExternalIdsUnique, Import
    <3>3. \A t \in Ids : k.snap[t].ext # rows[r].ext
      <4> SUFFICES ASSUME NEW t \in Ids, k.snap[t].ext = rows[r].ext PROVE FALSE
        OBVIOUS
      <4>1. Known(p, t)  BY <1>4 DEF Known
      <4>2. SameImport(p, t)  BY <1>1, <4>1 DEF Mirroring
      <4> QED  BY <2>2, <3>2, <4>1, <4>2 DEF SameImport
    <3>4. PICK t \in Ids : /\ Import(rows[t], i) /\ rows[t].ext = rows[r].ext
                           /\ Follows(rows[t], i, f[rows[r].ext])
      BY <1>3, <2>0, <3>1, <3>3
    <3> QED  BY <3>2, <3>4 DEF Import
  <2> QED  BY <2>1, <2>2
<1>5. ASSUME NEW u \in Uids, f[u].state = "active"
      PROVE  \E r \in Ids : Import(rows[r], i) /\ rows[r].ext = u
  <2>1. CASE \E r \in Ids : k.snap[r].ext = u
    <3>1. PICK r \in Ids : k.snap[r].ext = u  BY <2>1
    <3>2. Known(p, r)  BY <3>1, FeedAssumption DEF Known
    <3>3. SameImport(p, r)  BY <1>1, <3>2 DEF Mirroring
    <3> QED  BY <3>1, <3>3 DEF SameImport, Import
  <2>2. CASE \A r \in Ids : k.snap[r].ext # u
    BY <1>3, <1>5, <2>2
  <2> QED  BY <2>1, <2>2
<1> QED  BY <1>4, <1>5 DEF Following

LEMMA FollowingMirrors ==
    ASSUME NEW i \in Integrations, NEW f \in Feed, Following(i, f)
    PROVE  Mirrors(i, f)
<1>1. ASSUME NEW u \in Uids, f[u].state = "active"
      PROVE  \E r \in Ids : /\ rows[r].integ = i /\ rows[r].ext = u
                            /\ rows[r].unit = UnitOf[i]
                            /\ rows[r].from = f[u].from /\ rows[r].to = f[u].to
                            /\ rows[r].status \in {"confirmed", "checked_in", "checked_out"}
  BY <1>1, FeedAssumption DEF Following, Follows, Import
<1>2. ASSUME NEW r \in Ids, rows[r].integ = i, rows[r].ext # Nil, rows[r].source = "ical"
      PROVE  /\ f[rows[r].ext].state = "cancelled" => rows[r].status = "cancelled"
             /\ f[rows[r].ext].state = "none" => rows[r].status \notin {"pending", "confirmed"}
  BY <1>2 DEF Following, Follows, Import
<1> QED  BY <1>1, <1>2 DEF Mirrors

LEMMA OverMirrors == Sound /\ PassInv => CleanPassMirrorsFeed
<1> SUFFICES ASSUME Sound, PassInv, NEW p \in Syncs, PassOver(p), sync[p].clean
             PROVE  Mirrors(sync[p].integ, sync[p].feed)
  BY DEF CleanPassMirrorsFeed
<1>1. sync[p].integ \in Integrations /\ sync[p].feed \in Feed
  BY PassTyped DEF PassOver, Pass
<1> QED  BY <1>1, OverFollows, FollowingMirrors

\* As long as nobody else writes the imports of an integration while a pass
\* handles its events, a pass that met no conflict ends with them as the feed
\* has them, whatever handlers and passes, abandoned ones too, have left in
\* the table before and write elsewhere meanwhile.
THEOREM UndisturbedPassMirrorsFeed ==
    BookSpec /\ [][LeftAlone]_bookVars => []CleanPassMirrorsFeed
<1>1. IInv /\ PassInv => CleanPassMirrorsFeed
  BY IInvSound, OverMirrors
<1> QED  BY <1>1, Inductive, PassInvariant, PTL

\* What such a pass does to guests who are or were in house.
LEMMA StepKeepsGuests ==
    ASSUME Sound, PassInv, ICalNext
    PROVE  InHouseKept
<1> SUFFICES ASSUME NEW r \in Ids, rows[r].status \in {"checked_in", "checked_out"},
                    rows'[r].status # rows[r].status
             PROVE  \E p \in Syncs :
                      rows[r].ext \in {u \in Uids : sync[p].feed[u].state = "cancelled"}
  BY DEF InHouseKept
<1>0. rows \in [Ids -> Row]  BY DEF Sound, PassesTypeOK, TableTypeOK
<1>1. CASE \/ \E i \in Integrations, f \in Feeds : Publish(i, f)
           \/ StartBy("user") \/ StartBy("system")
           \/ \E p \in Syncs : ListExisting(p) \/ Finish(p) \/ Abandon(p)
  BY <1>1 DEF Publish, StartBy, Fetch, ListExisting, Finish, Abandon
<1>2. ASSUME NEW p \in Syncs, NEW u \in Uids, PatchEvent(p, u)
      PROVE  rows[r].ext = u /\ sync[p].feed[u].state = "cancelled"
  <2> DEFINE k == sync[p]
             v == Patched(k.snap[r], rows[r], k.feed[u], UnitOf[k.integ])
  <2>1. k.snap[r].ext = u /\ rows'[r] = v
    BY <1>0, <1>2 DEF PatchEvent, UpdateRow
  <2>2. Mirroring(p) /\ u \in k.todo  BY <1>2 DEF PatchEvent, PassInv
  <2>3. Known(p, r)  BY <2>1, FeedAssumption DEF Known
  <2>4. rows[r].ext = u /\ rows[r] = k.snap[r]
    BY <2>1, <2>2, <2>3 DEF Mirroring, SameImport, AsRead
  <2>5. v.status = PatchedStatus(k.snap[r], rows[r], k.feed[u])
    BY <1>0 DEF Patched, Row
  <2>6. k.feed[u].state = "cancelled"
    BY <2>1, <2>4, <2>5 DEF PatchedStatus
  <2> QED  BY <2>4, <2>6
<1>3. ASSUME NEW p \in Syncs, NEW u \in Uids, CreateEvent(p, u)  PROVE FALSE
  <2>1. Exists(r)  BY DEF Exists
  <2> QED  BY <1>0, <1>3, <2>1 DEF CreateEvent, InsertRow, InsertRefused
\* The sweep only cancels what is still pending or confirmed.
<1>4. ASSUME NEW p \in Syncs, NEW t \in Ids, Sweep(p, t)  PROVE FALSE
  <2>1. t = r  BY <1>0, <1>4 DEF Sweep, UpdateRow
  <2>2. Mirroring(p) /\ t \in sync[p].left  BY <1>4 DEF Sweep, PassInv
  <2> QED  BY <2>1, <2>2 DEF Mirroring, LeftAsRead
<1>5. ASSUME NEW p \in Syncs, StatementFails(p)  PROVE FALSE
  BY <1>5, FailsLocals
<1> QED  BY <1>1, <1>2, <1>3, <1>4, <1>5 DEF ICalNext, PassStep

\* Under the same assumption no step of a pass ends the stay of a guest whom
\* operators have checked in or out, unless the channel's event itself is
\* cancelled.
THEOREM UndisturbedPassSparesGuests ==
    BookSpec /\ [][LeftAlone]_bookVars => [][ICalNext => InHouseKept]_bookVars
<1>1. IInv /\ PassInv /\ [BookNext]_bookVars => [ICalNext => InHouseKept]_bookVars
  BY IInvSound, StepKeepsGuests
<1> QED  BY <1>1, Inductive, PassInvariant, PTL DEF BookSpec

-----------------------------------------------------------------------------
(* Passes taking turns: what was assumed above holds, and a second pass    *)
(* over the same feed finds nothing to write.                              *)

OneEach ==
    \A p, o \in Syncs : p # o /\ sync[p].pc # "idle" /\ sync[o].pc # "idle"
                          => sync[p].integ # sync[o].integ

\* A pass over a feed that has been mirrored read it, and the rows it left.
Fresh(p) ==
    /\ sync[p].feed = feed[sync[p].integ]
    /\ sync[p].pc = "events" => sync[p].snap = Snapshot(sync[p].integ) /\ sync[p].left = {}

MirroredInv ==
    /\ mirrored \subseteq Integrations
    /\ \A i \in mirrored : Following(i, feed[i])
    /\ \A p \in Syncs : sync[p].pc # "idle" /\ sync[p].integ \in mirrored => Fresh(p)

TurnsInv == Sound /\ PassInv /\ OneEach /\ MirroredInv

\* A pass only writes its own imports, and rows nobody had.
LEMMA OwnWrites ==
    ASSUME Sound, PassInv, NEW p \in Syncs, PassStep(p) \/ StatementFails(p) \/ Abandon(p),
           NEW r \in Ids, rows'[r] # rows[r]
    PROVE  /\ sync[p].pc = "events" /\ Import(rows'[r], sync[p].integ)
           /\ Import(rows[r], sync[p].integ) \/ rows[r] = NoRow
<1> DEFINE k == sync[p]
<1>0. rows \in [Ids -> Row]  BY PassTyped
<1>1. ASSUME NEW u \in Uids, PatchEvent(p, u)
      PROVE  /\ k.pc = "events" /\ Import(rows'[r], k.integ)
             /\ Import(rows[r], k.integ)
  <2> DEFINE v == Patched(k.snap[r], rows[r], k.feed[u], UnitOf[k.integ])
  <2>1. k.pc = "events" /\ Mirroring(p)  BY <1>1 DEF PatchEvent, PassInv
  <2>2. k.snap[r].ext = u /\ rows'[r] = v
    BY <1>0, <1>1 DEF PatchEvent, UpdateRow
  <2>3. SameImport(p, r)  BY <2>1, <2>2, FeedAssumption DEF Mirroring, Known
  <2>4. v.integ = rows[r].integ /\ v.source = rows[r].source  BY <1>0 DEF Patched, Row
  <2> QED  BY <2>1, <2>2, <2>3, <2>4 DEF SameImport, Import
<1>2. ASSUME NEW u \in Uids, CreateEvent(p, u)
      PROVE  k.pc = "events" /\ Import(rows'[r], k.integ) /\ rows[r] = NoRow
  <2> DEFINE v == Imported(k.integ, u, k.feed[u])
  <2>1. k.pc = "events" /\ InsertRow(v)  BY <1>2 DEF CreateEvent, InsertRefused
  <2>2. ~Exists(r) /\ rows'[r] = v  BY <1>0, <2>1 DEF InsertRow
  <2> QED  BY <2>1, <2>2 DEF Imported, Import, PassInv, Bare
<1>3. ASSUME NEW t \in Ids, Sweep(p, t)
      PROVE  k.pc = "events" /\ Import(rows'[r], k.integ) /\ Import(rows[r], k.integ)
  <2>1. k.pc = "events" /\ Mirroring(p) /\ t \in k.left  BY <1>3 DEF Sweep, PassInv
  <2>2. t = r /\ rows'[r] = [rows[r] EXCEPT !.status = "cancelled"]
    BY <1>0, <1>3 DEF Sweep, UpdateRow
  <2>3. SameImport(p, r)  BY <2>1, <2>2 DEF Mirroring
  <2>4. rows'[r].integ = rows[r].integ /\ rows'[r].source = rows[r].source
    BY <1>0, <2>2 DEF Row
  <2> QED  BY <2>1, <2>3, <2>4 DEF SameImport, Import
<1> QED
  BY <1>1, <1>2, <1>3, FailsLocals DEF PassStep, ListExisting, Finish, Abandon

\* What a step of a pass leaves of its locals, and of everybody else's.
LEMMA PassLocals ==
    ASSUME Sound, NEW p \in Syncs, PassStep(p) \/ StatementFails(p) \/ Abandon(p)
    PROVE  /\ sync[p].pc # "idle" /\ sync'[p] # sync[p] /\ feed' = feed
           /\ \A o \in Syncs \ {p} : sync'[o] = sync[o]
           /\ sync'[p].pc # "idle" =>
                sync'[p].integ = sync[p].integ /\ sync'[p].feed = sync[p].feed
           /\ sync'[p].pc = "events" =>
                \/ sync'[p].snap = sync[p].snap /\ sync'[p].left \subseteq sync[p].left
                   /\ sync[p].pc = "events"
                \/ sync[p].pc = "list" /\ rows' = rows
                   /\ sync'[p].snap = Snapshot(sync[p].integ)
                   /\ sync'[p].left = Disappeared(sync[p].feed, sync'[p].snap)
<1>0. sync[p] \in Pass /\ sync \in [Syncs -> Pass]  BY PassTyped
<1>1. CASE ListExisting(p)
  <2>1. /\ sync[p].pc = "list" /\ sync'[p].pc = "events" /\ feed' = feed /\ rows' = rows
        /\ sync'[p].integ = sync[p].integ /\ sync'[p].feed = sync[p].feed
        /\ sync'[p].snap = Snapshot(sync[p].integ)
        /\ sync'[p].left = Disappeared(sync[p].feed, Snapshot(sync[p].integ))
    BY <1>0, <1>1 DEF ListExisting, Pass
  <2>2. \A o \in Syncs \ {p} : sync'[o] = sync[o]  BY <1>0, <1>1 DEF ListExisting
  <2> QED  BY <2>1, <2>2
<1>2. ASSUME NEW u \in Uids, PatchEvent(p, u) \/ CreateEvent(p, u)
      PROVE  /\ sync[p].pc = "events" /\ sync'[p] # sync[p] /\ feed' = feed
             /\ \A o \in Syncs \ {p} : sync'[o] = sync[o]
             /\ sync'[p].integ = sync[p].integ /\ sync'[p].feed = sync[p].feed
             /\ sync'[p].snap = sync[p].snap /\ sync'[p].left = sync[p].left
  <2>1. sync[p].pc = "events" /\ u \in sync[p].todo /\ feed' = feed
    BY <1>2 DEF PatchEvent, CreateEvent
  <2>2. PICK ok \in BOOLEAN : Handled(p, u, ok)
    BY <1>2 DEF PatchEvent, CreateEvent, Accepts
  <2>3. sync'[p].todo = sync[p].todo \ {u}  BY <2>2, HandledLocals
  <2>4. sync'[p] # sync[p]  BY <2>1, <2>3
  <2> QED  BY <2>1, <2>2, <2>4, HandledLocals
<1>3. ASSUME NEW r \in Ids, Sweep(p, r)
      PROVE  /\ sync[p].pc = "events" /\ sync'[p] # sync[p] /\ feed' = feed
             /\ \A o \in Syncs \ {p} : sync'[o] = sync[o]
             /\ sync'[p].integ = sync[p].integ /\ sync'[p].feed = sync[p].feed
             /\ sync'[p].snap = sync[p].snap /\ sync'[p].left \subseteq sync[p].left
  <2>1. sync[p].pc = "events" /\ r \in sync[p].left /\ feed' = feed  BY <1>3 DEF Sweep
  <2>2. /\ sync'[p].left = sync[p].left \ {r} /\ sync'[p].snap = sync[p].snap
        /\ sync'[p].integ = sync[p].integ /\ sync'[p].feed = sync[p].feed
    BY <1>0, <1>3 DEF Sweep, Pass
  <2>3. \A o \in Syncs \ {p} : sync'[o] = sync[o]  BY <1>0, <1>3 DEF Sweep
  <2>4. sync'[p] # sync[p]  BY <2>1, <2>2
  <2> QED  BY <2>1, <2>2, <2>3, <2>4
<1>4. ASSUME Finish(p) \/ Abandon(p)
      PROVE  /\ sync[p].pc # "idle" /\ sync'[p].pc = "idle" /\ feed' = feed
             /\ \A o \in Syncs \ {p} : sync'[o] = sync[o]
  BY <1>0, <1>4 DEF Finish, Abandon, PassOver, NoPass
<1> QED  BY <1>1, <1>2, <1>3, <1>4, FailsLocals DEF PassStep

LEMMA TurnsAreSync == TurnsNext => ICalNext
BY DEF TurnsNext, Change, Begin, GoOn, ICalNext, StartBy

\* Others leave the imports of a pass alone: they work on other integrations.
LEMMA OthersElsewhere ==
    ASSUME TurnsInv, NEW o \in Syncs, PassStep(o) \/ StatementFails(o) \/ Abandon(o),
           NEW i \in Integrations, i # sync[o].integ, NEW r \in Ids,
           Import(rows[r], i) \/ Import(rows'[r], i)
    PROVE  rows'[r] = rows[r]
BY OwnWrites, FeedAssumption DEF TurnsInv, Import, NoRow

LEMMA TurnsLeaveAlone ==
    ASSUME TurnsInv, TurnsNext
    PROVE  LeftAlone
<1>1. CASE UNCHANGED rows  BY <1>1 DEF LeftAlone
<1>2. ASSUME NEW o \in Syncs, GoOn(o)  PROVE LeftAlone
  <2> SUFFICES ASSUME NEW p \in Syncs, sync[p].pc = "events", sync'[p] = sync[p], NEW r \in Ids,
                      Import(rows[r], sync[p].integ) \/ Import(rows'[r], sync[p].integ)
               PROVE  rows'[r] = rows[r]
    BY DEF LeftAlone
  <2>1. sync[o].pc # "idle" /\ p # o  BY <1>2, PassLocals DEF GoOn, TurnsInv
  <2>2. sync[p].integ # sync[o].integ  BY <2>1 DEF TurnsInv, OneEach
  <2>3. sync[p].integ \in Integrations  BY PassTyped DEF TurnsInv
  <2> QED  BY <1>2, <2>2, <2>3, OthersElsewhere DEF GoOn
<1> QED
  BY <1>1, <1>2 DEF TurnsNext, Change, Begin, Publish, Fetch

\* A pass over a mirrored feed finds every row as the feed has it.
LEMMA NothingToWrite ==
    ASSUME TurnsInv, NEW p \in Syncs, PassStep(p) \/ StatementFails(p) \/ Abandon(p),
           sync[p].integ \in mirrored
    PROVE  rows' = rows
<1> DEFINE k == sync[p]
           i == sync[p].integ
<1>1. /\ k \in Pass /\ rows \in [Ids -> Row] /\ i \in Integrations /\ i # Nil
      /\ k.feed = feed[i] /\ Following(i, k.feed)
  <2>1. k \in Pass /\ rows \in [Ids -> Row] /\ k.pc # "idle"
    BY PassTyped, PassLocals DEF TurnsInv
  <2> QED  BY <2>1, FeedAssumption DEF TurnsInv, MirroredInv, Fresh
<1>2. k.pc = "events" =>
        /\ k.snap = Snapshot(i) /\ k.left = {} /\ Mirroring(p)
        /\ \A u \in k.todo : k.feed[u].state # "none"
  BY DEF TurnsInv, MirroredInv, Fresh, PassInv, Mirroring
<1>3. ASSUME NEW u \in Uids, PatchEvent(p, u)  PROVE rows' = rows
  <2> DEFINE e == k.feed[u]
  <2>1. PICK r \in Ids :
          /\ k.snap[r].ext = u
          /\ LET v == Patched(k.snap[r], rows[r], e, UnitOf[i])
             IN rows' = rows \/ v # rows[r]
    BY <1>3 DEF PatchEvent
  <2>2. u \in k.todo /\ e.state # "none" /\ Mirroring(p) /\ u # Nil
    BY <1>2, <1>3, FeedAssumption DEF PatchEvent
  <2>3. SameImport(p, r) /\ rows[r] = k.snap[r]
    BY <2>1, <2>2 DEF Mirroring, Known, AsRead
  <2>4. rows[r].ext = u /\ Follows(rows[r], i, e)
    BY <1>1, <2>1, <2>2, <2>3 DEF Following, SameImport, Import
  <2>5. rows[r] \in Row /\ e \in Event  BY <1>1 DEF Pass, Feed
  <2>6. PatchedStatus(rows[r], rows[r], e) = rows[r].status
    BY <2>2, <2>4, <2>5 DEF PatchedStatus, Follows, Event
  <2>7. Patched(rows[r], rows[r], e, UnitOf[i]) = rows[r]
    <3>1. Patched(rows[r], rows[r], e, UnitOf[i]) = 
            [rows[r] EXCEPT !.unit = rows[r].unit, !.from = rows[r].from,
                            !.to = rows[r].to, !.status = rows[r].status]
      BY <2>2, <2>4, <2>6 DEF Patched, Follows
    <3> QED  BY <2>5, <3>1 DEF Row
  <2> QED  BY <2>1, <2>3, <2>7
<1>4. ASSUME NEW u \in Uids, CreateEvent(p, u)  PROVE rows' = rows
  <2>1. k.pc = "events" /\ \A r \in Ids : k.snap[r].ext # u  BY <1>4 DEF CreateEvent
  <2>2. k.feed[u].state # "active"
    <3> SUFFICES ASSUME k.feed[u].state = "active" PROVE FALSE
      OBVIOUS
    <3>1. PICK r \in Ids : Import(rows[r], i) /\ rows[r].ext = u  BY <1>1 DEF Following
    <3>2. k.snap[r] = rows[r]  BY <1>2, <2>1, <3>1 DEF Snapshot, Import
    <3> QED  BY <2>1, <3>1, <3>2
  <2> QED  BY <1>4, <2>2 DEF CreateEvent
<1>5. ASSUME NEW r \in Ids, Sweep(p, r)  PROVE FALSE
  BY <1>2, <1>5 DEF Sweep
<1> QED
  BY <1>3, <1>4, <1>5, FailsLocals DEF TurnsInv, PassStep, ListExisting, Finish, Abandon

\* What is mirrored stays as it is.
LEMMA MirroredStays ==
    ASSUME TurnsInv, NEW p \in Syncs, PassStep(p) \/ StatementFails(p) \/ Abandon(p),
           NEW i \in mirrored
    PROVE  /\ \A r \in Ids : Import(rows[r], i) \/ Import(rows'[r], i) => rows'[r] = rows[r]
           /\ Following(i, feed[i])' /\ Snapshot(i)' = Snapshot(i)
<1>1. i \in Integrations /\ Following(i, feed[i]) /\ feed' = feed
  BY PassLocals DEF TurnsInv, MirroredInv
<1>2. \A r \in Ids : Import(rows[r], i) \/ Import(rows'[r], i) => rows'[r] = rows[r]
  BY <1>1, NothingToWrite, OthersElsewhere
<1>3. Following(i, feed[i])'
  <2> DEFINE f == feed[i]
  <2>1. ASSUME NEW r \in Ids, Import(rows'[r], i), rows'[r].ext # Nil
        PROVE  Follows(rows'[r], i, f[rows'[r].ext])
    BY <1>1, <1>2, <2>1 DEF Following
  <2>2. ASSUME NEW u \in Uids, f[u].state = "active"
        PROVE  \E r \in Ids : Import(rows'[r], i) /\ rows'[r].ext = u
    <3>1. PICK r \in Ids : Import(rows[r], i) /\ rows[r].ext = u
      BY <1>1, <2>2 DEF Following
    <3>2. rows'[r] = rows[r]  BY <1>2, <3>1
    <3> QED  BY <3>1, <3>2
  <2> QED  BY <1>1, <2>1, <2>2 DEF Following, Follows
<1>4. Snapshot(i)' = Snapshot(i)
  BY <1>2 DEF Snapshot, Import
<1> QED  BY <1>2, <1>3, <1>4

LEMMA GoOnKeepsMirrored ==
    ASSUME TurnsInv, NEW p \in Syncs, GoOn(p)
    PROVE  MirroredInv'
<1> DEFINE i == sync[p].integ
           won == PassOver(p) /\ sync[p].clean /\ sync[p].feed = feed[i]
<1>1. /\ PassStep(p) \/ StatementFails(p) \/ Abandon(p)
      /\ mirrored' = IF won THEN mirrored \cup {i} ELSE mirrored
      /\ sync[p].pc # "idle" /\ feed' = feed /\ i \in Integrations
      /\ \A o \in Syncs \ {p} : sync'[o] = sync[o]
      /\ mirrored \subseteq Integrations
  <2>1. PassStep(p) \/ StatementFails(p) \/ Abandon(p)  BY DEF GoOn
  <2> QED  BY <2>1, PassLocals, PassTyped DEF GoOn, TurnsInv, MirroredInv
<1>2. won => UNCHANGED rows /\ Following(i, feed[i]) /\ sync'[p].pc = "idle"
  <2> SUFFICES ASSUME won PROVE UNCHANGED rows /\ Following(i, feed[i]) /\ sync'[p].pc = "idle"
    OBVIOUS
  <2>1. Following(i, feed[i])  BY OverFollows DEF TurnsInv
  <2>2. Finish(p)
    BY <1>1, FailsLocals
    DEF TurnsInv, PassStep, PassOver, Abandon, ListExisting, PatchEvent, CreateEvent, Sweep
  <2>3. sync \in [Syncs -> Pass]  BY PassTyped DEF TurnsInv
  <2> QED  BY <2>1, <2>2, <2>3 DEF Finish, NoPass
<1>3. ASSUME NEW j \in mirrored'  PROVE Following(j, feed[j])'
  <2>1. CASE j \in mirrored  BY <1>1, <2>1, MirroredStays
  <2>2. CASE won /\ j = i
    <3>1. UNCHANGED rows /\ UNCHANGED feed /\ Following(i, feed[i])  BY <1>1, <1>2, <2>2
    <3> QED  BY <2>2, <3>1 DEF Following, Follows
  <2> QED  BY <1>1, <1>3, <2>1, <2>2
<1>4. ASSUME NEW o \in Syncs, sync'[o].pc # "idle", sync'[o].integ \in mirrored'
      PROVE  Fresh(o)'
  <2>1. CASE o # p
    <3>1. sync'[o] = sync[o] /\ sync[o].integ # i  BY <1>1, <1>4, <2>1 DEF TurnsInv, OneEach
    <3>2. sync[o].integ \in mirrored /\ Fresh(o)
      BY <1>1, <1>4, <3>1 DEF TurnsInv, MirroredInv
    <3>3. Snapshot(sync[o].integ)' = Snapshot(sync[o].integ)
      <4> DEFINE j == sync[o].integ
      <4>1. \A r \in Ids : Import(rows[r], j) \/ Import(rows'[r], j) => rows'[r] = rows[r]
        BY <1>1, <3>2, MirroredStays
      <4> QED  BY <3>1, <4>1 DEF Snapshot, Import
    <3> QED  BY <1>1, <3>1, <3>2, <3>3 DEF Fresh
  <2>2. CASE o = p
    <3>1. sync'[p].integ = i /\ sync'[p].feed = sync[p].feed /\ i \in mirrored
      BY <1>1, <1>2, <1>4, <2>2, PassLocals DEF TurnsInv
    <3>2. Fresh(p) /\ rows' = rows /\ Following(i, feed[i])
      BY <1>1, <3>1, NothingToWrite DEF TurnsInv, MirroredInv
    <3>3. Snapshot(sync[p].integ)' = Snapshot(i)  BY <3>1, <3>2 DEF Snapshot
    <3>4. Disappeared(feed[i], Snapshot(i)) = {}
      BY <3>2 DEF Disappeared, Snapshot, NoRow, Following, Follows, Import
    <3>5. sync'[p].pc = "events" => sync'[p].snap = Snapshot(i) /\ sync'[p].left = {}
      <4> SUFFICES ASSUME sync'[p].pc = "events"
                   PROVE  sync'[p].snap = Snapshot(i) /\ sync'[p].left = {}
        OBVIOUS
      <4>1. \/ sync'[p].snap = sync[p].snap /\ sync'[p].left \subseteq sync[p].left
               /\ sync[p].pc = "events"
            \/ /\ sync'[p].snap = Snapshot(i)
               /\ sync'[p].left = Disappeared(sync[p].feed, sync'[p].snap)
        BY <1>1, PassLocals DEF TurnsInv
      <4> QED  BY <3>2, <3>4, <4>1 DEF Fresh
    <3> QED  BY <1>1, <2>2, <3>1, <3>2, <3>3, <3>5 DEF Fresh
  <2> QED  BY <2>1, <2>2
<1> QED  BY <1>1, <1>3, <1>4 DEF MirroredInv

LEMMA TurnsNextInv == TurnsInv /\ [TurnsNext]_turnsVars => TurnsInv'
<1> SUFFICES ASSUME TurnsInv, [TurnsNext]_turnsVars PROVE TurnsInv'
  OBVIOUS
<1>0. sync \in [Syncs -> Pass] /\ feed \in [Integrations -> Feed]
  BY DEF TurnsInv, Sound, PassesTypeOK
<1>1. CASE UNCHANGED turnsVars
  <2>1. PassInv'  BY <1>1, QuietKeepsPassInv DEF TurnsInv, turnsVars
  <2>2. Sound'
    BY <1>1, UnchangedKeepsTable
    DEF turnsVars, TurnsInv, Sound, PassesTypeOK, PassesBound, TableTypeOK
  <2>3. OneEach' /\ MirroredInv'
    BY <1>1 DEF turnsVars, TurnsInv, OneEach, MirroredInv, Fresh, Following, Follows, Snapshot
  <2> QED  BY <2>1, <2>2, <2>3 DEF TurnsInv
<1>2. CASE TurnsNext
  <2>1. Sound'  BY <1>2, TurnsAreSync, PassesKeepSound DEF TurnsInv
  <2>2. PassInv'
    BY <1>2, TurnsAreSync, TurnsLeaveAlone, PassesKeepPassInv DEF TurnsInv
  <2>3. ASSUME NEW i \in Integrations, NEW f \in Feeds, Change(i, f)
        PROVE  OneEach' /\ MirroredInv'
    <3>1. /\ UNCHANGED <<rows, sync>> /\ mirrored' = mirrored \ {i}
          /\ \A j \in Integrations : j # i => feed'[j] = feed[j]
      BY <1>0, <2>3 DEF Change, Publish
    <3>2. OneEach'  BY <3>1 DEF TurnsInv, OneEach
    <3>3. ASSUME NEW j \in mirrored'  PROVE Following(j, feed[j])'
      <4>1. j \in mirrored /\ feed'[j] = feed[j]  BY <3>1, <3>3 DEF TurnsInv, MirroredInv
      <4> QED  BY <3>1, <4>1 DEF TurnsInv, MirroredInv, Following, Follows
    <3>4. ASSUME NEW p \in Syncs, sync'[p].pc # "idle", sync'[p].integ \in mirrored'
          PROVE  Fresh(p)'
      <4>1. /\ sync'[p] = sync[p] /\ sync[p].integ \in mirrored
            /\ feed'[sync[p].integ] = feed[sync[p].integ]
        BY <3>1, <3>4 DEF TurnsInv, MirroredInv
      <4> QED  BY <3>1, <3>4, <4>1 DEF TurnsInv, MirroredInv, Fresh, Snapshot
    <3> QED  BY <3>1, <3>2, <3>3, <3>4 DEF MirroredInv, TurnsInv
  <2>4. ASSUME NEW p \in Syncs, NEW i \in Integrations, NEW by \in {"user", "system"},
               Begin(p, i, by)
        PROVE  OneEach' /\ MirroredInv'
    <3>1. /\ UNCHANGED <<rows, feed, mirrored>>
          /\ \A o \in Syncs : sync[o].integ # i
          /\ \A o \in Syncs \ {p} : sync'[o] = sync[o]
          /\ sync'[p].integ = i /\ sync'[p].feed = feed[i] /\ sync'[p].pc = "list"
      BY <1>0, <2>4 DEF Begin, Fetch, NoPass
    <3>2. OneEach'  BY <3>1 DEF TurnsInv, OneEach
    <3>3. ASSUME NEW j \in mirrored'  PROVE Following(j, feed[j])'
      BY <3>1, <3>3 DEF TurnsInv, MirroredInv, Following, Follows
    <3>4. ASSUME NEW o \in Syncs, sync'[o].pc # "idle", sync'[o].integ \in mirrored'
          PROVE  Fresh(o)'
      <4>1. CASE o = p  BY <3>1, <4>1 DEF Fresh
      <4>2. CASE o # p
        BY <3>1, <3>4, <4>2 DEF TurnsInv, MirroredInv, Fresh, Snapshot
      <4> QED  BY <4>1, <4>2
    <3> QED  BY <3>1, <3>2, <3>3, <3>4 DEF MirroredInv, TurnsInv
  <2>5. ASSUME NEW p \in Syncs, GoOn(p)  PROVE OneEach' /\ MirroredInv'
    <3>1. /\ sync[p].pc # "idle" /\ \A o \in Syncs \ {p} : sync'[o] = sync[o]
          /\ sync'[p].pc # "idle" => sync'[p].integ = sync[p].integ
      BY <2>5, PassLocals DEF GoOn, TurnsInv
    <3>2. OneEach'
      <4> SUFFICES ASSUME NEW o \in Syncs, NEW t \in Syncs, o # t,
                          sync'[o].pc # "idle", sync'[t].pc # "idle"
                   PROVE  sync'[o].integ # sync'[t].integ
        BY DEF OneEach
      <4>1. \A s \in {o, t} : sync[s].pc # "idle" /\ sync'[s].integ = sync[s].integ
        BY <3>1
      <4> QED  BY <4>1 DEF TurnsInv, OneEach
    <3> QED  BY <2>5, <3>2, GoOnKeepsMirrored
  <2>6. OneEach' /\ MirroredInv'  BY <1>2, <2>3, <2>4, <2>5 DEF TurnsNext
  <2> QED  BY <2>1, <2>2, <2>6 DEF TurnsInv
<1> QED  BY <1>1, <1>2

LEMMA TurnsInitInv == TurnsInit => TurnsInv
<1> SUFFICES ASSUME TurnsInit PROVE TurnsInv
  OBVIOUS
<1>1. Sound
  BY NoPassTyped DEF TurnsInit, Sound, PassesTypeOK, TableInv, TableTypeOK, PassesBound, NoPass
<1>2. PassInv  BY DEF TurnsInit, PassInv, Bare, NoPass
<1>3. OneEach /\ MirroredInv  BY DEF TurnsInit, OneEach, MirroredInv, NoPass
<1> QED  BY <1>1, <1>2, <1>3 DEF TurnsInv

\* The inductive invariant of passes that take turns: of an integration that
\* has been mirrored every row is as the feed says, and a pass of it under
\* way holds that feed and those rows.
THEOREM TurnsInvariant == TurnsSpec => []TurnsInv
BY TurnsInitInv, TurnsNextInv, PTL DEF TurnsSpec

\* Passes that take turns, whatever the table and the feeds: each one without
\* a conflict mirrors its feed, other integrations of the unit or not.
THEOREM TurnsMirrorFeed == TurnsSpec => []CleanPassMirrorsFeed
<1>1. TurnsInv => CleanPassMirrorsFeed
  BY OverMirrors DEF TurnsInv
<1> QED  BY <1>1, TurnsInvariant, PTL

\* Pressing sync again is harmless: over a feed that was mirrored no pass
\* changes a row, for every feed and table.
THEOREM SyncingTwiceChangesNothing == TurnsSpec => SyncIdempotent
<1> DEFINE Quiet == \A p \in Syncs : sync[p].integ \in mirrored /\ sync'[p] # sync[p]
                                       => rows' = rows
<1>1. ASSUME TurnsInv, TurnsNext  PROVE Quiet
  <2>1. ASSUME NEW o \in Syncs, GoOn(o)  PROVE Quiet
    <3> SUFFICES ASSUME NEW p \in Syncs, sync[p].integ \in mirrored, sync'[p] # sync[p]
                 PROVE  rows' = rows
      OBVIOUS
    <3>1. p = o  BY <2>1, <1>1, PassLocals DEF GoOn, TurnsInv
    <3> QED  BY <1>1, <2>1, <3>1, NothingToWrite DEF GoOn
  <2> QED  BY <1>1, <2>1 DEF TurnsNext, Change, Begin, Publish, Fetch
<1>2. TurnsInv /\ [TurnsNext]_turnsVars => [Quiet]_turnsVars
  BY <1>1
<1> QED  BY <1>2, TurnsInvariant, PTL DEF TurnsSpec, SyncIdempotent

\* Passes that take turns end no stay of a guest who is or was in house,
\* unless the channel's event itself is cancelled.
THEOREM TurnsSpareGuests == TurnsSpec => InHouseStaysKept
<1>1. TurnsInv /\ [TurnsNext]_turnsVars => [InHouseKept]_syncVars
  <2> SUFFICES ASSUME TurnsInv, [TurnsNext]_turnsVars PROVE [InHouseKept]_syncVars
    OBVIOUS
  <2>1. CASE UNCHANGED turnsVars  BY <2>1 DEF turnsVars, syncVars
  <2>2. CASE TurnsNext  BY <2>2, TurnsAreSync, StepKeepsGuests DEF TurnsInv
  <2> QED  BY <2>1, <2>2
<1> QED  BY <1>1, TurnsInvariant, PTL DEF TurnsSpec, InHouseStaysKept

===============================================================================
