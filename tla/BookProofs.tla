----------------------------- MODULE BookProofs -----------------------------
(***************************************************************************)
(* More about the reservation book, from the invariant of                  *)
(* ReservationProofs: it implements Occupancy, and operators' reservations *)
(* only get statuses they are entitled to.                                 *)
(***************************************************************************)
EXTENDS ReservationProofs

-----------------------------------------------------------------------------
(* Nights.                                                                 *)

\* Row r of the table T holds night n of unit u.
Holds(T, r, u, n) ==
    /\ T[r].status \in {"pending", "confirmed", "checked_in"}
    /\ T[r].unit = u
    /\ T[r].from <= n /\ n < T[r].to

HolderIn(T, u, n) ==
    LET holders == {r \in Ids : Holds(T, r, u, n)}
    IN IF holders = {} THEN Nil ELSE CHOOSE r \in holders : TRUE

\* No night of T is sold twice.
SoldOnce(T) ==
    \A u, n : n \in Nat => \A r, s \in Ids : Holds(T, r, u, n) /\ Holds(T, s, u, n) => r = s

LEMMA HolderKnown ==
    ASSUME NEW T, SoldOnce(T), NEW u, NEW n \in Nat, NEW r \in Ids, Holds(T, r, u, n)
    PROVE  HolderIn(T, u, n) = r
<1> DEFINE holders == {s \in Ids : Holds(T, s, u, n)}
<1>1. holders = {r}  BY DEF SoldOnce
<1>2. (CHOOSE s \in holders : TRUE) = r  BY <1>1
<1> QED  BY <1>1, <1>2 DEF HolderIn

LEMMA NoHolder ==
    ASSUME NEW T, NEW u, NEW n, \A r \in Ids : ~Holds(T, r, u, n)
    PROVE  HolderIn(T, u, n) = Nil
<1>1. {r \in Ids : Holds(T, r, u, n)} = {}  OBVIOUS
<1> QED  BY <1>1 DEF HolderIn

LEMMA TableSoldOnce ==
    ASSUME TableInv
    PROVE  SoldOnce(rows)
<1> SUFFICES ASSUME NEW u, NEW n \in Nat, NEW r \in Ids, NEW s \in Ids,
                    Holds(rows, r, u, n), Holds(rows, s, u, n), r # s
             PROVE  FALSE
  BY DEF SoldOnce
<1>1. /\ rows[r].from \in Nat /\ rows[r].to \in Nat
      /\ rows[s].from \in Nat /\ rows[s].to \in Nat
  BY LastDayAssumption DEF TableInv, TableTypeOK, Row, Day
<1>2. rows[r].to <= rows[s].from \/ rows[s].to <= rows[r].from
  BY DEF TableInv, NoDoubleBooking, Holds
<1> QED  BY <1>1, <1>2 DEF Holds

LEMMA TableSoldOnceNext ==
    ASSUME TableInv'
    PROVE  SoldOnce(rows')
<1> SUFFICES ASSUME NEW u, NEW n \in Nat, NEW r \in Ids, NEW s \in Ids,
                    Holds(rows', r, u, n), Holds(rows', s, u, n), r # s
             PROVE  FALSE
  BY DEF SoldOnce
<1>1. /\ rows'[r].from \in Nat /\ rows'[r].to \in Nat
      /\ rows'[s].from \in Nat /\ rows'[s].to \in Nat
  BY LastDayAssumption DEF TableInv, TableTypeOK, Row, Day
<1>2. rows'[r].to <= rows'[s].from \/ rows'[s].to <= rows'[r].from
  BY DEF TableInv, NoDoubleBooking, Holds
<1> QED  BY <1>1, <1>2 DEF Holds

LEMMA HolderIsHolderIn ==
    ASSUME NEW u, NEW n
    PROVE  /\ Holder(u, n) = HolderIn(rows, u, n)
           /\ Holder(u, n)' = HolderIn(rows', u, n)
BY DEF Holder, HolderIn, Holds

\* The nights as Occupancy sees them.
Occ == [u \in Units |-> [n \in Nights |-> Holder(u, n)]]

LEMMA OccAt ==
    /\ \A u \in Units, n \in Nights : Occ[u][n] = HolderIn(rows, u, n)
    /\ Occ' = [u \in Units |-> [n \in Nights |-> HolderIn(rows', u, n)]]
BY HolderIsHolderIn DEF Occ

\* One accepted write, seen from the nights: the row gives up what it held
\* and holds the nights of its new value, if it holds any.
LEMMA WriteHoldsOrVacates ==
    ASSUME TableInv, TableInv', NEW r \in Ids, NEW v \in Row, Accepts(r, v),
           rows' = [rows EXCEPT ![r] = v]
    PROVE  Promise!OccupancyNext
<1> USE DEF TableInv, TableTypeOK
<1>1. \A s \in Ids : rows'[s] = IF s = r THEN v ELSE rows[s]  OBVIOUS
<1>2. \A n \in Nights : n \in Nat  BY LastDayAssumption DEF Nights
<1>3. SoldOnce(rows) /\ SoldOnce(rows')  BY TableSoldOnce, TableSoldOnceNext
<1>4. v.from \in Day /\ v.to \in Day /\ v.from < v.to  BY DEF Row, Accepts
\* Nights that r does not hold afterwards.
<1>5. ASSUME NEW u \in Units, NEW n \in Nights, ~Holds(rows', r, u, n)
      PROVE  HolderIn(rows', u, n) =
               IF HolderIn(rows, u, n) = r THEN Nil ELSE HolderIn(rows, u, n)
  <2>1. CASE \E s \in Ids \ {r} : Holds(rows, s, u, n)
    <3>1. PICK s \in Ids \ {r} : Holds(rows, s, u, n)  BY <2>1
    <3>2. Holds(rows', s, u, n)  BY <1>1, <3>1 DEF Holds
    <3>3. HolderIn(rows, u, n) = s /\ HolderIn(rows', u, n) = s
      BY <1>2, <1>3, <3>1, <3>2, HolderKnown
    <3> QED  BY <3>1, <3>3
  <2>2. CASE ~\E s \in Ids \ {r} : Holds(rows, s, u, n)
    <3>1. \A s \in Ids : ~Holds(rows', s, u, n)  BY <1>1, <1>5, <2>2 DEF Holds
    <3>2. HolderIn(rows', u, n) = Nil  BY <3>1, NoHolder
    <3>3. CASE Holds(rows, r, u, n)
      <4>1. HolderIn(rows, u, n) = r  BY <1>2, <1>3, <3>3, HolderKnown
      <4> QED  BY <3>2, <4>1
    <3>4. CASE ~Holds(rows, r, u, n)
      <4>1. \A s \in Ids : ~Holds(rows, s, u, n)  BY <2>2, <3>4
      <4>2. HolderIn(rows, u, n) = Nil  BY <4>1, NoHolder
      <4> QED  BY <3>2, <4>2
    <3> QED  BY <3>3, <3>4
  <2> QED  BY <2>1, <2>2
<1>6. CASE v.status \in ActiveStatuses /\ v.unit \in Units
  <2> DEFINE u == v.unit
             from == v.from
             to == v.to
  <2>1. \A w \in Units, n \in Nights : Holds(rows', r, w, n) <=> w = u /\ n \in from..(to - 1)
    BY <1>1, <1>2, <1>4, <1>6, LastDayAssumption DEF Holds, ActiveStatuses, Day, Nights
  <2>2. ASSUME NEW n \in from..(to - 1)
        PROVE  n \in Nights /\ HolderIn(rows, u, n) \in {Nil, r}
    <3>1. n \in Nights /\ n \in Nat
      BY <1>4, LastDayAssumption DEF Nights, Day
    <3>2. ASSUME NEW s \in Ids \ {r}, Holds(rows, s, u, n)  PROVE FALSE
      <4>1. rows[s].from \in Nat /\ rows[s].to \in Nat /\ v.from \in Nat /\ v.to \in Nat
        BY <1>4, LastDayAssumption DEF Row, Day
      <4>2. Clash(v, rows[s])
        BY <1>4, <1>6, <3>1, <3>2, <4>1 DEF Clash, Overlap, Holds, ActiveStatuses
      <4> QED  BY <4>2 DEF Accepts
    <3>3. CASE Holds(rows, r, u, n)
      BY <1>3, <3>1, <3>3, HolderKnown
    <3>4. CASE ~Holds(rows, r, u, n)
      <4>1. \A s \in Ids : ~Holds(rows, s, u, n)  BY <3>2, <3>4
      <4>2. HolderIn(rows, u, n) = Nil  BY <4>1, NoHolder
      <4> QED  BY <3>1, <4>2
    <3> QED  BY <3>1, <3>3, <3>4
  <2>3. ASSUME NEW w \in Units, NEW n \in Nights
        PROVE  HolderIn(rows', w, n) =
                 IF w = u /\ n \in from..(to - 1) THEN r
                 ELSE IF HolderIn(rows, w, n) = r THEN Nil ELSE HolderIn(rows, w, n)
    <3>1. CASE w = u /\ n \in from..(to - 1)
      <4>1. Holds(rows', r, w, n)  BY <2>1, <3>1
      <4> QED  BY <1>2, <1>3, <3>1, <4>1, HolderKnown
    <3>2. CASE ~(w = u /\ n \in from..(to - 1))
      <4>1. ~Holds(rows', r, w, n)  BY <2>1, <3>2
      <4> QED  BY <1>5, <3>2, <4>1
    <3> QED  BY <3>1, <3>2
  <2>4. from \in Nights /\ to \in {n + 1 : n \in Nights} /\ u \in Units
    <3>1. from \in Nights /\ (to - 1) \in Nights /\ to = (to - 1) + 1
      BY <1>4, LastDayAssumption DEF Nights, Day
    <3> QED  BY <1>6, <3>1
  <2>5. Promise!Hold(r, u, from, to)
    <3>1. \A n \in from..(to - 1) : Occ[u][n] \in {Nil, r}
      BY <2>2, <2>4, OccAt
    <3>2. Occ' = [w \in Units |-> [n \in Nights |->
                    IF w = u /\ n \in from..(to - 1) THEN r
                    ELSE IF Occ[w][n] = r THEN Nil ELSE Occ[w][n]]]
      <4>1. ASSUME NEW w \in Units
            PROVE  [n \in Nights |-> HolderIn(rows', w, n)] =
                   [n \in Nights |-> IF w = u /\ n \in from..(to - 1) THEN r
                                     ELSE IF Occ[w][n] = r THEN Nil ELSE Occ[w][n]]
        <5>1. ASSUME NEW n \in Nights
              PROVE  HolderIn(rows', w, n) =
                       IF w = u /\ n \in from..(to - 1) THEN r
                       ELSE IF Occ[w][n] = r THEN Nil ELSE Occ[w][n]
          BY <2>3, OccAt
        <5> QED  BY <5>1
      <4> QED  BY <4>1, OccAt
    <3> HIDE DEF u, from, to
    <3> QED  BY <3>1, <3>2 DEF Promise!Hold, Occ
  <2> QED  BY <1>4, <2>4, <2>5 DEF Promise!OccupancyNext
<1>7. CASE ~(v.status \in ActiveStatuses /\ v.unit \in Units)
  <2>1. \A u \in Units, n \in Nights : ~Holds(rows', r, u, n)
    BY <1>1, <1>7 DEF Holds, ActiveStatuses
  <2>2. Promise!Vacate(r)
    <3>1. Occ' = [u \in Units |-> [n \in Nights |->
                    IF Occ[u][n] = r THEN Nil ELSE Occ[u][n]]]
      <4>1. ASSUME NEW u \in Units
            PROVE  [n \in Nights |-> HolderIn(rows', u, n)] =
                   [n \in Nights |-> IF Occ[u][n] = r THEN Nil ELSE Occ[u][n]]
        <5>1. ASSUME NEW n \in Nights
              PROVE  HolderIn(rows', u, n) = IF Occ[u][n] = r THEN Nil ELSE Occ[u][n]
          BY <1>5, <2>1, OccAt
        <5> QED  BY <5>1
      <4> QED  BY <4>1, OccAt
    <3> QED  BY <3>1 DEF Promise!Vacate, Occ
  <2> QED  BY <2>2 DEF Promise!OccupancyNext
<1> QED  BY <1>6, <1>7

-----------------------------------------------------------------------------
(* What requests and passes write.                                         *)

\* Handlers write new rows; passes write rows that are imported; requests
\* move a row to a status that one of its earlier ones led to.
Entitled(r, v) ==
    \/ ~Exists(r) /\ v.status # "absent"
    \/ /\ Exists(r) /\ v.status # "absent"
       /\ rows[r].source = "ical" /\ v.source = "ical"
    \/ /\ Exists(r)
       /\ \E s \in Statuses, p \in been[r] :
             v = [rows[r] EXCEPT !.status = s] /\ allowed_transition(p, s)

Write(r, v) == Accepts(r, v) /\ rows' = [rows EXCEPT ![r] = v] /\ Entitled(r, v)

Writes == UNCHANGED rows \/ \E r \in Ids, v \in Row : Write(r, v)

\* Ids not inserted yet have no past; the others remember their status.
PastKnown ==
    \A r \in Ids : /\ ~Exists(r) => rows[r].source = "manual" /\ been[r] = {}
                   /\ Exists(r) => rows[r].status \in been[r]

\* A request about to write has read a status that led to the one it writes.
Decided ==
    \A q \in Requests : req[q].pc = "write" =>
        /\ Exists(req[q].id)
        /\ \E p \in been[req[q].id] : allowed_transition(p, req[q].want)

\* A pass only has imported rows in hand.
ImportsInHand ==
    \A p \in Syncs, r \in Ids :
        \/ sync[p].snap[r].ext # Nil
        \/ r \in sync[p].left
        => rows[r].source = "ical"

HistoryInv == PastKnown /\ EveryStatusEarned /\ Decided /\ ImportsInHand

\* Rows stay, keep their source and remember.
RowsGrow ==
    \A r \in Ids :
        /\ Exists(r) => Exists(r)' /\ rows'[r].source = rows[r].source
        /\ been[r] \subseteq been'[r]

LEMMA RequestWrites ==
    ASSUME IInv, HistoryInv, NEW q \in Requests, RequestStep(q)
    PROVE  Writes
<1> USE DEF IInv
<1>0. rows \in [Ids -> Row] /\ req \in [Requests -> Request]
  BY DEF BookTypeOK, PassesTypeOK, TableTypeOK
<1>1. ASSUME CreateInsert(q) PROVE Writes
  <2>1. req[q].payload \in Row /\ req[q].payload.status # "absent"
    BY <1>1, PayloadsAssumption DEF CreateInsert, LocalsBound
  <2> QED
    BY <1>1, <2>1 DEF CreateInsert, InsertRow, InsertRefused, Writes, Write, Entitled
<1>2. ASSUME TransitionWrite(q) PROVE Writes
  <2>1. req[q].id \in Ids /\ req[q].want \in Statuses
    BY <1>2 DEF TransitionWrite, LocalsBound
  <2>2. PICK r \in Ids, s \in Statuses : r = req[q].id /\ s = req[q].want  BY <2>1
  <2>3. PICK v \in Row : v = [rows[r] EXCEPT !.status = s]  BY <1>0 DEF Row
  <2>4. Exists(r) /\ \E p \in been[r] : allowed_transition(p, s)
    BY <1>2, <2>2 DEF TransitionWrite, HistoryInv, Decided
  <2>5. Entitled(r, v)  BY <2>3, <2>4 DEF Entitled
  <2>6. UpdateRow(r, v)  BY <1>2, <2>2, <2>3 DEF TransitionWrite
  <2> QED  BY <2>5, <2>6 DEF UpdateRow, Writes, Write
<1> QED
  BY <1>1, <1>2 DEF RequestStep, CreateCheck, TransitionRead, Crash, Writes

LEMMA PassWrites ==
    ASSUME IInv, HistoryInv, SyncStep
    PROVE  Writes
<1> USE DEF IInv
<1>0. /\ rows \in [Ids -> Row]
      /\ sync \in [Syncs -> Pass] /\ feed \in [Integrations -> Feed]
  BY DEF BookTypeOK, PassesTypeOK, TableTypeOK
<1>1. ASSUME NEW p \in Syncs, NEW u \in Uids, PatchEvent(p, u) PROVE Writes
  <2>1. PICK r \in Ids :
          /\ sync[p].snap[r].ext = u
          /\ LET v == Patched(sync[p].snap[r], rows[r], sync[p].feed[u], UnitOf[sync[p].integ])
             IN UNCHANGED rows \/ UpdateRow(r, v)
    BY <1>1 DEF PatchEvent
  <2>2. sync[p].integ \in Integrations  BY <1>1 DEF LocalsBound, PassesBound, PatchEvent
  <2>3. PICK v \in Row :
          v = Patched(sync[p].snap[r], rows[r], sync[p].feed[u], UnitOf[sync[p].integ])
    BY <1>0, <2>2, PatchedTyped, FeedAssumption DEF Pass, Feed
  <2>4. rows[r].source = "ical"
    BY <2>1, FeedAssumption DEF HistoryInv, ImportsInHand
  <2>5. Exists(r)  BY <2>4 DEF HistoryInv, PastKnown, Exists
  <2>6. v.source = "ical"  BY <1>0, <2>3, <2>4 DEF Patched, Row
  <2>7. v.status # "absent"
    <3>1. v.status = PatchedStatus(sync[p].snap[r], rows[r], sync[p].feed[u])
      BY <1>0, <2>3 DEF Patched, Row
    <3> QED  BY <2>5, <3>1 DEF PatchedStatus, Exists
  <2>8. Entitled(r, v)  BY <2>4, <2>5, <2>6, <2>7 DEF Entitled
  <2>9. UNCHANGED rows \/ UpdateRow(r, v)  BY <2>1, <2>3
  <2> QED  BY <2>8, <2>9 DEF UpdateRow, Writes, Write
<1>2. ASSUME NEW p \in Syncs, NEW u \in Uids, CreateEvent(p, u) PROVE Writes
  <2>1. sync[p].integ \in Integrations  BY <1>2 DEF LocalsBound, PassesBound, CreateEvent
  <2>2. PICK v \in Row : v = Imported(sync[p].integ, u, sync[p].feed[u])
    BY <1>0, <2>1, ImportedTyped DEF Pass, Feed
  <2>3. v.status # "absent"  BY <2>2 DEF Imported
  <2>4. InsertRow(v) \/ UNCHANGED rows
    BY <1>2, <2>2 DEF CreateEvent, InsertRefused
  <2> QED  BY <2>3, <2>4 DEF InsertRow, Writes, Write, Entitled
<1>3. ASSUME NEW p \in Syncs, NEW r \in Ids, Sweep(p, r) PROVE Writes
  <2>1. PICK v \in Row : v = [rows[r] EXCEPT !.status = "cancelled"]
    BY <1>0 DEF Row, Statuses
  <2>2. rows[r].source = "ical" /\ Exists(r)
    BY <1>3 DEF Sweep, HistoryInv, ImportsInHand, PastKnown, Exists
  <2>3. v.source = "ical" /\ v.status = "cancelled"  BY <1>0, <2>1, <2>2 DEF Row
  <2>4. Entitled(r, v)  BY <2>2, <2>3 DEF Entitled
  <2>5. UpdateRow(r, v)  BY <1>3, <2>1 DEF Sweep
  <2> QED  BY <2>4, <2>5 DEF UpdateRow, Writes, Write
<1>4. CASE \E i \in Integrations, f \in Feeds : Publish(i, f)
  BY <1>4 DEF Publish, Writes
<1>5. CASE StartBy("user") \/ StartBy("system")
  BY <1>5 DEF StartBy, Fetch, Writes
<1>6. CASE \E p \in Syncs : PassStep(p) \/ Abandon(p)
  BY <1>1, <1>2, <1>3, <1>6 DEF PassStep, ListExisting, Finish, Abandon, Writes
<1>7. CASE \E p \in Syncs : StatementFails(p)
  BY <1>7 DEF StatementFails, PatchFails, InsertFails, SweepFails, Writes
<1> QED  BY <1>4, <1>5, <1>6, <1>7 DEF SyncStep, ICalNext

-----------------------------------------------------------------------------
(* Statuses.                                                               *)

\* A past in which each status but one has another that led to it.
Rightful(past) ==
    \E first \in Statuses : \A s \in past \ {first} :
        \E p \in past : allowed_transition(p, s)

LEMMA Allowed ==
    ASSUME NEW p, NEW s
    PROVE  allowed_transition(p, s) <=>
               \/ p = "pending"    /\ s \in {"confirmed", "cancelled"}
               \/ p = "confirmed"  /\ s \in {"checked_in", "cancelled", "no_show"}
               \/ p = "checked_in" /\ s = "checked_out"
BY DEF allowed_transition

LEMMA OneMoreRightful ==
    ASSUME NEW past, Rightful(past), NEW s, NEW p \in past, allowed_transition(p, s)
    PROVE  Rightful(past \cup {s})
<1>1. PICK first \in Statuses : \A t \in past \ {first} : \E o \in past : allowed_transition(o, t)
  BY DEF Rightful
<1>2. \A t \in (past \cup {s}) \ {first} : \E o \in past \cup {s} : allowed_transition(o, t)
  BY <1>1
<1> QED  BY <1>2 DEF Rightful

LEMMA EarnedIsRightful ==
    ASSUME EveryStatusEarned, NEW r \in Ids, rows[r].source = "manual"
    PROVE  Rightful(been[r])
BY Allowed DEF EveryStatusEarned, Rightful

LEMMA RightfulIsEarned ==
    ASSUME \A r \in Ids : rows'[r].source = "manual" => Rightful(been'[r])
    PROVE  EveryStatusEarned'
BY Allowed DEF EveryStatusEarned, Rightful

\* Entitled writes leave the rows' past in order.
LEMMA WritesKeepPast ==
    ASSUME IInv, PastKnown, EveryStatusEarned, Writes,
           Remember \/ UNCHANGED <<rows, been>>
    PROVE  PastKnown' /\ EveryStatusEarned' /\ RowsGrow
<1> USE DEF IInv
<1>0. rows \in [Ids -> Row] /\ been \in [Ids -> SUBSET Statuses]
  BY DEF BookTypeOK, PassesTypeOK, TableTypeOK
<1>1. CASE UNCHANGED <<rows, been>>
  BY <1>1 DEF PastKnown, EveryStatusEarned, RowsGrow, Exists
<1>2. ASSUME Remember, UNCHANGED rows  PROVE UNCHANGED been
  <2>1. \A r \in Ids : been[r] \cup ({rows'[r].status} \ {"absent"}) = been[r]
    BY <1>2 DEF PastKnown, Exists
  <2> QED  BY <1>0, <1>2, <2>1 DEF Remember
<1>3. ASSUME Remember, NEW r \in Ids, NEW v \in Row, Write(r, v)
      PROVE  PastKnown' /\ EveryStatusEarned' /\ RowsGrow
  <2>1. \A t \in Ids : rows'[t] = IF t = r THEN v ELSE rows[t]
    BY <1>0, <1>3 DEF Write
  <2>2. v.status # "absent" /\ v.status \in Statuses
    <3>1. v.status # "absent"
      <4>1. ASSUME NEW s \in Statuses, v = [rows[r] EXCEPT !.status = s]
            PROVE  v.status # "absent"
        BY <1>0, <4>1 DEF Row, Statuses
      <4> QED  BY <1>3, <4>1 DEF Write, Entitled
    <3> QED  BY <3>1 DEF Row
  <2>3. been'[r] = been[r] \cup {v.status}
    BY <1>3, <2>1, <2>2 DEF Remember
  <2>4. ASSUME NEW t \in Ids, t # r  PROVE been'[t] = been[t]
    BY <1>3, <2>1, <2>4 DEF Remember, PastKnown, Exists
  <2>5. PastKnown'
    BY <2>1, <2>2, <2>3, <2>4 DEF PastKnown, Exists
  <2>6. Exists(r) => v.source = rows[r].source
    BY <1>0, <1>3 DEF Write, Entitled, Row
  <2>7. RowsGrow
    BY <2>1, <2>2, <2>3, <2>4, <2>6 DEF RowsGrow, Exists
  <2>8. ASSUME NEW t \in Ids, rows'[t].source = "manual"  PROVE Rightful(been'[t])
    <3>1. CASE t # r
      BY <2>1, <2>4, <2>8, <3>1, EarnedIsRightful
    <3>2. CASE t = r /\ ~Exists(r)
      <4>1. been'[t] = {v.status}  BY <2>3, <3>2 DEF PastKnown, Exists
      <4> QED  BY <2>2, <4>1 DEF Rightful
    <3>3. CASE t = r /\ Exists(r)
      <4>1. rows[r].source = "manual"  BY <2>1, <2>6, <2>8, <3>3
      <4>2. PICK s \in Statuses, p \in been[r] :
              v = [rows[r] EXCEPT !.status = s] /\ allowed_transition(p, s)
        BY <1>3, <3>3, <4>1 DEF Write, Entitled
      <4>3. v.status = s  BY <1>0, <4>2 DEF Row
      <4>4. Rightful(been[r])  BY <4>1, EarnedIsRightful
      <4> QED  BY <2>3, <3>3, <4>2, <4>3, <4>4, OneMoreRightful
    <3> QED  BY <3>1, <3>2, <3>3
  <2>9. EveryStatusEarned'  BY <2>8, RightfulIsEarned
  <2> QED  BY <2>5, <2>7, <2>9
<1> QED  BY <1>1, <1>2, <1>3 DEF Writes

LEMMA RequestKeepsHistory ==
    ASSUME IInv, HistoryInv, NEW q \in Requests, RequestStep(q)
    PROVE  HistoryInv'
<1> USE DEF IInv, HistoryInv
<1>0. req \in [Requests -> Request]  BY DEF BookTypeOK
<1>1. Remember \/ UNCHANGED <<rows, been>>
  BY DEF RequestStep, CreateCheck, CreateInsert, TransitionRead, TransitionWrite, Crash
<1>2. PastKnown' /\ EveryStatusEarned' /\ RowsGrow
  BY <1>1, RequestWrites, WritesKeepPast
<1>3. UNCHANGED sync
  BY DEF RequestStep, CreateCheck, CreateInsert, TransitionRead, TransitionWrite, Crash
<1>4. ImportsInHand'
  BY <1>2, <1>3 DEF ImportsInHand, RowsGrow, PastKnown, Exists
<1>a. ASSUME NEW o \in Requests, req'[o] = req[o], req[o].pc = "write"
      PROVE  /\ Exists(req[o].id)'
             /\ (\E p \in been[req[o].id] : allowed_transition(p, req[o].want))'
  <2>1. req[o].id \in Ids  BY <1>a DEF LocalsBound
  <2> QED  BY <1>2, <1>a, <2>1 DEF Decided, RowsGrow, Exists
<1>b. ASSUME req'[q].pc # "write", \A o \in Requests : o # q => req'[o] = req[o]
      PROVE  Decided'
  BY <1>a, <1>b DEF Decided
<1>5. Decided'
  <2>1. CASE Done(q)
    BY <1>0, <1>b, <2>1 DEF Done, NoRequest
  <2>2. ASSUME NEW v \in Payloads, CreateCheck(q, v)  PROVE Decided'
    BY <1>0, <1>b, <2>2 DEF CreateCheck, NoRequest
  <2>3. ASSUME NEW r \in Ids, NEW s \in Statuses, TransitionRead(q, r, s)  PROVE Decided'
    <3>1. Exists(r)' /\ rows[r].status \in been'[r] /\ allowed_transition(rows[r].status, s)
      BY <1>2, <2>3 DEF TransitionRead, RowsGrow, PastKnown
    <3>2. req'[q].id = r /\ req'[q].want = s
      BY <1>0, <2>3 DEF TransitionRead, NoRequest
    <3>3. \A o \in Requests : o # q => req'[o] = req[o]
      BY <1>0, <2>3 DEF TransitionRead
    <3> QED  BY <1>a, <3>1, <3>2, <3>3 DEF Decided
  <2> QED
    BY <2>1, <2>2, <2>3 DEF RequestStep, CreateInsert, TransitionWrite, Crash
<1> QED  BY <1>2, <1>4, <1>5

LEMMA PassKeepsHistory ==
    ASSUME IInv, HistoryInv, SyncStep
    PROVE  HistoryInv'
<1> USE DEF IInv, HistoryInv
<1>0. sync \in [Syncs -> Pass] /\ rows \in [Ids -> Row]
  BY DEF BookTypeOK, PassesTypeOK, TableTypeOK
<1>1. PastKnown' /\ EveryStatusEarned' /\ RowsGrow
  BY PassWrites, WritesKeepPast DEF SyncStep
<1>2. Decided'
  <2>1. UNCHANGED req  BY DEF SyncStep
  <2>2. \A q \in Requests : req[q].pc = "write" => req[q].id \in Ids  BY DEF LocalsBound
  <2> QED  BY <1>1, <2>1, <2>2 DEF Decided, RowsGrow, Exists
\* What pass p may have in hand after a step of p.
<1>a. ASSUME NEW p \in Syncs, \A o \in Syncs : o # p => sync'[o] = sync[o],
             \A r \in Ids : /\ sync'[p].snap[r].ext # Nil => rows[r].source = "ical"
                            /\ r \in sync'[p].left => rows[r].source = "ical"
      PROVE  ImportsInHand'
  BY <1>1, <1>a DEF ImportsInHand, RowsGrow, PastKnown, Exists
<1>b. ASSUME NEW p \in Syncs, \A o \in Syncs : o # p => sync'[o] = sync[o],
             sync'[p].snap = sync[p].snap, sync'[p].left \subseteq sync[p].left
      PROVE  ImportsInHand'
  BY <1>a, <1>b DEF ImportsInHand
<1>c. ASSUME UNCHANGED sync  PROVE ImportsInHand'
  BY <1>1, <1>c DEF ImportsInHand, RowsGrow, PastKnown, Exists
<1>3. ASSUME NEW i \in Integrations, NEW f \in Feeds, Publish(i, f)
      PROVE  ImportsInHand'
  BY <1>c, <1>3 DEF Publish
<1>4. ASSUME NEW p \in Syncs, sync'[p].snap = [r \in Ids |-> NoRow], sync'[p].left = {},
             \A o \in Syncs : o # p => sync'[o] = sync[o]
      PROVE  ImportsInHand'
  BY <1>a, <1>4 DEF NoRow
<1>5. ASSUME NEW p \in Syncs, NEW i \in Integrations, NEW by \in {"user", "system"}, Fetch(p, i, by)
      PROVE  ImportsInHand'
  BY <1>0, <1>4, <1>5 DEF Fetch, NoPass
<1>6. ASSUME NEW p \in Syncs, sync' = [sync EXCEPT ![p] = NoPass]
      PROVE  ImportsInHand'
  BY <1>0, <1>4, <1>6 DEF NoPass
<1>7. ASSUME NEW p \in Syncs, ListExisting(p)  PROVE ImportsInHand'
  <2>1. /\ sync'[p].snap = Snapshot(sync[p].integ)
        /\ sync'[p].left = Disappeared(sync[p].feed, Snapshot(sync[p].integ))
        /\ \A o \in Syncs : o # p => sync'[o] = sync[o]
    BY <1>0, <1>7 DEF ListExisting, Pass
  <2>2. \A r \in Ids : Snapshot(sync[p].integ)[r].ext # Nil => rows[r].source = "ical"
    BY DEF Snapshot, NoRow
  <2>3. \A r \in Disappeared(sync[p].feed, Snapshot(sync[p].integ)) :
           r \in Ids /\ Snapshot(sync[p].integ)[r].ext # Nil
    BY DEF Disappeared
  <2> QED  BY <1>a, <2>1, <2>2, <2>3
<1>8. ASSUME NEW p \in Syncs, NEW u \in Uids, NEW ok, Handled(p, u, ok)
      PROVE  ImportsInHand'
  BY <1>0, <1>b, <1>8 DEF Handled, Pass
<1>9. ASSUME NEW p \in Syncs, NEW u \in Uids, PatchEvent(p, u) \/ CreateEvent(p, u)
      PROVE  ImportsInHand'
  BY <1>8, <1>9 DEF PatchEvent, CreateEvent
<1>10. ASSUME NEW p \in Syncs, NEW r \in Ids, Sweep(p, r)  PROVE ImportsInHand'
  BY <1>0, <1>b, <1>10 DEF Sweep, Pass
<1>11. ImportsInHand'
  <2>1. CASE StartBy("user") \/ StartBy("system")  BY <1>5, <2>1 DEF StartBy
  <2>2. CASE \E p \in Syncs : PassStep(p) \/ Abandon(p)
    BY <1>6, <1>7, <1>9, <1>10, <2>2 DEF PassStep, Finish, Abandon
  <2>3. ASSUME NEW p \in Syncs, NEW r \in Ids, SweepFails(p, r)  PROVE ImportsInHand'
    BY <1>0, <1>b, <2>3 DEF SweepFails, Pass
  <2>4. CASE \E p \in Syncs : StatementFails(p)
    BY <1>8, <2>3, <2>4 DEF StatementFails, PatchFails, InsertFails
  <2> QED  BY <1>3, <2>1, <2>2, <2>4 DEF SyncStep, ICalNext
<1> QED  BY <1>1, <1>2, <1>11

-----------------------------------------------------------------------------
(* The theorems.                                                           *)

LEMMA InitHistory == BookInit => HistoryInv
BY DEF BookInit, ICalInit, HistoryInv, PastKnown, EveryStatusEarned, Decided,
       ImportsInHand, Exists, NoRow, NoRequest, NoPass, Statuses

LEMMA NextHistory == IInv /\ HistoryInv /\ [BookNext]_bookVars => HistoryInv'
<1>1. CASE UNCHANGED bookVars
  BY <1>1 DEF bookVars, HistoryInv, PastKnown, EveryStatusEarned, Decided,
              ImportsInHand, Exists
<1> QED  BY <1>1, RequestKeepsHistory, PassKeepsHistory DEF BookNext

\* What requests have decided on and what passes have in hand stays true.
THEOREM HistoryInvariant == BookSpec => []HistoryInv
BY Inductive, InitHistory, NextHistory, PTL DEF BookSpec

\* However many requests and passes race, an operator's reservation only gets
\* a status that one of its earlier statuses led to.
THEOREM StatusesEarned == BookSpec => []EveryStatusEarned
<1>1. HistoryInv => EveryStatusEarned  BY DEF HistoryInv
<1> QED  BY <1>1, HistoryInvariant, PTL

LEMMA InitFree == BookInit => Promise!OccupancyInit
<1> SUFFICES ASSUME BookInit PROVE Promise!OccupancyInit  OBVIOUS
<1>1. ASSUME NEW u, NEW n  PROVE Holder(u, n) = Nil
  <2>1. \A r \in Ids : ~Holds(rows, r, u, n)  BY DEF BookInit, NoRow, Holds
  <2> QED  BY <2>1, NoHolder, HolderIsHolderIn
<1> QED  BY <1>1 DEF Promise!OccupancyInit

LEMMA StepHoldsOrVacates ==
    IInv /\ IInv' /\ HistoryInv /\ [BookNext]_bookVars =>
        Promise!OccupancyNext \/ UNCHANGED Occ
<1> SUFFICES ASSUME IInv, IInv', HistoryInv, [BookNext]_bookVars
             PROVE  Promise!OccupancyNext \/ UNCHANGED Occ
  OBVIOUS
<1>1. Writes
  BY RequestWrites, PassWrites DEF BookNext, bookVars, Writes
<1>2. CASE UNCHANGED rows
  BY <1>2 DEF Occ, Holder
<1>3. CASE \E r \in Ids, v \in Row : Write(r, v)
  BY <1>3, WriteHoldsOrVacates DEF Write, IInv
<1> QED  BY <1>1, <1>2, <1>3 DEF Writes

\* The book implements Occupancy: a reservation gets its nights all at once,
\* from nights that were free or its own, however many requests and passes
\* race for them.
THEOREM BookKeepsOccupancy == BookSpec => KeepsOccupancy
<1>1. BookInit => Promise!OccupancyInit  BY InitFree
<1>2. IInv /\ IInv' /\ HistoryInv /\ [BookNext]_bookVars =>
        [Promise!OccupancyNext]_([u \in Units |-> [n \in Nights |-> Holder(u, n)]])
  BY StepHoldsOrVacates DEF Occ
<1> QED
  BY <1>1, <1>2, Inductive, HistoryInvariant, PTL
  DEF BookSpec, KeepsOccupancy, Promise!OccupancySpec
===============================================================================
