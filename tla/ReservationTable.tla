-------------------------- MODULE ReservationTable --------------------------
(***************************************************************************)
(* The `reservations` table of db/schema.sql as the handlers of the        *)
(* backend see it: rows they INSERT and UPDATE by id, one statement at a   *)
(* time, each statement checked by PostgreSQL against the table's          *)
(* constraints.  Dates are the days 0..LastDay; a stay is the half-open    *)
(* range [from, to) of its nights.  No handler deletes a row.              *)
(***************************************************************************)
EXTENDS Naturals

CONSTANTS
    Ids,            \* the ids gen_random_uuid() can still produce (bound)
    Units,          \* rentable units
    Integrations,   \* rows of `integrations`: one feed of one unit each
    Uids,           \* external reservation ids (iCal UIDs)
    LastDay,        \* last day of the calendar (bound)
    Nil             \* SQL NULL

ASSUME LastDayAssumption == LastDay \in Nat

VARIABLE rows       \* [Ids -> Row]; an id not inserted yet is "absent"

Day      == 0..LastDay
Statuses == {"pending", "confirmed", "checked_in", "checked_out",
             "cancelled", "no_show"}

Row == [unit   : Units \cup {Nil},
        from   : Day,
        to     : Day,
        status : Statuses \cup {"absent"},
        integ  : Integrations \cup {Nil},
        ext    : Uids \cup {Nil},
        source : {"manual", "ical"}]

NoRow == [unit |-> Nil, from |-> 0, to |-> 0, status |-> "absent",
          integ |-> Nil, ext |-> Nil, source |-> "manual"]

Exists(r) == rows[r].status # "absent"

-----------------------------------------------------------------------------
(* Constraints.                                                            *)

\* The statuses the exclusion constraint covers.
ActiveStatuses == {"pending", "confirmed", "checked_in"}

\* daterange(a.from, a.to, '[)') && daterange(b.from, b.to, '[)')
Overlap(a, b) ==
    /\ a.unit = b.unit
    /\ a.from < b.to
    /\ b.from < a.to

\* Mutant: the constraint leaves out guests in house.
ClashBeforeArrival(a, b) ==
    /\ a.status \in {"pending", "confirmed"}
    /\ b.status \in {"pending", "confirmed"}
    /\ Overlap(a, b)

\* reservations_no_overlap: EXCLUDE (unit_id WITH =, period WITH &&)
\* WHERE status IN ('pending', 'confirmed', 'checked_in').
Clash(a, b) ==
    /\ a.status \in ActiveStatuses
    /\ b.status \in ActiveStatuses
    /\ Overlap(a, b)

\* idx_reservations_integration_external, a partial unique index.
SameKey(a, b) ==
    /\ a.integ # Nil /\ a.ext # Nil
    /\ a.integ = b.integ /\ a.ext = b.ext

\* Mutant: the exclusion constraint is only checked for rows not yet active.
AcceptsWhenAlreadyActive(r, v) ==
    /\ v.from < v.to
    /\ \A s \in Ids \ {r} :
         /\ Clash(v, rows[s]) => rows[r].status # "absent"
         /\ ~SameKey(v, rows[s])

\* PostgreSQL lets row r take the value v.
Accepts(r, v) ==
    /\ v.from < v.to
    /\ \A s \in Ids \ {r} : ~Clash(v, rows[s]) /\ ~SameKey(v, rows[s])

-----------------------------------------------------------------------------
(* Statements: create_row and update_row of table_service.                 *)

\* INSERT: some fresh id takes v.
InsertRow(v) ==
    \E r \in Ids : /\ ~Exists(r)
                   /\ Accepts(r, v)
                   /\ rows' = [rows EXCEPT ![r] = v]

\* INSERT refused by a constraint (or no id left: the bound on Ids).
InsertRefused(v) ==
    /\ \A r \in Ids : ~Exists(r) => ~Accepts(r, v)
    /\ UNCHANGED rows

\* UPDATE ... WHERE id = r: the row takes v, or the statement fails and
\* leaves it alone.  The statement names no expected old value.
UpdateRow(r, v) ==
    IF Accepts(r, v) THEN rows' = [rows EXCEPT ![r] = v] ELSE UNCHANGED rows

-----------------------------------------------------------------------------
(* What the table promises its readers.                                    *)

TableTypeOK == rows \in [Ids -> Row]

\* Two reservations that hold a unit (waiting, confirmed or in house) never
\* share a night of it, whichever handlers race: the promise the booking
\* check of create_reservation, the iCal import and the status changes all
\* lean on.
NoDoubleBooking ==
    \A r, s \in Ids :
        /\ r # s
        /\ rows[r].status \in {"pending", "confirmed", "checked_in"}
        /\ rows[s].status \in {"pending", "confirmed", "checked_in"}
        /\ rows[r].unit = rows[s].unit
        => \/ rows[r].to <= rows[s].from
           \/ rows[s].to <= rows[r].from

\* One feed event is at most one reservation: two syncs of one integration,
\* or a sync and an operator typing the channel's code, cannot import the
\* same booking twice.
ExternalIdsUnique ==
    \A r, s \in Ids :
        /\ rows[r].integ # Nil /\ rows[r].ext # Nil
        /\ rows[r].integ = rows[s].integ
        /\ rows[r].ext = rows[s].ext
        => r = s

\* Every stored stay has at least one night.
StaysNonEmpty == \A r \in Ids : Exists(r) => rows[r].from < rows[r].to
=============================================================================
