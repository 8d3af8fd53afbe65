------------------------------- MODULE MCBook -------------------------------
(* Instances of ReservationBook for TLC. *)
EXTENDS ReservationBook, FiniteSets, TLC

CONSTANTS a, b, ota, otb, x, y, r1, r2, q1, q2

Manual(u, from, to, status) ==
    [unit |-> u, from |-> from, to |-> to, status |-> status,
     integ |-> Nil, ext |-> Nil, source |-> "manual"]

\* A booking the operator typed in with the channel's own code.
Typed(u, from, to, status) ==
    [Manual(u, from, to, status) EXCEPT !.integ = ota, !.ext = x]

On(from, to) == [state |-> "active", from |-> from, to |-> to]

None == [state |-> "none", from |-> 0, to |-> 0]

MCUnitOf == [i \in Integrations |-> a]

\* Races: an event that moves by a day or is cancelled, against bookings
\* that overlap it, touch it, or carry its code.
RaceFeeds == {x :> On(0, 2),
              x :> On(1, 3),
              x :> [On(1, 3) EXCEPT !.state = "cancelled"]}

RacePayloads == {Manual(a, 0, 1, "confirmed"), Typed(a, 1, 3, "checked_in")}

\* An event that moves by a night.
ChannelFeeds == {x :> On(0, 2),
                 x :> On(1, 3)}

\* Bound: of the requests and the pass, two at most are under way at once.
TwoAtOnce ==
    Cardinality({q \in Requests : req[q].pc # "idle"})
      + Cardinality({p \in Syncs : sync[p].pc # "idle"}) <= 2

\* Bound: a stay with more statuses than three behind it is not followed on.
FewStatuses == \A r \in Ids : Cardinality(been[r]) <= 3

NoPayloads == {}

\* An event that comes, moves by a night, is cancelled, or is gone.
LiveFeeds == {x :> None, x :> On(0, 1), x :> On(1, 2),
              x :> [On(1, 2) EXCEPT !.state = "cancelled"]}

\* A guest in house on the nights the event moves to.
LivePayloads == {Manual(a, 1, 2, "checked_in")}

\* Bound: one imported booking, in r1, and one of the operator's, in r2.
OneOfEach ==
    /\ Exists(r1) => rows[r1].source = "ical"
    /\ rows[r2].source = "manual"

Symmetric == Permutations(Ids) \cup Permutations(Requests)
=============================================================================
