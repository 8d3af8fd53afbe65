----------------------------- MODULE Occupancy -----------------------------
(***************************************************************************)
(* What the reservation book promises the units it rents out: every night  *)
(* of a unit is free or held by one reservation, and a reservation gets    *)
(* its nights all at once, only from nights that are free or already its   *)
(* own.  An abstract specification without statuses, requests or feeds.    *)
(***************************************************************************)
EXTENDS Naturals

CONSTANTS Guests,   \* who may hold nights (reservation ids)
          Units,
          Nights,   \* a set of numbers: night n is the one after day n
          Free      \* nobody holds the night

VARIABLE occ        \* [Units -> [Nights -> Guests \cup {Free}]]

OccupancyInit == occ = [u \in Units |-> [n \in Nights |-> Free]]

\* Guest g gives up what it held and holds the nights from..to-1 of u
\* instead: a booking, a change of dates or unit, or a booking revived.
Hold(g, u, from, to) ==
    /\ \A n \in from..(to - 1) : occ[u][n] \in {Free, g}
    /\ occ' = [v \in Units |-> [n \in Nights |->
                 IF v = u /\ n \in from..(to - 1) THEN g
                 ELSE IF occ[v][n] = g THEN Free ELSE occ[v][n]]]

\* Guest g gives up all its nights: cancelled, no-show or gone.
Vacate(g) ==
    occ' = [u \in Units |-> [n \in Nights |->
              IF occ[u][n] = g THEN Free ELSE occ[u][n]]]

OccupancyNext ==
    \E g \in Guests :
        \/ Vacate(g)
        \/ \E u \in Units, from, to \in Nights \cup {n + 1 : n \in Nights} :
               from < to /\ Hold(g, u, from, to)

OccupancySpec == OccupancyInit /\ [][OccupancyNext]_occ
=============================================================================
