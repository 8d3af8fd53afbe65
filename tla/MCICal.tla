------------------------------- MODULE MCICal -------------------------------
(* iCal passes of two integrations of one unit that take turns, from every *)
(* table of a few rows that handlers can have left behind and every feed   *)
(* of two events in one of them; the other has one event on its own dates. *)
(* Either channel may change its mind for that one event, at any moment.   *)
EXTENDS ICalTurns, TLC

CONSTANTS a, ota, inn, x, y

MCUnitOf == [i \in Integrations |-> a]

MCOther == [u \in Uids |-> IF u = x THEN [state |-> "active", from |-> 1, to |-> 2]
                                    ELSE NoEvent]

MCFeeds == {MCOther}

Spans == {<<0, 1>>, <<0, 2>>}

Events == {NoEvent}
          \cup {[state |-> "active", from |-> s[1], to |-> s[2]] : s \in Spans}
          \cup {[state |-> "cancelled", from |-> 0, to |-> 1]}

\* Rows an earlier pass may have left, wherever operators moved them since,
\* and an operator's own booking, with and without the channel's code.
Left ==
    {NoRow}
    \cup {[unit |-> a, from |-> s[1], to |-> s[2], status |-> st,
           integ |-> ota, ext |-> u, source |-> "ical"] :
             s \in Spans, st \in Statuses, u \in Uids}
    \cup {[unit |-> a, from |-> 1, to |-> 2, status |-> st,
           integ |-> inn, ext |-> x, source |-> "ical"] :
             st \in {"confirmed", "cancelled"}}
    \cup {[unit |-> a, from |-> 0, to |-> 1, status |-> "confirmed",
           integ |-> k[1], ext |-> k[2], source |-> "manual"] :
             k \in {<<Nil, Nil>>} \cup {<<ota, u>> : u \in Uids}}

Settled(t) ==
    \A r, s \in Ids : r # s => ~Clash(t[r], t[s]) /\ ~SameKey(t[r], t[s])

MCInit ==
    /\ rows \in {t \in [Ids -> Left] : Settled(t)}
    /\ \E f \in [Uids -> Events] :
          feed = [i \in Integrations |-> IF i = ota THEN f ELSE MCOther]
    /\ TurnsInit

MCSpec == MCInit /\ [][TurnsNext]_turnsVars

Slots == Permutations(Syncs)
=============================================================================
