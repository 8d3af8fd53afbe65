----------------------------- MODULE ICalTurns ------------------------------
(***************************************************************************)
(* iCal passes that take turns: no second pass of an integration starts    *)
(* while one is on its way, and operators leave imported reservations      *)
(* alone.  The loops of sync_all_ical_integrations and of the re-sync      *)
(* after a status change take turns with themselves (each awaits a pass    *)
(* before the next); that the two, and the operator's sync button, do so   *)
(* with each other is assumed here, not enforced by the code.  Passes of   *)
(* different integrations, of one unit too, run at the same time.          *)
(*                                                                         *)
(* The table a pass finds is any that statements can have left behind.     *)
(***************************************************************************)
EXTENDS ICalSync

VARIABLE mirrored   \* history: integrations whose present feed a pass has
                    \* gone through to the end without a conflict

turnsVars == <<rows, feed, sync, mirrored>>

TurnsInit ==
    /\ rows \in [Ids -> Row]
    /\ \A r \in Ids : Exists(r) \/ rows[r] = NoRow
    /\ NoDoubleBooking
    /\ ExternalIdsUnique
    /\ StaysNonEmpty
    /\ feed \in [Integrations -> Feed]
    /\ sync = [p \in Syncs |-> NoPass]
    /\ mirrored = {}

Change(i, f) ==
    /\ Publish(i, f)
    /\ mirrored' = mirrored \ {i}

\* sync_listing_ical_reservations is called once the previous pass of the
\* integration has ended, well or not.
Begin(p, i, by) ==
    /\ \A o \in Syncs : sync[o].integ # i
    /\ Fetch(p, i, by)
    /\ UNCHANGED mirrored

GoOn(p) ==
    /\ PassStep(p) \/ StatementFails(p) \/ Abandon(p)
    /\ mirrored' = IF PassOver(p) /\ sync[p].clean /\ sync[p].feed = feed[sync[p].integ]
                   THEN mirrored \cup {sync[p].integ} ELSE mirrored

TurnsNext ==
    \/ \E i \in Integrations, f \in Feeds : Change(i, f)
    \/ \E p \in Syncs, i \in Integrations, by \in {"user", "system"} : Begin(p, i, by)
    \/ \E p \in Syncs : GoOn(p)

TurnsSpec == TurnsInit /\ [][TurnsNext]_turnsVars

-----------------------------------------------------------------------------
(* Properties.                                                             *)

\* Once a pass has gone through the feed of an integration without a
\* conflict, and until that feed changes, no later pass of it writes
\* anything, by whomever it is started and however far it gets, whatever
\* passes of other integrations write meanwhile: pressing sync again is
\* harmless.
SyncIdempotent ==
    [][\A p \in Syncs : sync[p].integ \in mirrored /\ sync'[p] # sync[p]
                          => rows' = rows]_turnsVars
=============================================================================
