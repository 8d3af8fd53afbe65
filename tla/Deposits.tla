------------------------------ MODULE Deposits ------------------------------
(***************************************************************************)
(* The security deposit of a reservation: routes/deposits.rs, the refund   *)
(* in routes/reservations.rs, and the automatic release at checkout.       *)
(*                                                                         *)
(* Every handler reads the reservation, decides on deposit_status, writes  *)
(* the new one by id and then inserts an escrow event, each a database     *)
(* statement of its own.  A failed event fails the request but not the     *)
(* write before it.                                                        *)
(***************************************************************************)
EXTENDS Naturals, FiniteSets

CONSTANTS
    Stays,      \* reservations
    Workers,    \* requests and workflow actions in flight at once
    Nil

VARIABLES
    deposit,    \* [Stays -> DepositStatus]: reservations.deposit_status
    status,     \* [Stays -> {"checked_in", "checked_out"}]: reservations.status
    escrow,     \* [Stays -> SUBSET Event]: table escrow_events
    work,       \* [Workers -> Work]: locals of each handler
    collected,  \* history: stays whose deposit was collected at some time
    late,       \* history: stays held or left to themselves after checkout
    cut,        \* history: stays with a request cut short
    touched     \* history: stays whose deposit_status was set by PATCH

depositVars == <<deposit, status, escrow, work, collected, late, cut, touched>>

Settled == {"released", "forfeited", "refunded"}

\* The words the handlers know, and "other" for any other text: the column is
\* plain text, so creating or patching a reservation may store one.
Uncollected   == {"none", "pending", "other"}
DepositStatus == {"collected", "held"} \cup Settled \cup Uncollected

Event == {"collected", "held", "released", "forfeited", "auto_released"}

Work == [pc   : {"idle", "write", "event", "checkout", "auto_release"},
         to   : DepositStatus \cup Event,       \* what to write or to record
         by   : {"transition", "workflow"},     \* who checks the guest out
         stay : Stays \cup {Nil}]

Idle == [pc |-> "idle", to |-> "none", by |-> "transition", stay |-> Nil]

-----------------------------------------------------------------------------
(* The five requests: what each expects to read and what it then writes.   *)

Decide(w, r, expected, to) ==
    /\ work[w].pc = "idle"
    /\ deposit[r] \in expected
    /\ work' = [work EXCEPT ![w] = [Idle EXCEPT !.pc = "write", !.to = to, !.stay = r]]
    /\ UNCHANGED <<deposit, status, escrow, collected, late, cut, touched>>

collect_deposit(w, r) == Decide(w, r, {"none", "pending"}, "collected")

\* Mutants: a settled deposit is held again; a word of no status is written.
HoldUncollected(w, r) == Decide(w, r, DepositStatus \ {"none", "held"}, "held")
HoldMisspelt(w, r) == Decide(w, r, {"collected"}, "hold")

hold_deposit(w, r) == Decide(w, r, {"collected"}, "held")

\* Mutant: a pending deposit is released too.
ReleasePending(w, r) == Decide(w, r, {"pending", "held", "collected"}, "released")

release_deposit(w, r) == Decide(w, r, {"held", "collected"}, "released")

forfeit_deposit(w, r) == Decide(w, r, {"held", "collected"}, "forfeited")

refund_deposit(w, r) == Decide(w, r, {"held", "collected"}, "refunded")

\* The update, by id.  A refund leaves no escrow event.
WriteDeposit(w) ==
    LET r  == work[w].stay
        to == work[w].to
    IN /\ work[w].pc = "write"
       /\ deposit' = [deposit EXCEPT ![r] = to]
       /\ work' = [work EXCEPT ![w] = IF to = "refunded" THEN Idle ELSE [@ EXCEPT !.pc = "event"]]
       /\ collected' = IF to = "collected" THEN collected \cup {r} ELSE collected
       /\ late' = IF to = "held" /\ status[r] = "checked_out" THEN late \cup {r} ELSE late
       /\ UNCHANGED <<status, escrow, cut, touched>>

\* The tables create_row accepts, of those the deposit handlers name.
ALLOWED_TABLES == {"reservations"}

\* insert_escrow_event: create_row refuses a table that is not in its list,
\* and the request ends with that error.
InsertEvent(w) ==
    /\ work[w].pc = "event"
    /\ escrow' = IF "escrow_events" \in ALLOWED_TABLES
                 THEN [escrow EXCEPT ![work[w].stay] = @ \cup {work[w].to}]
                 ELSE escrow
    /\ work' = [work EXCEPT ![w] = Idle]
    /\ UNCHANGED <<deposit, status, collected, late, cut, touched>>

-----------------------------------------------------------------------------
(* Checkout                                                                *)

\* transition_status ("transition") or execute_update_status ("workflow").
DecideCheckout(w, r, by) ==
    /\ work[w].pc = "idle"
    /\ status[r] = "checked_in"
    /\ work' = [work EXCEPT ![w] = [Idle EXCEPT !.pc = "checkout", !.by = by, !.stay = r]]
    /\ UNCHANGED <<deposit, status, escrow, collected, late, cut, touched>>

\* Mutant: checkout releases a deposit only while it is not yet held.
ReleasesCollected(d) == d = "collected"

\* auto_release_deposit_on_checkout acts on a deposit that is held.
Releases(d) == d = "held"

\* The status, by id.  The row the write returns, deposit included, is what
\* the automatic release goes by; a workflow action releases nothing.
WriteCheckout(w) ==
    LET r == work[w].stay
        byHand == work[w].by = "transition"
    IN /\ work[w].pc = "checkout"
       /\ status' = [status EXCEPT ![r] = "checked_out"]
       /\ work' = [work EXCEPT ![w] = IF byHand /\ Releases(deposit[r])
                                      THEN [@ EXCEPT !.pc = "auto_release"] ELSE Idle]
       /\ late' = IF byHand THEN late ELSE late \cup {r}
       /\ UNCHANGED <<deposit, escrow, collected, cut, touched>>

\* The update, by id and whatever the deposit is by now.
AutoRelease(w) ==
    LET r == work[w].stay
    IN /\ work[w].pc = "auto_release"
       /\ deposit' = [deposit EXCEPT ![r] = "released"]
       /\ work' = [work EXCEPT ![w] = [@ EXCEPT !.pc = "event", !.to = "auto_released"]]
       /\ UNCHANGED <<status, escrow, collected, late, cut, touched>>

-----------------------------------------------------------------------------

\* A restart, or a statement that fails, between two statements of a handler.
CutShort(w) ==
    /\ work[w].pc # "idle"
    /\ work' = [work EXCEPT ![w] = Idle]
    /\ cut' = cut \cup {work[w].stay}
    /\ UNCHANGED <<deposit, status, escrow, collected, late, touched>>

\* update_reservation: a PATCH may name any deposit_status, and checks nothing.
PatchDeposit(r, d) ==
    /\ deposit' = [deposit EXCEPT ![r] = d]
    /\ touched' = touched \cup {r}
    /\ UNCHANGED <<status, escrow, work, collected, late, cut>>

WorkerStep(w) ==
    \/ \E r \in Stays : \/ collect_deposit(w, r) \/ hold_deposit(w, r)
                        \/ release_deposit(w, r) \/ forfeit_deposit(w, r)
                        \/ refund_deposit(w, r)
    \/ \E r \in Stays, by \in {"transition", "workflow"} : DecideCheckout(w, r, by)
    \/ WriteDeposit(w) \/ InsertEvent(w)
    \/ WriteCheckout(w) \/ AutoRelease(w)
    \/ CutShort(w)

\* create_reservation takes any deposit_status the operator names.
DepositInit ==
    /\ deposit \in [Stays -> DepositStatus]
    /\ status = [r \in Stays |-> "checked_in"]
    /\ escrow = [r \in Stays |-> {}]
    /\ work = [w \in Workers |-> Idle]
    /\ collected = {r \in Stays : deposit[r] \notin Uncollected}
    /\ late = {}
    /\ cut = {}
    /\ touched = {}

DepositNext ==
    \/ \E w \in Workers : WorkerStep(w)
    \/ \E r \in Stays, d \in DepositStatus : PatchDeposit(r, d)

DepositSpec == DepositInit /\ [][DepositNext]_depositVars

\* Reservations created without a deposit.
FreshSpec == DepositSpec /\ deposit = [r \in Stays |-> "none"]

-----------------------------------------------------------------------------
(* Properties.                                                             *)

\* What the handlers write is always a status that handlers know, and a handler
\* keeps the stay it read and the event it owes to the end.  (No CHECK backs
\* this: the one of 2026-03-phase3-escrow.sql comes with an ADD COLUMN IF NOT
\* EXISTS that finds the column, and would refuse the "refunded" that
\* refund_deposit writes.)
DepositTypeOK ==
    /\ deposit \in [Stays -> DepositStatus]
    /\ status \in [Stays -> {"checked_in", "checked_out"}]
    /\ escrow \in [Stays -> SUBSET Event]
    /\ work \in [Workers -> Work]
    /\ collected \subseteq Stays
    /\ late \subseteq Stays
    /\ cut \subseteq Stays
    /\ touched \subseteq Stays

\* However requests race: nothing is released, forfeited, refunded or held
\* that was not collected first, unless a PATCH said so.
OnlyCollectedSettles ==
    \A r \in Stays \ touched :
        deposit[r] \in {"held", "released", "forfeited", "refunded"} => r \in collected

\* However requests race: once a checkout has been answered, no deposit is
\* held that was held before it.
CheckoutReleases ==
    \A r \in Stays \ (touched \cup late \cup cut) :
        /\ status[r] = "checked_out"
        /\ \A w \in Workers : work[w].stay # r
        => deposit[r] # "held"

\* Requests that race may overwrite each other's settlement, but what stands
\* when the last of them is answered stands for good: no later request, and
\* no checkout, takes it up again.
SettlementStands ==
    \A r \in Stays, d \in {"released", "forfeited", "refunded"} :
        [](deposit[r] = d /\ (\A w \in Workers : work[w].stay # r)
             => [](deposit[r] = d \/ r \in touched))

\* db/migrations/2026-03-phase3-escrow.sql:3: "Adds deposit tracking columns
\* to reservations and escrow_events audit trail."  Of a deposit that began
\* as none (FreshSpec) and is settled now there is then some trail, once
\* nobody is at work on it.
EscrowTrail ==
    \A r \in Stays \ (touched \cup cut) :
        /\ deposit[r] \in {"released", "forfeited"}
        /\ \A w \in Workers : work[w].stay # r
        => escrow[r] # {}
=============================================================================
