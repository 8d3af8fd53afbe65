---------------------------- MODULE TurnoverTasks ----------------------------
(***************************************************************************)
(* The housekeeping tasks a reservation brings about.  create_reservation  *)
(* and transition_status of routes/reservations.rs end with                *)
(* sync_turnover_tasks_for_status: a confirmed stay gets a check_in task,  *)
(* a guest in house a check_out task, a departed one cleaning and          *)
(* inspection, each with its checklist; a cancelled or no-show stay has    *)
(* its open tasks cancelled.  Errors of the sync are dropped.  Staff tick, *)
(* complete and PATCH the tasks meanwhile (routes/tasks.rs), and workflow  *)
(* actions move a reservation without any sync (services/workflows.rs).    *)
(*                                                                         *)
(* Every database statement is a step of its own.  Whether the exclusion   *)
(* constraint lets a status write through is the business of               *)
(* ReservationBook; here a write may always fail.                          *)
(***************************************************************************)
EXTENDS Naturals, Sequences, FiniteSets

CONSTANTS
    Stays,      \* reservations
    Tasks,      \* the task ids that can still be produced (bound)
    Workers,    \* requests and workflow actions in flight at once
    Staff,      \* staff requests in flight at once
    Items,      \* length of a checklist (3 to 5 in the code)
    Nil

ASSUME ItemsAssumption == Items \in Nat \ {0} /\ IsFiniteSet(Workers)
ASSUME NilAssumption == Nil \notin Stays \cup Tasks

VARIABLES
    stay,       \* [Stays -> status]
    task,       \* [Tasks -> Task]: tables tasks and task_items
    work,       \* [Workers -> Work]: locals of each handler
    check,      \* [Staff -> Tasks \cup {Nil}]: what complete_task found complete
    touched,    \* history: tasks that staff patched, or that could not be cancelled
    disturbed   \* history: stays whose sync was skipped or cut short

taskVars == <<stay, task, work, check, touched, disturbed>>

StayStatus == {"absent", "pending", "confirmed", "checked_in", "checked_out",
               "cancelled", "no_show"}
Types      == {"check_in", "check_out", "cleaning", "inspection"}
Open       == {"todo", "in_progress"}

Task == [stay   : Stays \cup {Nil},
         type   : Types \cup {Nil},
         status : {"absent", "done", "cancelled"} \cup Open,
         items  : SUBSET (1..Items),     \* task_items, by sort_order
         ticked : SUBSET (1..Items),     \* those with is_completed
         lost   : SUBSET (1..Items),     \* history: items whose INSERT failed
         spare  : BOOLEAN]               \* history: inserted because a revival failed

NoTask == [stay |-> Nil, type |-> Nil, status |-> "absent", items |-> {}, ticked |-> {},
           lost |-> {}, spare |-> FALSE]

Work == [pc    : {"idle", "write", "list", "cancel", "find", "revive", "insert",
                  "items", "add"},
         by    : {"operator", "workflow"},
         stay  : Stays \cup {Nil},
         want  : StayStatus,
         types : Seq(Types),         \* blueprints still to upsert
         open  : SUBSET Tasks,       \* tasks still to cancel
         task  : Tasks \cup {Nil},   \* the task at hand
         item  : 1..(Items + 1)]     \* the checklist item at hand

Idle == [pc |-> "idle", by |-> "operator", stay |-> Nil, want |-> "absent",
         types |-> <<>>, open |-> {}, task |-> Nil, item |-> 1]

TasksOf(r, ty) ==
    {t \in Tasks : task[t].status # "absent" /\ task[t].stay = r /\ task[t].type = ty}

-----------------------------------------------------------------------------
(* The reservation's status.                                               *)

allowed_transition(current, next) ==
    CASE current = "pending"    -> next \in {"confirmed", "cancelled"}
      [] current = "confirmed"  -> next \in {"checked_in", "cancelled", "no_show"}
      [] current = "checked_in" -> next = "checked_out"
      [] OTHER -> FALSE

Blueprints(status) ==
    CASE status = "confirmed"   -> <<"check_in">>
      [] status = "checked_in"  -> <<"check_out">>
      [] status = "checked_out" -> <<"cleaning", "inspection">>
      [] OTHER -> <<>>

\* Mutant: a no-show keeps its tasks.
SyncCancelledOnly(r, s) ==
    IF s = "cancelled" THEN [Idle EXCEPT !.pc = "list", !.stay = r]
    ELSE IF Blueprints(s) # <<>>
    THEN [Idle EXCEPT !.pc = "find", !.stay = r, !.types = Blueprints(s)]
    ELSE Idle

\* Where sync_turnover_tasks_for_status starts for a stay just written as s.
Sync(r, s) ==
    IF s \in {"cancelled", "no_show"} THEN [Idle EXCEPT !.pc = "list", !.stay = r]
    ELSE IF Blueprints(s) # <<>>
    THEN [Idle EXCEPT !.pc = "find", !.stay = r, !.types = Blueprints(s)]
    ELSE Idle

\* create_reservation: the row, in any status the operator asks for.
Create(w, r, s) ==
    /\ work[w].pc = "idle"
    /\ stay[r] = "absent"
    /\ stay' = [stay EXCEPT ![r] = s]
    /\ work' = [work EXCEPT ![w] = Sync(r, s)]
    /\ UNCHANGED <<task, check, touched, disturbed>>

\* transition_status or execute_update_status: read and decide.
Read(w, r, s, by) ==
    /\ work[w].pc = "idle"
    /\ allowed_transition(stay[r], s)
    /\ work' = [work EXCEPT ![w] = [Idle EXCEPT !.pc = "write", !.by = by,
                                                !.stay = r, !.want = s]]
    /\ UNCHANGED <<stay, task, check, touched, disturbed>>

\* The write by id.  Only the operator's request goes on to the tasks.
Write(w) ==
    LET r == work[w].stay
        s == work[w].want
    IN /\ work[w].pc = "write"
       /\ stay' = [stay EXCEPT ![r] = s]
       /\ IF work[w].by = "operator"
          THEN /\ work' = [work EXCEPT ![w] = Sync(r, s)]
               /\ UNCHANGED disturbed
          ELSE /\ work' = [work EXCEPT ![w] = Idle]
               /\ disturbed' = disturbed \cup {r}
       /\ UNCHANGED <<task, check, touched>>

WriteRefused(w) ==
    /\ work[w].pc = "write"
    /\ work' = [work EXCEPT ![w] = Idle]
    /\ UNCHANGED <<stay, task, check, touched, disturbed>>

-----------------------------------------------------------------------------
(* cancel_open_turnover_tasks                                              *)

ToCancel(r) == {t \in Tasks : task[t].stay = r /\ task[t].status \in Open}

ListOpen(w) ==
    /\ work[w].pc = "list"
    /\ work' = [work EXCEPT ![w].pc = "cancel", ![w].open = ToCancel(work[w].stay)]
    /\ UNCHANGED <<stay, task, check, touched, disturbed>>

\* One task of the list, by id, whatever its status is by now.
CancelTask(w, t) ==
    /\ work[w].pc = "cancel"
    /\ t \in work[w].open
    /\ task' = [task EXCEPT ![t].status = "cancelled"]
    /\ work' = [work EXCEPT ![w].open = @ \ {t}]
    /\ UNCHANGED <<stay, check, touched, disturbed>>

\* A cancellation that fails is dropped, and the loop goes on.
CancelFails(w, t) ==
    /\ work[w].pc = "cancel"
    /\ t \in work[w].open
    /\ work' = [work EXCEPT ![w].open = @ \ {t}]
    /\ touched' = touched \cup {t}
    /\ UNCHANGED <<stay, task, check, disturbed>>

AllCancelled(w) ==
    /\ work[w].pc = "cancel"
    /\ work[w].open = {}
    /\ work' = [work EXCEPT ![w] = Idle]
    /\ UNCHANGED <<stay, task, check, touched, disturbed>>

-----------------------------------------------------------------------------
(* upsert_turnover_task and ensure_task_items, for the first blueprint left *)

Live(r, ty) == {t \in TasksOf(r, ty) : task[t].status # "cancelled"}

\* Mutant: cancelled tasks are never reused.
ReusableNever(r, ty) == {}

Reusable(r, ty) == {t \in TasksOf(r, ty) : task[t].status = "cancelled"}

\* A live task keeps its fields; a cancelled one is to be revived; else one
\* is to be inserted.
FindTask(w) ==
    LET r  == work[w].stay
        ty == Head(work[w].types)
        At(pc, t) == work' = [work EXCEPT ![w].pc = pc, ![w].task = t]
    IN /\ work[w].pc = "find"
       /\ \/ \E t \in Live(r, ty) : At("items", t)
          \/ Live(r, ty) = {} /\ \E t \in Reusable(r, ty) : At("revive", t)
          \/ Live(r, ty) \cup Reusable(r, ty) = {} /\ At("insert", Nil)
       /\ UNCHANGED <<stay, task, check, touched, disturbed>>

\* The checklist of a revived task stays as it was, ticks included.
Revive(w) ==
    /\ work[w].pc = "revive"
    /\ task' = [task EXCEPT ![work[w].task].status = "todo"]
    /\ work' = [work EXCEPT ![w].pc = "items"]
    /\ UNCHANGED <<stay, check, touched, disturbed>>

\* A revival that fails is dropped too: the handler inserts a task instead.
ReviveFails(w) ==
    /\ work[w].pc = "revive"
    /\ work' = [work EXCEPT ![w].pc = "insert"]
    /\ UNCHANGED <<stay, task, check, touched, disturbed>>

InsertTask(w) ==
    /\ work[w].pc = "insert"
    /\ \E t \in Tasks :
         /\ task[t].status = "absent"
         /\ task' = [task EXCEPT ![t] = [NoTask EXCEPT
                       !.stay = work[w].stay, !.type = Head(work[w].types), !.status = "todo",
                       !.spare = (work[w].task # Nil)]]
         /\ work' = [work EXCEPT ![w].pc = "items", ![w].task = t]
    /\ UNCHANGED <<stay, check, touched, disturbed>>

\* On to the next blueprint, or done.
NextBlueprint(w) ==
    LET rest == Tail(work[w].types)
    IN work' = [work EXCEPT ![w] =
                  IF rest = <<>> THEN Idle
                  ELSE [Idle EXCEPT !.pc = "find", !.stay = work[w].stay, !.types = rest]]

\* A task with any item keeps the checklist it has.
ListItems(w) ==
    /\ work[w].pc = "items"
    /\ \/ task[work[w].task].items # {} /\ NextBlueprint(w)
       \/ task[work[w].task].items = {} /\ work' = [work EXCEPT ![w].pc = "add"]
    /\ UNCHANGED <<stay, task, check, touched, disturbed>>

\* Mutants: the last item of the checklist is forgotten; one too many is added.
LastItemShort == Items - 1
LastItemOver == Items + 1

LastItem == Items

\* One item of the checklist; UNIQUE (task_id, sort_order) refuses one that
\* another request has added, and the loop goes on.
AddItem(w) ==
    LET t == work[w].task
        n == work[w].item
    IN /\ work[w].pc = "add"
       /\ n <= LastItem
       /\ task' = [task EXCEPT ![t].items = @ \cup {n}]
       /\ work' = [work EXCEPT ![w].item = n + 1]
       /\ UNCHANGED <<stay, check, touched, disturbed>>

\* An INSERT that fails for another reason is dropped like that one.
ItemFails(w) ==
    LET t == work[w].task
        n == work[w].item
    IN /\ work[w].pc = "add"
       /\ n <= LastItem
       /\ n \notin task[t].items
       /\ task' = [task EXCEPT ![t].lost = @ \cup {n}]
       /\ work' = [work EXCEPT ![w].item = n + 1]
       /\ UNCHANGED <<stay, check, touched, disturbed>>

AllAdded(w) ==
    /\ work[w].pc = "add"
    /\ work[w].item > LastItem
    /\ NextBlueprint(w)
    /\ UNCHANGED <<stay, task, check, touched, disturbed>>

\* A restart, or one of the other statements fails: the rest of the sync is
\* dropped.
CutShort(w) ==
    /\ work[w].pc \notin {"idle", "write"}
    /\ work' = [work EXCEPT ![w] = Idle]
    /\ disturbed' = disturbed \cup {work[w].stay}
    /\ UNCHANGED <<stay, task, check, touched>>

-----------------------------------------------------------------------------
(* Staff                                                                   *)

\* update_task_item
Tick(t, n, done) ==
    /\ n \in task[t].items
    /\ task' = [task EXCEPT ![t].ticked = IF done THEN @ \cup {n} ELSE @ \ {n}]
    /\ UNCHANGED <<stay, work, check, touched, disturbed>>

NothingMissing(t) == task[t].items \subseteq task[t].ticked

\* complete_task: no required item is missing, whatever the task's status.
CompleteCheck(m, t) ==
    /\ check[m] = Nil
    /\ task[t].status # "absent"
    /\ NothingMissing(t)
    /\ check' = [check EXCEPT ![m] = t]
    /\ UNCHANGED <<stay, task, work, touched, disturbed>>

CompleteWrite(m) ==
    /\ check[m] # Nil
    /\ task' = [task EXCEPT ![check[m]].status = "done"]
    /\ check' = [check EXCEPT ![m] = Nil]
    /\ UNCHANGED <<stay, work, touched, disturbed>>

\* update_task: a PATCH may name any status, and checks nothing.
PatchTask(t, s) ==
    /\ task[t].status # "absent"
    /\ task' = [task EXCEPT ![t].status = s]
    /\ touched' = touched \cup {t}
    /\ UNCHANGED <<stay, work, check, disturbed>>

-----------------------------------------------------------------------------

WorkerStep(w) ==
    \/ \E r \in Stays, s \in StayStatus \ {"absent"} : Create(w, r, s)
    \/ \E r \in Stays, s \in StayStatus, by \in {"operator", "workflow"} : Read(w, r, s, by)
    \/ Write(w) \/ WriteRefused(w)
    \/ ListOpen(w) \/ (\E t \in Tasks : CancelTask(w, t) \/ CancelFails(w, t))
    \/ AllCancelled(w)
    \/ FindTask(w) \/ Revive(w) \/ ReviveFails(w) \/ InsertTask(w) \/ ListItems(w)
    \/ AddItem(w) \/ ItemFails(w) \/ AllAdded(w)
    \/ CutShort(w)

StaffStep ==
    \/ \E t \in Tasks, n \in 1..Items, done \in BOOLEAN : Tick(t, n, done)
    \/ \E m \in Staff : (\E t \in Tasks : CompleteCheck(m, t)) \/ CompleteWrite(m)

Patching == \E t \in Tasks, s \in Open \cup {"done", "cancelled"} : PatchTask(t, s)

TasksInit ==
    /\ stay = [r \in Stays |-> "absent"]
    /\ task = [t \in Tasks |-> NoTask]
    /\ work = [w \in Workers |-> Idle]
    /\ check = [m \in Staff |-> Nil]
    /\ touched = {}
    /\ disturbed = {}

TasksNext == (\E w \in Workers : WorkerStep(w)) \/ StaffStep \/ Patching

TasksSpec == TasksInit /\ [][TasksNext]_taskVars

\* No staff at all.
RequestsSpec == TasksInit /\ [][\E w \in Workers : WorkerStep(w)]_taskVars

-----------------------------------------------------------------------------
(* Properties.                                                             *)

\* A checklist never has an item its blueprint does not, and handlers keep
\* what they read for as long as they use it.
TasksTypeOK ==
    /\ stay \in [Stays -> StayStatus]
    /\ task \in [Tasks -> Task]
    /\ work \in [Workers -> Work]
    /\ check \in [Staff -> Tasks \cup {Nil}]
    /\ touched \subseteq Tasks
    /\ disturbed \subseteq Stays

\* Nobody is moving stay r, and every sync of it so far ran to its end.
Settled(r) == r \notin disturbed /\ \A w \in Workers : work[w].stay # r

Wanted == [confirmed |-> {"check_in"}, checked_in |-> {"check_out"},
           checked_out |-> {"cleaning", "inspection"}]

\* One request per reservation at a time: once it is answered, the tasks fit
\* the status whatever staff ticked, completed and patched meanwhile, and
\* whichever single statements of the sync failed and were dropped.  A
\* cancelled or no-show stay keeps no open task but those that staff patched
\* or that could not be cancelled, and the other stays have each task their
\* status calls for, unless staff patched it away.
TasksFollowStatus ==
    \A r \in Stays : Settled(r) =>
        /\ stay[r] \in {"cancelled", "no_show"} =>
             \A t \in Tasks : task[t].stay = r /\ task[t].status \in {"todo", "in_progress"}
                            => t \in touched
        /\ stay[r] \in DOMAIN Wanted => \A ty \in Wanted[stay[r]] :
             \E t \in Tasks : /\ task[t].stay = r /\ task[t].type = ty
                              /\ task[t].status = "cancelled" => t \in touched

\* Requests that race may each insert a task of one type for one stay, but
\* only those already under way when the first of them inserts: later ones
\* find it and reuse it, cancelled or not.  Beyond those, a stay gets another
\* task of the type only where the revival of a cancelled one failed.
DuplicatesBounded ==
    \A r \in Stays, ty \in Types :
        Cardinality({t \in Tasks : task[t].stay = r /\ task[t].type = ty /\ ~task[t].spare})
            <= Cardinality(Workers)

\* Any number of requests at once: each task they leave has its whole
\* checklist, although they insert it item by item into each other's tasks.
\* An item is missing only if its own INSERT failed.
ChecklistsWhole ==
    \A t \in Tasks :
        task[t].stay # Nil /\ Settled(task[t].stay)
            => task[t].items \cup task[t].lost = 1..Items
=============================================================================
