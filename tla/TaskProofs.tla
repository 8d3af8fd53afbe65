------------------------------ MODULE TaskProofs ------------------------------
(***************************************************************************)
(* What TurnoverTasks promises for any numbers of stays, tasks, requests   *)
(* and staff, and checklists of any length.                                *)
(***************************************************************************)
EXTENDS TurnoverTasks, FiniteSetTheorems, TLAPS

USE ItemsAssumption, NilAssumption

Stored(t) == task[t].status # "absent"

UnstoredBare == \A t \in Tasks : ~Stored(t) => task[t] = NoTask

\* What a handler with the locals k relies on from one statement to the next.
InHand(k) ==
    /\ k.pc # "idle" => k.stay \in Stays
    /\ k.pc \in {"find", "revive", "insert", "items", "add"} => k.types # <<>>
    /\ k.pc \in {"revive", "items", "add"} =>
         k.task \in Tasks /\ Stored(k.task) /\ task[k.task].stay = k.stay
    /\ k.pc = "add" => 1..(k.item - 1) \subseteq task[k.task].items \cup task[k.task].lost
    /\ k.pc # "add" => k.item = 1
    /\ k.pc # "cancel" => k.open = {}
    /\ \A t \in k.open : Stored(t)

HandsOK ==
    /\ \A w \in Workers : InHand(work[w])
    /\ \A m \in Staff : check[m] # Nil => Stored(check[m])

\* Locals k are those of a handler that will fill the checklist of t: it adds
\* items from the first on, or is about to find that there is none.
Building(k, t) ==
    /\ k.task = t /\ k.stay = task[t].stay
    /\ k.pc = "add" \/ (k.pc = "items" /\ task[t].items = {})

WholeOrInHand ==
    \A t \in Tasks :
        \/ task[t].stay \in disturbed \cup {Nil}
        \/ task[t].items \cup task[t].lost = 1..Items
        \/ \E w \in Workers : Building(work[w], t)

\* Handlers about to insert a task because they found none count as the task:
\* once there is one, no other handler gets there.
Made(r, ty) == {t \in Tasks : task[t].stay = r /\ task[t].type = ty /\ ~task[t].spare}

Inserting(r, ty) ==
    {w \in Workers : /\ work[w].pc = "insert" /\ work[w].task = Nil
                     /\ work[w].stay = r /\ Head(work[w].types) = ty}

InsertsBounded ==
    \A r \in Stays, ty \in Types :
        /\ IsFiniteSet(Made(r, ty))
        /\ Cardinality(Made(r, ty)) + Cardinality(Inserting(r, ty)) <= Cardinality(Workers)

RowsInv == TasksTypeOK /\ UnstoredBare /\ HandsOK

IInv == RowsInv /\ WholeOrInHand /\ InsertsBounded

-----------------------------------------------------------------------------
(* Locals and rows.                                                        *)

\* Stored tasks keep their stay and type, and no item goes.
TasksGrow ==
    \A t \in Tasks : Stored(t) =>
        /\ Stored(t)'
        /\ task'[t].stay = task[t].stay
        /\ task'[t].type = task[t].type
        /\ task[t].items \subseteq task'[t].items
        /\ task[t].lost \subseteq task'[t].lost

\* Task t keeps what it is for; it keeps its checklist as well.
Placed(t) ==
    /\ task'[t].stay = task[t].stay
    /\ task'[t].type = task[t].type
    /\ task'[t].spare = task[t].spare

Kept(t) ==
    /\ Placed(t)
    /\ task'[t].items = task[t].items
    /\ task'[t].lost = task[t].lost

LEMMA InHandStays ==
    ASSUME TasksTypeOK, TasksGrow, NEW v \in Workers,
           InHand(work[v]), work'[v] = work[v]
    PROVE  InHand(work[v])'
<1>1. work[v] \in Work  BY DEF TasksTypeOK
<1>2. \A t \in work[v].open : t \in Tasks  BY <1>1 DEF Work
<1> QED  BY <1>2 DEF TasksGrow, InHand

\* A step that leaves the locals of everyone but w.
LEMMA HandsKept ==
    ASSUME RowsInv, TasksGrow, NEW w \in Workers,
           \A v \in Workers : v # w => work'[v] = work[v],
           InHand(work[w])', UNCHANGED check
    PROVE  HandsOK'
<1>1. \A v \in Workers : InHand(work[v])'
  BY InHandStays DEF RowsInv, HandsOK
<1>2. \A m \in Staff : check[m] # Nil => Stored(check[m])'
  BY DEF RowsInv, HandsOK, TasksGrow, TasksTypeOK
<1> QED  BY <1>1, <1>2 DEF HandsOK

\* A step that leaves all locals.
LEMMA AllHandsKept ==
    ASSUME RowsInv, TasksGrow, UNCHANGED work,
           (\A m \in Staff : check[m] # Nil => Stored(check[m]))'
    PROVE  HandsOK'
<1>1. \A v \in Workers : InHand(work[v])'
  BY InHandStays DEF RowsInv, HandsOK
<1> QED  BY <1>1 DEF HandsOK

LEMMA RowsGrow ==
    ASSUME UNCHANGED task
    PROVE  TasksGrow /\ (UnstoredBare => UnstoredBare')
BY DEF TasksGrow, UnstoredBare, Stored

\* A step that rewrites the status of one stored task.
LEMMA StatusKeepsRows ==
    ASSUME TasksTypeOK, UnstoredBare, NEW t \in Tasks, Stored(t),
           NEW s \in Open \cup {"done", "cancelled"},
           task' = [task EXCEPT ![t].status = s]
    PROVE  task' \in [Tasks -> Task] /\ TasksGrow /\ UnstoredBare'
<1>1. task[t] \in Task /\ task' = [task EXCEPT ![t] = [task[t] EXCEPT !.status = s]]
  BY DEF TasksTypeOK
<1>2. [task[t] EXCEPT !.status = s] \in Task  BY <1>1 DEF Task
<1>3. task' \in [Tasks -> Task]  BY <1>1, <1>2 DEF TasksTypeOK
<1>4. s # "absent"  BY DEF Open
<1>5. \A u \in Tasks : task'[u] = IF u = t THEN [task[t] EXCEPT !.status = s] ELSE task[u]
  BY <1>1 DEF TasksTypeOK
<1>6. TasksGrow
  <2> SUFFICES ASSUME NEW u \in Tasks, Stored(u)
               PROVE  /\ task'[u].status # "absent"
                      /\ task'[u].stay = task[u].stay
                      /\ task'[u].type = task[u].type
                      /\ task[u].items \subseteq task'[u].items
                      /\ task[u].lost \subseteq task'[u].lost
    BY DEF TasksGrow, Stored
  <2>1. CASE u = t  BY <2>1, <1>1, <1>4, <1>5 DEF Task
  <2>2. CASE u # t  BY <2>2, <1>5 DEF Stored
  <2> QED  BY <2>1, <2>2
<1>7. UnstoredBare'
  BY <1>1, <1>4, <1>5 DEF UnstoredBare, Stored, Task
<1> QED  BY <1>3, <1>6, <1>7

LEMMA IdleOK == Idle \in Work /\ InHand(Idle) /\ InHand(Idle)'
<1>1. <<>> \in Seq(Types) /\ 1 \in 1..(Items + 1)  OBVIOUS
<1> QED  BY <1>1 DEF Idle, Work, StayStatus, InHand

LEMMA BlueprintsOK ==
    ASSUME NEW s \in StayStatus
    PROVE  Blueprints(s) \in Seq(Types)
<1>1. <<>> \in Seq(Types) /\ <<"check_in">> \in Seq(Types) /\ <<"check_out">> \in Seq(Types)
  BY DEF Types
<1>2. <<"cleaning", "inspection">> \in Seq(Types)  BY DEF Types
<1> QED  BY <1>1, <1>2 DEF Blueprints

LEMMA SyncOK ==
    ASSUME NEW r \in Stays, NEW s \in StayStatus
    PROVE  /\ Sync(r, s) \in Work
           /\ InHand(Sync(r, s))'
           /\ Sync(r, s).pc \in {"idle", "list", "find"}
<1>1. CASE s \in {"cancelled", "no_show"}
  <2>1. Sync(r, s) = [Idle EXCEPT !.pc = "list", !.stay = r]  BY <1>1 DEF Sync
  <2> QED  BY <2>1, IdleOK DEF Work, InHand, Idle
<1>2. CASE s \notin {"cancelled", "no_show"} /\ Blueprints(s) # <<>>
  <2>1. Sync(r, s) = [Idle EXCEPT !.pc = "find", !.stay = r, !.types = Blueprints(s)]
    BY <1>2 DEF Sync
  <2> QED  BY <2>1, <1>2, IdleOK, BlueprintsOK DEF Work, InHand, Idle
<1>3. CASE s \notin {"cancelled", "no_show"} /\ Blueprints(s) = <<>>
  <2>1. Sync(r, s) = Idle  BY <1>3 DEF Sync
  <2> QED  BY <2>1, IdleOK DEF Idle
<1> QED  BY <1>1, <1>2, <1>3

\* Moving on to the next blueprint.
LEMMA NextBlueprintOK ==
    ASSUME TasksTypeOK, NEW w \in Workers, InHand(work[w]),
           work[w].pc \in {"items", "add"}, NextBlueprint(w)
    PROVE  /\ work' \in [Workers -> Work]
           /\ \A v \in Workers : v # w => work'[v] = work[v]
           /\ InHand(work[w])'
           /\ work'[w].pc \in {"idle", "find"}
<1>1. work[w] \in Work /\ work[w].types # <<>> /\ work[w].stay \in Stays
  BY DEF TasksTypeOK, InHand
<1>2. Tail(work[w].types) \in Seq(Types)  BY <1>1 DEF Work
<1>3. CASE Tail(work[w].types) = <<>>
  <2>1. work' = [work EXCEPT ![w] = Idle]  BY <1>3 DEF NextBlueprint
  <2>2. work'[w] = Idle  BY <2>1 DEF TasksTypeOK
  <2> QED  BY <2>1, <2>2, IdleOK DEF TasksTypeOK, InHand, Idle
<1>4. CASE Tail(work[w].types) # <<>>
  <2> DEFINE k == [Idle EXCEPT !.pc = "find", !.stay = work[w].stay, !.types = Tail(work[w].types)]
  <2>1. work' = [work EXCEPT ![w] = k]  BY <1>4 DEF NextBlueprint
  <2>2. k \in Work  BY <1>1, <1>2, IdleOK DEF Work
  <2>3. work'[w] = k  BY <2>1 DEF TasksTypeOK
  <2>4. InHand(work[w])'  BY <1>1, <1>4, <2>3 DEF InHand, Idle
  <2> QED  BY <2>1, <2>2, <2>3, <2>4 DEF TasksTypeOK, Idle
<1> QED  BY <1>3, <1>4

-----------------------------------------------------------------------------
(* Rows under the steps of a request.                                      *)

LEMMA WorkerKeepsRows ==
    ASSUME RowsInv, NEW w \in Workers, WorkerStep(w)
    PROVE  RowsInv' /\ TasksGrow
<1> USE DEF RowsInv
<1>a. work[w] \in Work /\ InHand(work[w])  BY DEF TasksTypeOK, HandsOK
\* Steps that leave the tasks: enough is what they do to the locals.
<1>b. ASSUME UNCHANGED <<task, check>>, touched' \subseteq Tasks,
             stay' \in [Stays -> StayStatus], disturbed' \subseteq Stays,
             work' \in [Workers -> Work],
             \A v \in Workers : v # w => work'[v] = work[v],
             InHand(work[w])'
      PROVE  RowsInv' /\ TasksGrow
  <2>1. TasksGrow /\ UnstoredBare'  BY <1>b, RowsGrow
  <2>2. HandsOK'  BY <1>b, <2>1, HandsKept
  <2>3. TasksTypeOK'  BY <1>b DEF TasksTypeOK
  <2> QED  BY <2>1, <2>2, <2>3
<1>c. ASSUME NEW k \in Work, work' = [work EXCEPT ![w] = k]
      PROVE  /\ work' \in [Workers -> Work]
             /\ work'[w] = k
             /\ \A v \in Workers : v # w => work'[v] = work[v]
  BY <1>c DEF TasksTypeOK
\* Steps that rewrite one task's status or items.
<1>d. ASSUME UNCHANGED <<stay, check, touched, disturbed>>,
             task' \in [Tasks -> Task], TasksGrow, UnstoredBare',
             work' \in [Workers -> Work],
             \A v \in Workers : v # w => work'[v] = work[v],
             InHand(work[w])'
      PROVE  RowsInv' /\ TasksGrow
  <2>1. HandsOK'  BY <1>d, HandsKept
  <2>2. TasksTypeOK'  BY <1>d DEF TasksTypeOK
  <2> QED  BY <1>d, <2>1, <2>2
<1>1. ASSUME NEW r \in Stays, NEW s \in StayStatus \ {"absent"}, Create(w, r, s)
      PROVE  RowsInv' /\ TasksGrow
  <2>1. PICK k \in Work : k = Sync(r, s) /\ InHand(k)'  BY SyncOK
  <2>2. work' = [work EXCEPT ![w] = k]  BY <1>1, <2>1 DEF Create
  <2>3. stay' \in [Stays -> StayStatus]  BY <1>1 DEF Create, TasksTypeOK
  <2>4. UNCHANGED <<task, check, touched, disturbed>>  BY <1>1 DEF Create
  <2> QED  BY <1>b, <1>c, <2>1, <2>2, <2>3, <2>4 DEF TasksTypeOK
<1>2. ASSUME NEW r \in Stays, NEW s \in StayStatus, NEW by \in {"operator", "workflow"},
             Read(w, r, s, by)
      PROVE  RowsInv' /\ TasksGrow
  <2> DEFINE k0 == [Idle EXCEPT !.pc = "write", !.by = by, !.stay = r, !.want = s]
  <2>0. k0 \in Work  BY IdleOK DEF Work
  <2>1. PICK k \in Work : k = k0 /\ InHand(k)'
    <3>1. k0.pc = "write" /\ k0.stay \in Stays /\ k0.item = 1 /\ k0.open = {}  BY DEF Idle
    <3> QED  BY <2>0, <3>1 DEF InHand
  <2>2. work' = [work EXCEPT ![w] = k]  BY <1>2, <2>1 DEF Read
  <2>3. UNCHANGED <<stay, task, check, touched, disturbed>>  BY <1>2 DEF Read
  <2> QED  BY <1>b, <1>c, <2>1, <2>2, <2>3 DEF TasksTypeOK
<1>i. ASSUME work' = [work EXCEPT ![w] = Idle], UNCHANGED <<stay, task, check, touched>>,
             disturbed' \subseteq Stays
      PROVE  RowsInv' /\ TasksGrow
  <2>1. Idle \in Work /\ InHand(Idle)'  BY IdleOK
  <2>2. work' \in [Workers -> Work] /\ work'[w] = Idle
        /\ \A v \in Workers : v # w => work'[v] = work[v]  BY <1>i, <2>1, <1>c
  <2> QED  BY <1>b, <1>i, <2>1, <2>2 DEF TasksTypeOK
<1>3. CASE Write(w)
  <2> DEFINE r == work[w].stay
             s == work[w].want
  <2>0. r \in Stays /\ s \in StayStatus  BY <1>a, <1>3 DEF Write, InHand, Work
  <2>1. stay' \in [Stays -> StayStatus] /\ UNCHANGED <<task, check, touched>>
    BY <1>3, <2>0 DEF Write, TasksTypeOK
  <2>2. CASE work[w].by = "operator"
    <3>1. PICK k \in Work : k = Sync(r, s) /\ InHand(k)'  BY SyncOK, <2>0
    <3>2. work' = [work EXCEPT ![w] = k] /\ UNCHANGED disturbed
      BY <1>3, <2>2, <3>1 DEF Write
    <3> QED  BY <1>b, <1>c, <2>1, <3>1, <3>2 DEF TasksTypeOK
  <2>3. CASE work[w].by # "operator"
    <3>1. work' = [work EXCEPT ![w] = Idle] /\ disturbed' = disturbed \cup {r}
      BY <1>3, <2>3 DEF Write
    <3>2. Idle \in Work /\ InHand(Idle)'  BY IdleOK
    <3>3. work' \in [Workers -> Work] /\ work'[w] = Idle
          /\ \A v \in Workers : v # w => work'[v] = work[v]  BY <3>1, <3>2, <1>c
    <3> QED  BY <1>b, <2>0, <2>1, <3>1, <3>2, <3>3 DEF TasksTypeOK
  <2> QED  BY <2>2, <2>3
<1>4. CASE WriteRefused(w)  BY <1>4, <1>i DEF WriteRefused, TasksTypeOK
<1>5. CASE ListOpen(w)
  <2> DEFINE k0 == [work[w] EXCEPT !.pc = "cancel", !.open = ToCancel(work[w].stay)]
  <2>1. UNCHANGED <<stay, task, check, touched, disturbed>> /\ work' = [work EXCEPT ![w] = k0]
    BY <1>5 DEF ListOpen, TasksTypeOK
  <2>2. \A t \in ToCancel(work[w].stay) : t \in Tasks /\ Stored(t) /\ Stored(t)'
    BY <2>1 DEF ToCancel, Open, Stored
  <2>3. k0 \in Work  BY <1>a, <2>2 DEF Work
  <2>4. work[w].stay \in Stays /\ work[w].item = 1  BY <1>a, <1>5 DEF ListOpen, InHand
  <2>5. k0.pc = "cancel" /\ k0.open = ToCancel(work[w].stay) /\ k0.stay = work[w].stay
        /\ k0.item = work[w].item
    BY <1>a DEF Work
  <2>6. PICK k \in Work : k = k0 /\ InHand(k)'
    BY <2>2, <2>3, <2>4, <2>5 DEF InHand
  <2> QED  BY <1>b, <1>c, <2>1, <2>6 DEF TasksTypeOK
<1>6. ASSUME NEW t \in Tasks, CancelTask(w, t)  PROVE RowsInv' /\ TasksGrow
  <2> DEFINE k0 == [work[w] EXCEPT !.open = work[w].open \ {t}]
  <2>1. /\ work[w].pc = "cancel" /\ t \in work[w].open
        /\ task' = [task EXCEPT ![t].status = "cancelled"]
        /\ work' = [work EXCEPT ![w] = k0]
        /\ UNCHANGED <<stay, check, touched, disturbed>>
    BY <1>6 DEF CancelTask, TasksTypeOK
  <2>2. Stored(t)  BY <1>a, <2>1 DEF InHand
  <2>3. task' \in [Tasks -> Task] /\ TasksGrow /\ UnstoredBare'
    BY <2>1, <2>2, StatusKeepsRows
  <2>4. k0 \in Work  BY <1>a DEF Work
  <2>5. \A u \in work[w].open : u \in Tasks /\ Stored(u)'
    BY <1>a, <2>3 DEF InHand, Work, TasksGrow
  <2>6. work[w].stay \in Stays /\ work[w].item = 1  BY <1>a, <2>1 DEF InHand
  <2>7. PICK k \in Work : k = k0 /\ InHand(k)'
    <3>1. k0.pc = "cancel" /\ k0.stay \in Stays /\ k0.item = 1 /\ k0.open \subseteq work[w].open
      BY <1>a, <2>1, <2>6 DEF Work
    <3> QED  BY <2>4, <2>5, <3>1 DEF InHand
  <2> QED  BY <1>c, <1>d, <2>1, <2>3, <2>7
<1>15. ASSUME NEW t \in Tasks, CancelFails(w, t)  PROVE RowsInv' /\ TasksGrow
  <2> DEFINE k0 == [work[w] EXCEPT !.open = work[w].open \ {t}]
  <2>1. /\ work[w].pc = "cancel" /\ work' = [work EXCEPT ![w] = k0]
        /\ touched' = touched \cup {t} /\ UNCHANGED <<stay, task, check, disturbed>>
    BY <1>15 DEF CancelFails, TasksTypeOK
  <2>2. k0 \in Work  BY <1>a DEF Work
  <2>3. work[w].stay \in Stays /\ work[w].item = 1 /\ \A u \in work[w].open : Stored(u)'
    BY <1>a, <2>1 DEF InHand, Stored
  <2>4. PICK k \in Work : k = k0 /\ InHand(k)'
    <3>1. k0.pc = "cancel" /\ k0.stay \in Stays /\ k0.item = 1 /\ k0.open \subseteq work[w].open
      BY <1>a, <2>1, <2>3 DEF Work
    <3> QED  BY <2>2, <2>3, <3>1 DEF InHand
  <2> QED  BY <1>b, <1>c, <2>1, <2>4 DEF TasksTypeOK
<1>7. CASE AllCancelled(w)  BY <1>7, <1>i DEF AllCancelled, TasksTypeOK
\* FindTask: the next statement and its task.
<1>f. ASSUME NEW pc \in {"items", "revive", "insert"}, NEW t \in Tasks \cup {Nil},
             pc # "insert" => t \in Tasks /\ Stored(t) /\ task[t].stay = work[w].stay,
             work[w].pc = "find",
             work' = [work EXCEPT ![w].pc = pc, ![w].task = t],
             UNCHANGED <<stay, task, check, touched, disturbed>>
      PROVE  RowsInv' /\ TasksGrow
  <2> DEFINE k0 == [work[w] EXCEPT !.pc = pc, !.task = t]
  <2>1. work' = [work EXCEPT ![w] = k0]  BY <1>f DEF TasksTypeOK
  <2>2. k0 \in Work  BY <1>a DEF Work
  <2>3. /\ work[w].stay \in Stays /\ work[w].item = 1
        /\ work[w].types # <<>> /\ work[w].open = {}
    BY <1>a, <1>f DEF InHand
  <2>4. /\ k0.pc = pc /\ k0.task = t /\ k0.stay = work[w].stay /\ k0.item = 1
        /\ k0.types # <<>> /\ k0.open = {}
    BY <1>a, <2>3 DEF Work
  <2>5. PICK k \in Work : k = k0 /\ InHand(k)'
    BY <1>f, <2>2, <2>3, <2>4 DEF InHand, Stored
  <2> QED  BY <1>b, <1>c, <1>f, <2>1, <2>5 DEF TasksTypeOK
<1>8. CASE FindTask(w)
  <2> DEFINE r  == work[w].stay
             ty == Head(work[w].types)
  <2>1. work[w].pc = "find" /\ UNCHANGED <<stay, task, check, touched, disturbed>>
    BY <1>8 DEF FindTask
  <2>2. \A t \in Live(r, ty) \cup Reusable(r, ty) :
           t \in Tasks /\ Stored(t) /\ task[t].stay = work[w].stay
    BY DEF Live, Reusable, TasksOf, Stored
  <2>3. \/ \E t \in Live(r, ty) : work' = [work EXCEPT ![w].pc = "items", ![w].task = t]
        \/ \E t \in Reusable(r, ty) : work' = [work EXCEPT ![w].pc = "revive", ![w].task = t]
        \/ work' = [work EXCEPT ![w].pc = "insert", ![w].task = Nil]
    BY <1>8 DEF FindTask
  <2>4. CASE \E t \in Live(r, ty) : work' = [work EXCEPT ![w].pc = "items", ![w].task = t]
    BY <1>f, <2>1, <2>2, <2>4
  <2>5. CASE \E t \in Reusable(r, ty) : work' = [work EXCEPT ![w].pc = "revive", ![w].task = t]
    BY <1>f, <2>1, <2>2, <2>5
  <2>6. CASE work' = [work EXCEPT ![w].pc = "insert", ![w].task = Nil]
    BY <1>f, <2>1, <2>6
  <2> QED  BY <2>3, <2>4, <2>5, <2>6
\* The statement that w goes on to after a write to its task.
<1>g. ASSUME NEW t \in Tasks, work[w].pc \in {"revive", "insert"},
             TasksGrow, Stored(t)', task'[t].stay = work[w].stay,
             NEW k0, k0 = [work[w] EXCEPT !.pc = "items", !.task = t]
      PROVE  k0 \in Work /\ InHand(k0)'
  <2>2. k0 \in Work  BY <1>a, <1>g DEF Work
  <2>3. /\ work[w].stay \in Stays /\ work[w].item = 1
        /\ work[w].types # <<>> /\ work[w].open = {}
    BY <1>a, <1>g DEF InHand
  <2>4. /\ k0.pc = "items" /\ k0.task = t /\ k0.stay = work[w].stay /\ k0.item = 1
        /\ k0.types # <<>> /\ k0.open = {}
    BY <1>a, <1>g, <2>3 DEF Work
  <2> QED  BY <1>g, <2>2, <2>3, <2>4 DEF InHand
<1>9. CASE Revive(w)
  <2>1. PICK t \in Tasks :
          /\ t = work[w].task /\ Stored(t) /\ task[t].stay = work[w].stay
          /\ task' = [task EXCEPT ![t].status = "todo"]
    BY <1>9, <1>a DEF Revive, InHand
  <2>2. /\ work[w].pc = "revive"
        /\ work' = [work EXCEPT ![w].pc = "items"]
        /\ UNCHANGED <<stay, check, touched, disturbed>>
    BY <1>9 DEF Revive
  <2>3. task' \in [Tasks -> Task] /\ TasksGrow /\ UnstoredBare'
    <3>1. "todo" \in Open \cup {"done", "cancelled"}  BY DEF Open
    <3> QED  BY <2>1, <3>1, StatusKeepsRows
  <2>4. Stored(t)' /\ task'[t].stay = work[w].stay
    BY <2>1, <2>3 DEF TasksGrow
  <2>5. work' = [work EXCEPT ![w] = [work[w] EXCEPT !.pc = "items", !.task = t]]
    BY <1>a, <2>1, <2>2 DEF TasksTypeOK, Work
  <2>6. PICK k \in Work : k = [work[w] EXCEPT !.pc = "items", !.task = t] /\ InHand(k)'
    <3>1. PICK k : k = [work[w] EXCEPT !.pc = "items", !.task = t]  OBVIOUS
    <3> QED  BY <1>g, <2>2, <2>3, <2>4, <3>1
  <2> QED  BY <1>c, <1>d, <2>2, <2>3, <2>5, <2>6
<1>16. CASE ReviveFails(w)
  <2> DEFINE k0 == [work[w] EXCEPT !.pc = "insert"]
  <2>1. /\ work[w].pc = "revive" /\ work' = [work EXCEPT ![w] = k0]
        /\ UNCHANGED <<stay, task, check, touched, disturbed>>
    BY <1>16 DEF ReviveFails, TasksTypeOK
  <2>2. k0 \in Work  BY <1>a DEF Work
  <2>3. /\ work[w].stay \in Stays /\ work[w].item = 1
        /\ work[w].types # <<>> /\ work[w].open = {}
    BY <1>a, <2>1 DEF InHand
  <2>4. /\ k0.pc = "insert" /\ k0.stay = work[w].stay /\ k0.item = 1
        /\ k0.types # <<>> /\ k0.open = {}
    BY <1>a, <2>3 DEF Work
  <2>5. PICK k \in Work : k = k0 /\ InHand(k)'
    BY <2>2, <2>3, <2>4 DEF InHand
  <2> QED  BY <1>b, <1>c, <2>1, <2>5 DEF TasksTypeOK
<1>10. CASE InsertTask(w)
  <2>1. PICK t \in Tasks :
          /\ task[t].status = "absent"
          /\ task' = [task EXCEPT ![t] = [NoTask EXCEPT
                       !.stay = work[w].stay, !.type = Head(work[w].types), !.status = "todo",
                       !.spare = (work[w].task # Nil)]]
          /\ work' = [work EXCEPT ![w].pc = "items", ![w].task = t]
    BY <1>10 DEF InsertTask
  <2>2. work[w].pc = "insert" /\ UNCHANGED <<stay, check, touched, disturbed>>
    BY <1>10 DEF InsertTask
  <2>3. work[w].stay \in Stays /\ Head(work[w].types) \in Types
    BY <1>a, <2>2 DEF InHand, Work
  <2> DEFINE new == [NoTask EXCEPT !.stay = work[w].stay, !.type = Head(work[w].types),
                                   !.status = "todo", !.spare = (work[w].task # Nil)]
  <2>4. new \in Task /\ new.status = "todo" /\ new.stay = work[w].stay
    BY <2>3 DEF Task, NoTask, Open
  <2>5. \A u \in Tasks : task'[u] = IF u = t THEN new ELSE task[u]
    BY <2>1 DEF TasksTypeOK
  <2>6. task' \in [Tasks -> Task]  BY <2>1, <2>4 DEF TasksTypeOK
  <2>7. TasksGrow  BY <2>1, <2>5 DEF TasksGrow, Stored
  <2>8. UnstoredBare'  BY <2>4, <2>5 DEF UnstoredBare, Stored
  <2>9. Stored(t)' /\ task'[t].stay = work[w].stay  BY <2>4, <2>5 DEF Stored
  <2>10. work' = [work EXCEPT ![w] = [work[w] EXCEPT !.pc = "items", !.task = t]]
    BY <2>1 DEF TasksTypeOK
  <2>11. PICK k \in Work : k = [work[w] EXCEPT !.pc = "items", !.task = t] /\ InHand(k)'
    <3>1. PICK k : k = [work[w] EXCEPT !.pc = "items", !.task = t]  OBVIOUS
    <3> QED  BY <1>g, <2>2, <2>7, <2>9, <3>1
  <2> QED  BY <1>c, <1>d, <2>2, <2>6, <2>7, <2>8, <2>10, <2>11
<1>11. CASE ListItems(w)
  <2>1. work[w].pc = "items" /\ UNCHANGED <<stay, task, check, touched, disturbed>>
    BY <1>11 DEF ListItems
  <2>2. CASE NextBlueprint(w)
    BY <1>a, <1>b, <2>1, <2>2, NextBlueprintOK DEF TasksTypeOK
  <2>3. CASE work' = [work EXCEPT ![w].pc = "add"]
    <3> DEFINE k0 == [work[w] EXCEPT !.pc = "add"]
    <3>1. k0 \in Work /\ work' = [work EXCEPT ![w] = k0]
      BY <1>a, <2>3 DEF Work, TasksTypeOK
    <3>2. /\ work[w].item = 1 /\ work[w].open = {} /\ work[w].types # <<>>
          /\ work[w].stay \in Stays
          /\ work[w].task \in Tasks /\ Stored(work[w].task)
          /\ task[work[w].task].stay = work[w].stay
      BY <1>a, <2>1 DEF InHand
    <3>3. /\ k0.pc = "add" /\ k0.item = 1 /\ k0.open = {} /\ k0.types # <<>>
          /\ k0.stay = work[w].stay /\ k0.task = work[w].task
      BY <1>a, <3>2 DEF Work
    <3>4. PICK k \in Work : k = k0  BY <3>1
    <3>5. 1..(k.item - 1) = {}  BY <3>3, <3>4
    <3>6. InHand(k)'
      BY <2>1, <3>2, <3>3, <3>4, <3>5 DEF InHand, Stored
    <3> QED  BY <1>b, <1>c, <2>1, <3>1, <3>4, <3>6 DEF TasksTypeOK
  <2> QED  BY <1>11, <2>2, <2>3 DEF ListItems
\* One more item, added or lost, makes the task row.
<1>h. ASSUME NEW t \in Tasks, NEW n \in 1..(Items + 1), NEW row \in Task,
             t = work[w].task, n = work[w].item, n <= Items, work[w].pc = "add",
             row.status = task[t].status, row.stay = task[t].stay, row.type = task[t].type,
             task[t].items \subseteq row.items, task[t].lost \subseteq row.lost,
             n \in row.items \cup row.lost,
             task' = [task EXCEPT ![t] = row],
             work' = [work EXCEPT ![w].item = n + 1],
             UNCHANGED <<stay, check, touched, disturbed>>
      PROVE  RowsInv' /\ TasksGrow
  <2> DEFINE k0 == [work[w] EXCEPT !.item = n + 1]
  <2>1. /\ Stored(t) /\ task[t].stay = work[w].stay
        /\ 1..(n - 1) \subseteq task[t].items \cup task[t].lost
        /\ work[w].open = {} /\ work[w].types # <<>> /\ work[w].stay \in Stays
    BY <1>a, <1>h DEF InHand
  <2>2. n \in 1..(Items + 1) /\ n \in 1..Items /\ n + 1 \in 1..(Items + 1)
    BY <1>h
  <2>3. k0 \in Work /\ work' = [work EXCEPT ![w] = k0]
    BY <1>a, <1>h, <2>2 DEF Work, TasksTypeOK
  <2>4. \A u \in Tasks : task'[u] = IF u = t THEN row ELSE task[u]
    BY <1>h DEF TasksTypeOK
  <2>5. task' \in [Tasks -> Task]  BY <1>h DEF TasksTypeOK
  <2>6. TasksGrow  BY <1>h, <2>4 DEF TasksGrow, Stored
  <2>7. UnstoredBare'  BY <1>h, <2>1, <2>4 DEF UnstoredBare, Stored
  <2>8. /\ k0.pc = "add" /\ k0.item = n + 1 /\ k0.open = {} /\ k0.types # <<>>
        /\ k0.stay = work[w].stay /\ k0.task = t
    BY <1>a, <1>h, <2>1 DEF Work
  <2>9. 1..((n + 1) - 1) \subseteq row.items \cup row.lost
    <3>1. \A i \in 1..((n + 1) - 1) : i \in 1..(n - 1) \/ i = n  OBVIOUS
    <3> QED  BY <1>h, <2>1, <3>1
  <2>10. PICK k \in Work : k = k0  BY <2>3
  <2>11. 1..(k.item - 1) \subseteq task'[k.task].items \cup task'[k.task].lost
    BY <2>4, <2>8, <2>9, <2>10
  <2>12. Stored(t)' /\ task'[t].stay = k.stay  BY <1>h, <2>1, <2>4, <2>8, <2>10 DEF Stored
  <2>13. InHand(k)'
    BY <2>1, <2>8, <2>10, <2>11, <2>12 DEF InHand
  <2> QED  BY <1>c, <1>d, <1>h, <2>3, <2>5, <2>6, <2>7, <2>10, <2>13
<1>12. CASE AddItem(w)
  <2>1. PICK t \in Tasks, n \in 1..(Items + 1) :
          /\ t = work[w].task /\ n = work[w].item /\ n <= Items
          /\ task' = [task EXCEPT ![t].items = task[t].items \cup {n}]
          /\ work' = [work EXCEPT ![w].item = n + 1]
    BY <1>12, <1>a DEF AddItem, LastItem, InHand, Work
  <2>2. work[w].pc = "add" /\ UNCHANGED <<stay, check, touched, disturbed>>
    BY <1>12 DEF AddItem
  <2>3. PICK row : row = [task[t] EXCEPT !.items = task[t].items \cup {n}]  OBVIOUS
  <2>4. task[t] \in Task /\ n \in 1..Items  BY <2>1 DEF TasksTypeOK
  <2>5. row \in Task  BY <2>3, <2>4 DEF Task
  <2>6. /\ row.status = task[t].status /\ row.stay = task[t].stay /\ row.type = task[t].type
        /\ row.items = task[t].items \cup {n} /\ row.lost = task[t].lost
    BY <2>3, <2>4 DEF Task
  <2>7. task' = [task EXCEPT ![t] = row]  BY <2>1, <2>3 DEF TasksTypeOK
  <2>8. /\ n \in row.items \cup row.lost
        /\ task[t].items \subseteq row.items /\ task[t].lost \subseteq row.lost
    BY <2>6
  <2> QED  BY <1>h, <2>1, <2>2, <2>5, <2>6, <2>7, <2>8
<1>17. CASE ItemFails(w)
  <2>1. PICK t \in Tasks, n \in 1..(Items + 1) :
          /\ t = work[w].task /\ n = work[w].item /\ n <= Items
          /\ task' = [task EXCEPT ![t].lost = task[t].lost \cup {n}]
          /\ work' = [work EXCEPT ![w].item = n + 1]
    BY <1>17, <1>a DEF ItemFails, LastItem, InHand, Work
  <2>2. work[w].pc = "add" /\ UNCHANGED <<stay, check, touched, disturbed>>
    BY <1>17 DEF ItemFails
  <2>3. PICK row : row = [task[t] EXCEPT !.lost = task[t].lost \cup {n}]  OBVIOUS
  <2>4. task[t] \in Task /\ n \in 1..Items  BY <2>1 DEF TasksTypeOK
  <2>5. row \in Task  BY <2>3, <2>4 DEF Task
  <2>6. /\ row.status = task[t].status /\ row.stay = task[t].stay /\ row.type = task[t].type
        /\ row.items = task[t].items /\ row.lost = task[t].lost \cup {n}
    BY <2>3, <2>4 DEF Task
  <2>7. task' = [task EXCEPT ![t] = row]  BY <2>1, <2>3 DEF TasksTypeOK
  <2>8. /\ n \in row.items \cup row.lost
        /\ task[t].items \subseteq row.items /\ task[t].lost \subseteq row.lost
    BY <2>6
  <2> QED  BY <1>h, <2>1, <2>2, <2>5, <2>6, <2>7, <2>8
<1>13. CASE AllAdded(w)
  BY <1>13, <1>a, <1>b, NextBlueprintOK DEF AllAdded, TasksTypeOK
<1>14. CASE CutShort(w)
  <2>1. work[w].stay \in Stays  BY <1>14, <1>a DEF CutShort, InHand
  <2> QED  BY <1>14, <1>i, <2>1 DEF CutShort, TasksTypeOK
<1> QED
  BY <1>1, <1>2, <1>3, <1>4, <1>5, <1>6, <1>7, <1>8, <1>9, <1>10, <1>11, <1>12, <1>13, <1>14,
     <1>15, <1>16, <1>17
  DEF WorkerStep

\* A step of staff: no task moves or changes its checklist.
LEMMA StaffKeepsRows ==
    ASSUME RowsInv, StaffStep \/ Patching
    PROVE  /\ RowsInv'
           /\ UNCHANGED <<work, disturbed>>
           /\ \A t \in Tasks : Kept(t)
<1> USE DEF RowsInv
\* A status written by hand or by complete_task.
<1>a. ASSUME NEW t \in Tasks, Stored(t), NEW s \in Open \cup {"done", "cancelled"},
             task' = [task EXCEPT ![t].status = s],
             check' \in [Staff -> Tasks \cup {Nil}],
             \A m \in Staff : check'[m] # Nil => check'[m] = check[m],
             touched' \subseteq Tasks, UNCHANGED <<stay, work, disturbed>>
      PROVE  /\ RowsInv'
             /\ \A u \in Tasks : Kept(u)
  <2>1. task' \in [Tasks -> Task] /\ TasksGrow /\ UnstoredBare'
    BY <1>a, StatusKeepsRows
  <2>2. (\A m \in Staff : check[m] # Nil => Stored(check[m]))'
    BY <1>a, <2>1 DEF HandsOK, TasksGrow, TasksTypeOK
  <2>3. HandsOK'  BY <1>a, <2>1, <2>2, AllHandsKept
  <2>4. TasksTypeOK'  BY <1>a, <2>1 DEF TasksTypeOK
  <2>5. task[t] \in Task  BY DEF TasksTypeOK
  <2>6. \A u \in Tasks : task'[u] = IF u = t THEN [task[t] EXCEPT !.status = s] ELSE task[u]
    BY <1>a DEF TasksTypeOK
  <2> QED  BY <2>1, <2>3, <2>4, <2>5, <2>6 DEF Task, Kept, Placed
<1>1. ASSUME NEW t \in Tasks, NEW n \in 1..Items, NEW done \in BOOLEAN, Tick(t, n, done)
      PROVE  /\ RowsInv'
             /\ UNCHANGED <<work, disturbed>>
             /\ \A u \in Tasks : Kept(u)
  <2>1. PICK T \in SUBSET (1..Items) : task' = [task EXCEPT ![t].ticked = T]
    <3>1. task[t].ticked \subseteq 1..Items  BY DEF TasksTypeOK, Task
    <3>2. CASE done
      <4>1. task' = [task EXCEPT ![t].ticked = task[t].ticked \cup {n}]  BY <1>1, <3>2 DEF Tick
      <4> QED  BY <3>1, <4>1
    <3>3. CASE ~done
      <4>1. task' = [task EXCEPT ![t].ticked = task[t].ticked \ {n}]  BY <1>1, <3>3 DEF Tick
      <4> QED  BY <3>1, <4>1
    <3> QED  BY <3>2, <3>3
  <2>2. n \in task[t].items /\ UNCHANGED <<stay, work, check, touched, disturbed>>
    BY <1>1 DEF Tick
  <2>3. task[t] \in Task /\ [task[t] EXCEPT !.ticked = T] \in Task
    BY DEF TasksTypeOK, Task
  <2>4. \A u \in Tasks : task'[u] = IF u = t THEN [task[t] EXCEPT !.ticked = T] ELSE task[u]
    BY <2>1 DEF TasksTypeOK
  <2>5. task' \in [Tasks -> Task]  BY <2>1, <2>3 DEF TasksTypeOK
  <2>6. \A u \in Tasks : Kept(u) /\ task'[u].status = task[u].status
    BY <2>3, <2>4 DEF Task, Kept, Placed
  <2>7. TasksGrow  BY <2>6 DEF TasksGrow, Stored, Kept, Placed
  <2>8. Stored(t)  BY <2>2 DEF UnstoredBare, NoTask
  <2>9. UnstoredBare'  BY <2>4, <2>6, <2>8 DEF UnstoredBare, Stored
  <2>10. (\A m \in Staff : check[m] # Nil => Stored(check[m]))'
    BY <2>2, <2>7 DEF HandsOK, TasksGrow, TasksTypeOK
  <2>11. HandsOK'  BY <2>2, <2>7, <2>10, AllHandsKept
  <2>12. TasksTypeOK'  BY <2>2, <2>5 DEF TasksTypeOK
  <2> QED  BY <2>2, <2>6, <2>9, <2>11, <2>12
<1>2. ASSUME NEW m \in Staff, NEW t \in Tasks, CompleteCheck(m, t)
      PROVE  /\ RowsInv'
             /\ UNCHANGED <<work, disturbed>>
             /\ UNCHANGED task
  <2>1. /\ check' = [check EXCEPT ![m] = t] /\ task[t].status # "absent"
        /\ UNCHANGED <<stay, task, work, touched, disturbed>>
    BY <1>2 DEF CompleteCheck
  <2>2. TasksGrow /\ UnstoredBare'  BY <2>1, RowsGrow
  <2>3. (\A v \in Staff : check[v] # Nil => Stored(check[v]))'
    BY <2>1 DEF HandsOK, TasksTypeOK, Stored
  <2>4. HandsOK'  BY <2>1, <2>2, <2>3, AllHandsKept
  <2>5. TasksTypeOK'  BY <2>1 DEF TasksTypeOK
  <2> QED  BY <2>1, <2>2, <2>4, <2>5
<1>3. ASSUME NEW m \in Staff, CompleteWrite(m)
      PROVE  /\ RowsInv'
             /\ UNCHANGED <<work, disturbed>>
             /\ \A u \in Tasks : Kept(u)
  <2>1. PICK t \in Tasks : t = check[m] /\ Stored(t) /\ task' = [task EXCEPT ![t].status = "done"]
    BY <1>3 DEF CompleteWrite, TasksTypeOK, HandsOK
  <2>2. check' = [check EXCEPT ![m] = Nil] /\ UNCHANGED <<stay, work, touched, disturbed>>
    BY <1>3 DEF CompleteWrite
  <2>3. check' \in [Staff -> Tasks \cup {Nil}]
        /\ \A v \in Staff : check'[v] # Nil => check'[v] = check[v]
    BY <2>2 DEF TasksTypeOK
  <2>4. touched' \subseteq Tasks  BY <2>2 DEF TasksTypeOK
  <2> QED  BY <1>a, <2>1, <2>2, <2>3, <2>4
<1>4. ASSUME NEW t \in Tasks, NEW s \in Open \cup {"done", "cancelled"}, PatchTask(t, s)
      PROVE  /\ RowsInv'
             /\ UNCHANGED <<work, disturbed>>
             /\ \A u \in Tasks : Kept(u)
  <2>1. /\ Stored(t) /\ task' = [task EXCEPT ![t].status = s]
        /\ touched' = touched \cup {t} /\ UNCHANGED <<stay, work, check, disturbed>>
    BY <1>4 DEF PatchTask, Stored
  <2>2. touched' \subseteq Tasks /\ check' \in [Staff -> Tasks \cup {Nil}]
    BY <2>1 DEF TasksTypeOK
  <2> QED  BY <1>a, <2>1, <2>2
<1>5. CASE StaffStep  BY <1>1, <1>2, <1>3, <1>5 DEF StaffStep, Kept, Placed
<1>6. CASE Patching  BY <1>4, <1>6 DEF Patching
<1> QED  BY <1>5, <1>6

-----------------------------------------------------------------------------
(* Checklists.                                                             *)

\* A step that moves no task and changes no checklist, and at which nobody
\* but w goes on.
LEMMA NoItemsKeepWhole ==
    ASSUME RowsInv, WholeOrInHand, disturbed \subseteq disturbed',
           \A t \in Tasks : Kept(t),
           \A v \in Workers, t \in Tasks : Building(work[v], t) =>
               \/ work'[v] = work[v]
               \/ Building(work[v], t)'
               \/ task[t].stay \in disturbed'
               \/ task[t].items \cup task[t].lost = 1..Items
    PROVE  WholeOrInHand'
<1> SUFFICES ASSUME NEW t \in Tasks, task[t].stay \notin disturbed' \cup {Nil},
                    task[t].items \cup task[t].lost # 1..Items
             PROVE  \E v \in Workers : Building(work[v], t)'
  BY DEF WholeOrInHand, Kept, Placed
<1>1. PICK v \in Workers : Building(work[v], t)  BY DEF WholeOrInHand
<1>2. CASE work'[v] = work[v]
  <2>1. Building(work[v], t)'  BY <1>1, <1>2 DEF Building, Kept, Placed
  <2> QED  BY <2>1
<1> QED  BY <1>1, <1>2

LEMMA WorkerKeepsWhole ==
    ASSUME RowsInv, WholeOrInHand, NEW w \in Workers, WorkerStep(w)
    PROVE  WholeOrInHand'
<1> USE DEF RowsInv
<1>a. work[w] \in Work /\ InHand(work[w])  BY DEF TasksTypeOK, HandsOK
\* Steps of a handler that has no checklist in hand, or is done with it.
<1>b. ASSUME \A t \in Tasks : Kept(t),
             disturbed \subseteq disturbed',
             \A v \in Workers : v # w => work'[v] = work[v],
             work[w].pc \notin {"items", "add"}
      PROVE  WholeOrInHand'
  <2>1. \A t \in Tasks : ~Building(work[w], t)  BY <1>b DEF Building
  <2> QED  BY <1>b, <2>1, NoItemsKeepWhole
<1>1. ASSUME NEW r \in Stays, NEW s \in StayStatus \ {"absent"}, Create(w, r, s)
      PROVE  WholeOrInHand'
  BY <1>1, <1>b DEF Create, TasksTypeOK, Kept, Placed
<1>2. ASSUME NEW r \in Stays, NEW s \in StayStatus, NEW by \in {"operator", "workflow"},
             Read(w, r, s, by)
      PROVE  WholeOrInHand'
  BY <1>2, <1>b DEF Read, TasksTypeOK, Kept, Placed
<1>3. CASE Write(w)  BY <1>3, <1>b DEF Write, TasksTypeOK, Kept, Placed
<1>4. CASE WriteRefused(w)  BY <1>4, <1>b DEF WriteRefused, TasksTypeOK, Kept, Placed
<1>5. CASE ListOpen(w)  BY <1>5, <1>b DEF ListOpen, TasksTypeOK, Kept, Placed
<1>6. ASSUME NEW t \in Tasks, CancelTask(w, t)  PROVE WholeOrInHand'
  <2>1. \A u \in Tasks : task[u] \in Task  BY DEF TasksTypeOK
  <2>2. task' = [task EXCEPT ![t].status = "cancelled"]  BY <1>6 DEF CancelTask
  <2>3. \A u \in Tasks : Kept(u)
    BY <2>1, <2>2 DEF TasksTypeOK, Task, Kept, Placed
  <2> QED  BY <1>6, <1>b, <2>3 DEF CancelTask, TasksTypeOK
<1>15. ASSUME NEW t \in Tasks, CancelFails(w, t)  PROVE WholeOrInHand'
  BY <1>15, <1>b DEF CancelFails, TasksTypeOK, Kept, Placed
<1>7. CASE AllCancelled(w)  BY <1>7, <1>b DEF AllCancelled, TasksTypeOK, Kept, Placed
<1>8. CASE FindTask(w)  BY <1>8, <1>b DEF FindTask, TasksTypeOK, Kept, Placed
<1>9. CASE Revive(w)
  <2>1. PICK t \in Tasks : task' = [task EXCEPT ![t].status = "todo"]
    BY <1>9, <1>a DEF Revive, InHand
  <2>2. \A u \in Tasks : task[u] \in Task  BY DEF TasksTypeOK
  <2>3. \A u \in Tasks : Kept(u)
    BY <2>1, <2>2 DEF TasksTypeOK, Task, Kept, Placed
  <2> QED  BY <1>9, <1>b, <2>3 DEF Revive, TasksTypeOK
<1>16. CASE ReviveFails(w)  BY <1>16, <1>b DEF ReviveFails, TasksTypeOK, Kept, Placed
<1>10. CASE InsertTask(w)
  <2>1. PICK t \in Tasks :
          /\ task' = [task EXCEPT ![t] = [NoTask EXCEPT
                       !.stay = work[w].stay, !.type = Head(work[w].types), !.status = "todo",
                       !.spare = (work[w].task # Nil)]]
          /\ work' = [work EXCEPT ![w].pc = "items", ![w].task = t]
    BY <1>10 DEF InsertTask
  <2>2. work[w].pc = "insert" /\ UNCHANGED disturbed  BY <1>10 DEF InsertTask
  <2>3. task'[t].stay = work[w].stay /\ task'[t].items = {}
    BY <2>1 DEF TasksTypeOK, NoTask
  <2>4. work'[w] = [work[w] EXCEPT !.pc = "items", !.task = t]  BY <2>1 DEF TasksTypeOK
  <2>5. work'[w].pc = "items" /\ work'[w].task = t /\ work'[w].stay = work[w].stay
    BY <1>a, <2>4 DEF Work
  <2>6. Building(work[w], t)'  BY <2>3, <2>5 DEF Building
  <2>7. \A u \in Tasks : u # t => task'[u] = task[u]  BY <2>1 DEF TasksTypeOK
  <2>8. \A v \in Workers : v # w => work'[v] = work[v]  BY <2>1 DEF TasksTypeOK
  <2>9. \A u \in Tasks : ~Building(work[w], u)  BY <2>2 DEF Building
  <2>10. \A v \in Workers, u \in Tasks :
            u # t /\ Building(work[v], u) => Building(work[v], u)'
    BY <2>7, <2>8, <2>9 DEF Building
  <2> QED  BY <2>2, <2>6, <2>7, <2>10 DEF WholeOrInHand
<1>11. CASE ListItems(w)
  <2>1. UNCHANGED <<task, disturbed>> /\ work[w].pc = "items"  BY <1>11 DEF ListItems
  <2>2. CASE task[work[w].task].items # {} /\ NextBlueprint(w)
    <3>1. \A t \in Tasks : ~Building(work[w], t)  BY <2>1, <2>2 DEF Building
    <3>2. \A v \in Workers : v # w => work'[v] = work[v]  BY <2>2 DEF NextBlueprint, TasksTypeOK
    <3> QED  BY <2>1, <3>1, <3>2, NoItemsKeepWhole DEF Kept, Placed
  <2>3. CASE work' = [work EXCEPT ![w].pc = "add"]
    <3>1. \A v \in Workers : v # w => work'[v] = work[v]  BY <2>3 DEF TasksTypeOK
    <3>2. work'[w].pc = "add" /\ work'[w].task = work[w].task /\ work'[w].stay = work[w].stay
      BY <1>a, <2>3 DEF TasksTypeOK, Work
    <3>3. \A t \in Tasks : Building(work[w], t) => Building(work[w], t)'
      BY <2>1, <3>2 DEF Building
    <3> QED  BY <2>1, <3>1, <3>3, NoItemsKeepWhole DEF Kept, Placed
  <2> QED  BY <1>11, <2>2, <2>3 DEF ListItems
\* One more item, added or lost.
<1>c. ASSUME NEW t \in Tasks, NEW n, t = work[w].task, task[t].stay = work[w].stay,
             work[w].pc = "add", UNCHANGED disturbed,
             task'[t].stay = task[t].stay,
             \A u \in Tasks : u # t => task'[u] = task[u],
             work' = [work EXCEPT ![w].item = n]
      PROVE  WholeOrInHand'
  <2>1. work'[w].pc = "add" /\ work'[w].task = t /\ work'[w].stay = work[w].stay
    BY <1>a, <1>c DEF TasksTypeOK, Work
  <2>2. Building(work[w], t)'  BY <1>c, <2>1 DEF Building
  <2>3. \A v \in Workers : v # w => work'[v] = work[v]  BY <1>c DEF TasksTypeOK
  <2>4. \A u \in Tasks : u # t => ~Building(work[w], u)  BY <1>c DEF Building
  <2>5. \A v \in Workers, u \in Tasks :
           u # t /\ Building(work[v], u) => Building(work[v], u)'
    BY <1>c, <2>3, <2>4 DEF Building
  <2> QED  BY <1>c, <2>2, <2>5 DEF WholeOrInHand
<1>12. CASE AddItem(w)
  <2>1. PICK t \in Tasks, n \in 1..(Items + 1) :
          /\ t = work[w].task /\ task[t].stay = work[w].stay
          /\ task' = [task EXCEPT ![t].items = task[t].items \cup {n}]
          /\ work' = [work EXCEPT ![w].item = n + 1]
    BY <1>12, <1>a DEF AddItem, InHand, Work
  <2>2. work[w].pc = "add" /\ UNCHANGED disturbed  BY <1>12 DEF AddItem
  <2>3. task'[t].stay = task[t].stay /\ \A u \in Tasks : u # t => task'[u] = task[u]
    BY <2>1 DEF TasksTypeOK, Task
  <2> QED  BY <1>c, <2>1, <2>2, <2>3
<1>17. CASE ItemFails(w)
  <2>1. PICK t \in Tasks, n \in 1..(Items + 1) :
          /\ t = work[w].task /\ task[t].stay = work[w].stay
          /\ task' = [task EXCEPT ![t].lost = task[t].lost \cup {n}]
          /\ work' = [work EXCEPT ![w].item = n + 1]
    BY <1>17, <1>a DEF ItemFails, InHand, Work
  <2>2. work[w].pc = "add" /\ UNCHANGED disturbed  BY <1>17 DEF ItemFails
  <2>3. task'[t].stay = task[t].stay /\ \A u \in Tasks : u # t => task'[u] = task[u]
    BY <2>1 DEF TasksTypeOK, Task
  <2> QED  BY <1>c, <2>1, <2>2, <2>3
<1>13. CASE AllAdded(w)
  <2>1. UNCHANGED <<task, disturbed>> /\ NextBlueprint(w) /\ work[w].pc = "add"
        /\ work[w].item > Items
    BY <1>13 DEF AllAdded, LastItem
  <2>2. \A v \in Workers : v # w => work'[v] = work[v]  BY <2>1 DEF NextBlueprint, TasksTypeOK
  <2>3. work[w].item = Items + 1 /\ (Items + 1) - 1 = Items  BY <1>a, <2>1 DEF Work
  <2>4. /\ 1..Items \subseteq task[work[w].task].items \cup task[work[w].task].lost
        /\ work[w].task \in Tasks
    BY <1>a, <2>1, <2>3 DEF InHand
  <2>5. task[work[w].task].items \cup task[work[w].task].lost = 1..Items
    BY <2>4 DEF TasksTypeOK, Task
  <2>6. \A t \in Tasks : Building(work[w], t) => task[t].items \cup task[t].lost = 1..Items
    BY <2>5 DEF Building
  <2> QED  BY <2>1, <2>2, <2>6, NoItemsKeepWhole DEF Kept, Placed
<1>14. CASE CutShort(w)
  <2>1. UNCHANGED task /\ disturbed' = disturbed \cup {work[w].stay}  BY <1>14 DEF CutShort
  <2>2. \A v \in Workers : v # w => work'[v] = work[v]  BY <1>14 DEF CutShort, TasksTypeOK
  <2>3. \A t \in Tasks : Building(work[w], t) => task[t].stay \in disturbed'
    BY <2>1 DEF Building
  <2> QED  BY <2>1, <2>2, <2>3, NoItemsKeepWhole DEF Kept, Placed
<1> QED
  BY <1>1, <1>2, <1>3, <1>4, <1>5, <1>6, <1>7, <1>8, <1>9, <1>10, <1>11, <1>12, <1>13, <1>14,
     <1>15, <1>16, <1>17
  DEF WorkerStep

-----------------------------------------------------------------------------
(* Duplicates.                                                             *)

\* For one stay and type: nothing made, or nothing new made and nobody new on
\* the way.
LEMMA BoundKept ==
    ASSUME NEW r \in Stays, NEW ty \in Types, InsertsBounded,
           \/ Made(r, ty)' = {}
           \/ Made(r, ty)' = Made(r, ty) /\ Inserting(r, ty)' \subseteq Inserting(r, ty)
    PROVE  /\ IsFiniteSet(Made(r, ty)')
           /\ Cardinality(Made(r, ty)') + Cardinality(Inserting(r, ty)') <= Cardinality(Workers)
<1>0. IsFiniteSet(Workers) /\ Cardinality(Workers) \in Nat
  BY ItemsAssumption, FS_CardinalityType
<1>1. Inserting(r, ty) \subseteq Workers /\ Inserting(r, ty)' \subseteq Workers  BY DEF Inserting
<1>2. /\ IsFiniteSet(Inserting(r, ty)') /\ Cardinality(Inserting(r, ty)') \in Nat
      /\ Cardinality(Inserting(r, ty)') <= Cardinality(Workers)
      /\ IsFiniteSet(Inserting(r, ty)) /\ Cardinality(Inserting(r, ty)) \in Nat
  BY <1>0, <1>1, FS_Subset, FS_CardinalityType
<1>3. CASE Made(r, ty)' = {}
  BY <1>0, <1>2, <1>3, FS_EmptySet
<1>4. CASE Made(r, ty)' = Made(r, ty) /\ Inserting(r, ty)' \subseteq Inserting(r, ty)
  <2>1. Cardinality(Inserting(r, ty)') <= Cardinality(Inserting(r, ty))
    BY <1>2, <1>4, FS_Subset
  <2>2. /\ IsFiniteSet(Made(r, ty))
        /\ Cardinality(Made(r, ty)) + Cardinality(Inserting(r, ty)) <= Cardinality(Workers)
    BY DEF InsertsBounded
  <2>3. Cardinality(Made(r, ty)) \in Nat  BY <2>2, FS_CardinalityType
  <2> QED  BY <1>0, <1>2, <1>4, <2>1, <2>2, <2>3
<1> QED  BY <1>3, <1>4

\* A step that moves no task, and after which nobody new is about to insert.
LEMMA NoInsertKeepsBound ==
    ASSUME InsertsBounded,
           \A t \in Tasks : Placed(t),
           \A v \in Workers : work'[v] = work[v] \/ work'[v].pc # "insert"
    PROVE  InsertsBounded'
<1> SUFFICES ASSUME NEW r \in Stays, NEW ty \in Types
             PROVE  /\ IsFiniteSet(Made(r, ty)')
                    /\ Cardinality(Made(r, ty)') + Cardinality(Inserting(r, ty)')
                         <= Cardinality(Workers)
  BY DEF InsertsBounded
<1>1. Made(r, ty)' = Made(r, ty)  BY DEF Made, Placed
<1>2. Inserting(r, ty)' \subseteq Inserting(r, ty)  BY DEF Inserting
<1> QED  BY <1>1, <1>2, BoundKept

LEMMA WorkerKeepsBound ==
    ASSUME RowsInv, InsertsBounded, NEW w \in Workers, WorkerStep(w)
    PROVE  InsertsBounded'
<1> USE DEF RowsInv
<1>a. work[w] \in Work /\ InHand(work[w])  BY DEF TasksTypeOK, HandsOK
<1>b. ASSUME \A t \in Tasks : Placed(t),
             \A v \in Workers : v # w => work'[v] = work[v],
             work'[w].pc # "insert"
      PROVE  InsertsBounded'
  BY <1>b, NoInsertKeepsBound
<1>i. Idle.pc # "insert"  BY DEF Idle
<1>1. ASSUME NEW r \in Stays, NEW s \in StayStatus \ {"absent"}, Create(w, r, s)
      PROVE  InsertsBounded'
  <2>1. UNCHANGED task /\ work' = [work EXCEPT ![w] = Sync(r, s)]  BY <1>1 DEF Create
  <2>2. Sync(r, s).pc # "insert"  BY SyncOK
  <2> QED  BY <1>b, <2>1, <2>2 DEF TasksTypeOK, Placed
<1>2. ASSUME NEW r \in Stays, NEW s \in StayStatus, NEW by \in {"operator", "workflow"},
             Read(w, r, s, by)
      PROVE  InsertsBounded'
  <2>1. UNCHANGED task
        /\ work' = [work EXCEPT ![w] = [Idle EXCEPT !.pc = "write", !.by = by,
                                                   !.stay = r, !.want = s]]
    BY <1>2 DEF Read
  <2>2. [Idle EXCEPT !.pc = "write", !.by = by, !.stay = r, !.want = s].pc = "write"
    BY DEF Idle
  <2> QED  BY <1>b, <2>1, <2>2 DEF TasksTypeOK, Placed
<1>3. CASE Write(w)
  <2>1. work[w].stay \in Stays /\ work[w].want \in StayStatus
    BY <1>a, <1>3 DEF Write, InHand, Work
  <2>2. PICK k : k = Sync(work[w].stay, work[w].want) /\ k.pc # "insert"
    BY <2>1, SyncOK
  <2>3. work' = [work EXCEPT ![w] = k] \/ work' = [work EXCEPT ![w] = Idle]
    BY <1>3, <2>2 DEF Write
  <2>4. UNCHANGED task  BY <1>3 DEF Write
  <2> QED  BY <1>b, <1>i, <2>2, <2>3, <2>4 DEF TasksTypeOK, Placed
<1>4. CASE WriteRefused(w)  BY <1>4, <1>b, <1>i DEF WriteRefused, TasksTypeOK, Placed
<1>5. CASE ListOpen(w)  BY <1>5, <1>a, <1>b DEF ListOpen, TasksTypeOK, Work, Placed
<1>6. ASSUME NEW t \in Tasks, CancelTask(w, t)  PROVE InsertsBounded'
  <2>1. \A u \in Tasks : task[u] \in Task  BY DEF TasksTypeOK
  <2>2. task' = [task EXCEPT ![t].status = "cancelled"]  BY <1>6 DEF CancelTask
  <2>3. \A u \in Tasks : Placed(u)
    BY <2>1, <2>2 DEF TasksTypeOK, Task, Placed
  <2>4. work'[w].pc # "insert"  BY <1>6, <1>a DEF CancelTask, TasksTypeOK, Work
  <2> QED  BY <1>6, <1>b, <2>3, <2>4 DEF CancelTask, TasksTypeOK
<1>15. ASSUME NEW t \in Tasks, CancelFails(w, t)  PROVE InsertsBounded'
  BY <1>15, <1>a, <1>b DEF CancelFails, TasksTypeOK, Work, Placed
<1>7. CASE AllCancelled(w)  BY <1>7, <1>b, <1>i DEF AllCancelled, TasksTypeOK, Placed
<1>8. CASE FindTask(w)
  <2>1. PICK pc \in {"items", "revive", "insert"}, t \in Tasks \cup {Nil} :
          /\ work' = [work EXCEPT ![w].pc = pc, ![w].task = t]
          /\ pc = "insert" => TasksOf(work[w].stay, Head(work[w].types)) = {}
    <3>1. \A r, ty : Live(r, ty) \subseteq Tasks /\ Reusable(r, ty) \subseteq Tasks
                     /\ TasksOf(r, ty) = Live(r, ty) \cup Reusable(r, ty)
      BY DEF Live, Reusable, TasksOf
    <3> QED  BY <1>8, <3>1 DEF FindTask
  <2>2. UNCHANGED task  BY <1>8 DEF FindTask
  <2>3. \A v \in Workers : v # w => work'[v] = work[v]  BY <2>1 DEF TasksTypeOK
  <2>4. work'[w] = [work[w] EXCEPT !.pc = pc, !.task = t]  BY <2>1 DEF TasksTypeOK
  <2>5. work'[w].pc = pc /\ work'[w].stay = work[w].stay /\ work'[w].types = work[w].types
    BY <1>a, <2>4 DEF Work
  <2>6. CASE pc # "insert"  BY <1>b, <2>2, <2>3, <2>5, <2>6 DEF Placed
  <2>7. CASE pc = "insert"
    <3> SUFFICES ASSUME NEW r \in Stays, NEW ty \in Types
                 PROVE  /\ IsFiniteSet(Made(r, ty)')
                        /\ Cardinality(Made(r, ty)') + Cardinality(Inserting(r, ty)')
                             <= Cardinality(Workers)
      BY DEF InsertsBounded
    <3>1. Made(r, ty)' = Made(r, ty)  BY <2>2 DEF Made
    <3>2. CASE r = work[w].stay /\ ty = Head(work[w].types)
      <4>1. Made(r, ty) \subseteq TasksOf(r, ty)
        <5>1. ASSUME NEW u \in Tasks, task[u].stay = r  PROVE Stored(u)
          BY <5>1, NilAssumption DEF UnstoredBare, NoTask
        <5> QED  BY <5>1 DEF Made, TasksOf, Stored
      <4>2. Made(r, ty)' = {}  BY <2>1, <2>7, <3>1, <3>2, <4>1
      <4> QED  BY <4>2, BoundKept
    <3>3. CASE ~(r = work[w].stay /\ ty = Head(work[w].types))
      <4>1. Inserting(r, ty)' \subseteq Inserting(r, ty)
        BY <2>3, <2>5, <3>3 DEF Inserting
      <4> QED  BY <3>1, <4>1, BoundKept
    <3> QED  BY <3>2, <3>3
  <2> QED  BY <2>6, <2>7
<1>9. CASE Revive(w)
  <2>1. PICK t \in Tasks : task' = [task EXCEPT ![t].status = "todo"]
    BY <1>9, <1>a DEF Revive, InHand
  <2>2. \A u \in Tasks : task[u] \in Task  BY DEF TasksTypeOK
  <2>3. \A u \in Tasks : Placed(u)
    BY <2>1, <2>2 DEF TasksTypeOK, Task, Placed
  <2>4. work'[w].pc = "items"  BY <1>9, <1>a DEF Revive, TasksTypeOK, Work
  <2> QED  BY <1>9, <1>b, <2>3, <2>4 DEF Revive, TasksTypeOK
\* Who inserts because a revival failed makes a spare task.
<1>16. CASE ReviveFails(w)
  <2>1. UNCHANGED task /\ work' = [work EXCEPT ![w].pc = "insert"] /\ work[w].pc = "revive"
    BY <1>16 DEF ReviveFails
  <2>2. \A v \in Workers : v # w => work'[v] = work[v]  BY <2>1 DEF TasksTypeOK
  <2>3. work'[w].task = work[w].task /\ work[w].task # Nil
    BY <1>a, <2>1, NilAssumption DEF TasksTypeOK, Work, InHand
  <2> SUFFICES ASSUME NEW r \in Stays, NEW ty \in Types
               PROVE  /\ IsFiniteSet(Made(r, ty)')
                      /\ Cardinality(Made(r, ty)') + Cardinality(Inserting(r, ty)')
                           <= Cardinality(Workers)
    BY DEF InsertsBounded
  <2>4. Made(r, ty)' = Made(r, ty)  BY <2>1 DEF Made
  <2>5. Inserting(r, ty)' \subseteq Inserting(r, ty)  BY <2>2, <2>3 DEF Inserting
  <2> QED  BY <2>4, <2>5, BoundKept
<1>10. CASE InsertTask(w)
  <2>1. PICK t \in Tasks :
          /\ task[t].status = "absent"
          /\ task' = [task EXCEPT ![t] = [NoTask EXCEPT
                       !.stay = work[w].stay, !.type = Head(work[w].types), !.status = "todo",
                       !.spare = (work[w].task # Nil)]]
          /\ work' = [work EXCEPT ![w].pc = "items", ![w].task = t]
    BY <1>10 DEF InsertTask
  <2>2. work[w].pc = "insert"  BY <1>10 DEF InsertTask
  <2>3. task[t].stay = Nil  BY <2>1 DEF UnstoredBare, Stored, NoTask
  <2>4. /\ task'[t].stay = work[w].stay /\ task'[t].type = Head(work[w].types)
        /\ task'[t].spare <=> work[w].task # Nil
    BY <2>1 DEF TasksTypeOK, NoTask
  <2>5. \A u \in Tasks : u # t => task'[u] = task[u]  BY <2>1 DEF TasksTypeOK
  <2>6. \A v \in Workers : v # w => work'[v] = work[v]  BY <2>1 DEF TasksTypeOK
  <2>7. work'[w].pc # "insert"  BY <1>a, <2>1 DEF TasksTypeOK, Work
  <2> SUFFICES ASSUME NEW r \in Stays, NEW ty \in Types
               PROVE  /\ IsFiniteSet(Made(r, ty)')
                      /\ Cardinality(Made(r, ty)') + Cardinality(Inserting(r, ty)')
                           <= Cardinality(Workers)
    BY DEF InsertsBounded
  <2>8. t \notin Made(r, ty)  BY <2>3, NilAssumption DEF Made
  <2>9. CASE ~(r = work[w].stay /\ ty = Head(work[w].types) /\ work[w].task = Nil)
    <3>1. Made(r, ty)' = Made(r, ty)  BY <2>4, <2>5, <2>8, <2>9 DEF Made
    <3>2. Inserting(r, ty)' \subseteq Inserting(r, ty)  BY <2>6, <2>7 DEF Inserting
    <3> QED  BY <3>1, <3>2, BoundKept
  <2>10. CASE r = work[w].stay /\ ty = Head(work[w].types) /\ work[w].task = Nil
    <3>1. Made(r, ty)' = Made(r, ty) \cup {t}  BY <2>4, <2>5, <2>10 DEF Made
    <3>2. Inserting(r, ty)' = Inserting(r, ty) \ {w} /\ w \in Inserting(r, ty)
      BY <2>2, <2>6, <2>7, <2>10 DEF Inserting
    <3>3. /\ IsFiniteSet(Made(r, ty))
          /\ Cardinality(Made(r, ty)) + Cardinality(Inserting(r, ty)) <= Cardinality(Workers)
      BY DEF InsertsBounded
    <3>4. IsFiniteSet(Inserting(r, ty))
      BY ItemsAssumption, FS_Subset DEF Inserting
    <3>5. /\ IsFiniteSet(Made(r, ty)')
          /\ Cardinality(Made(r, ty)') = Cardinality(Made(r, ty)) + 1
      BY <2>8, <3>1, <3>3, FS_AddElement
    <3>6. Cardinality(Inserting(r, ty)') = Cardinality(Inserting(r, ty)) - 1
      BY <3>2, <3>4, FS_RemoveElement
    <3>7. /\ Cardinality(Made(r, ty)) \in Nat /\ Cardinality(Inserting(r, ty)) \in Nat
          /\ Cardinality(Workers) \in Nat
      BY <3>3, <3>4, ItemsAssumption, FS_CardinalityType
    <3> QED  BY <3>3, <3>5, <3>6, <3>7
  <2> QED  BY <2>9, <2>10
<1>n. ASSUME NextBlueprint(w), UNCHANGED task, work[w].pc \in {"items", "add"}
      PROVE  InsertsBounded'
  BY <1>a, <1>b, <1>n, NextBlueprintOK DEF Placed
<1>11. CASE ListItems(w)
  <2>1. UNCHANGED task /\ work[w].pc = "items"  BY <1>11 DEF ListItems
  <2>2. CASE NextBlueprint(w)  BY <1>n, <2>1, <2>2
  <2>3. CASE work' = [work EXCEPT ![w].pc = "add"]
    BY <1>a, <1>b, <2>1, <2>3 DEF TasksTypeOK, Work, Placed
  <2> QED  BY <1>11, <2>2, <2>3 DEF ListItems
<1>12. CASE AddItem(w)
  <2>1. PICK t \in Tasks, n \in 1..(Items + 1) :
          /\ task' = [task EXCEPT ![t].items = task[t].items \cup {n}]
          /\ work' = [work EXCEPT ![w].item = n + 1]
    BY <1>12, <1>a DEF AddItem, InHand, Work
  <2>2. \A u \in Tasks : task[u] \in Task  BY DEF TasksTypeOK
  <2>3. \A u \in Tasks : Placed(u)
    BY <2>1, <2>2 DEF TasksTypeOK, Task, Placed
  <2>4. work'[w].pc # "insert"  BY <1>12, <1>a, <2>1 DEF AddItem, TasksTypeOK, Work
  <2>5. \A v \in Workers : v # w => work'[v] = work[v]  BY <2>1 DEF TasksTypeOK
  <2> QED  BY <1>b, <2>3, <2>4, <2>5
<1>17. CASE ItemFails(w)
  <2>1. PICK t \in Tasks, n \in 1..(Items + 1) :
          /\ task' = [task EXCEPT ![t].lost = task[t].lost \cup {n}]
          /\ work' = [work EXCEPT ![w].item = n + 1]
    BY <1>17, <1>a DEF ItemFails, InHand, Work
  <2>2. \A u \in Tasks : task[u] \in Task  BY DEF TasksTypeOK
  <2>3. \A u \in Tasks : Placed(u)
    BY <2>1, <2>2 DEF TasksTypeOK, Task, Placed
  <2>4. work'[w].pc # "insert"  BY <1>17, <1>a, <2>1 DEF ItemFails, TasksTypeOK, Work
  <2>5. \A v \in Workers : v # w => work'[v] = work[v]  BY <2>1 DEF TasksTypeOK
  <2> QED  BY <1>b, <2>3, <2>4, <2>5
<1>13. CASE AllAdded(w)  BY <1>13, <1>n DEF AllAdded
<1>14. CASE CutShort(w)  BY <1>14, <1>b, <1>i DEF CutShort, TasksTypeOK, Placed
<1> QED
  BY <1>1, <1>2, <1>3, <1>4, <1>5, <1>6, <1>7, <1>8, <1>9, <1>10, <1>11, <1>12, <1>13, <1>14,
     <1>15, <1>16, <1>17
  DEF WorkerStep

-----------------------------------------------------------------------------
(* The specification.                                                      *)

LEMMA InitEstablishesIInv == TasksInit => IInv
<1> SUFFICES ASSUME TasksInit PROVE IInv  OBVIOUS
<1> USE DEF TasksInit
<1>1. NoTask \in Task  BY DEF NoTask, Task
<1>2. TasksTypeOK  BY <1>1, IdleOK DEF TasksTypeOK, StayStatus
<1>3. UnstoredBare  BY DEF UnstoredBare
<1>4. HandsOK  BY IdleOK DEF HandsOK
<1>5. WholeOrInHand  BY DEF WholeOrInHand, NoTask
<1>6. InsertsBounded
  <2> SUFFICES ASSUME NEW r \in Stays, NEW ty \in Types
               PROVE  /\ IsFiniteSet(Made(r, ty))
                      /\ Cardinality(Made(r, ty)) + Cardinality(Inserting(r, ty))
                           <= Cardinality(Workers)
    BY DEF InsertsBounded
  <2>1. Made(r, ty) = {}  BY NilAssumption DEF Made, NoTask
  <2>2. Inserting(r, ty) = {}  BY DEF Inserting, Idle
  <2>3. Cardinality(Workers) \in Nat  BY ItemsAssumption, FS_CardinalityType
  <2> QED  BY <2>1, <2>2, <2>3, FS_EmptySet
<1> QED  BY <1>2, <1>3, <1>4, <1>5, <1>6 DEF IInv, RowsInv

LEMMA StepKeepsIInv == IInv /\ [TasksNext]_taskVars => IInv'
<1> SUFFICES ASSUME IInv, [TasksNext]_taskVars PROVE IInv'  OBVIOUS
<1> USE DEF IInv
<1>1. ASSUME NEW w \in Workers, WorkerStep(w)  PROVE IInv'
  BY <1>1, WorkerKeepsRows, WorkerKeepsWhole, WorkerKeepsBound
<1>2. CASE StaffStep \/ Patching
  <2>1. /\ RowsInv' /\ UNCHANGED <<work, disturbed>>
        /\ \A t \in Tasks : Kept(t)
    BY <1>2, StaffKeepsRows
  <2>2. WholeOrInHand'  BY <2>1, NoItemsKeepWhole
  <2>3. InsertsBounded'  BY <2>1, NoInsertKeepsBound DEF Kept
  <2> QED  BY <2>1, <2>2, <2>3
<1>3. CASE UNCHANGED taskVars
  <2> USE <1>3 DEF taskVars
  <2>1. RowsInv'
    BY DEF RowsInv, TasksTypeOK, UnstoredBare, Stored, HandsOK, InHand
  <2>2. WholeOrInHand'  BY NoItemsKeepWhole DEF Kept, Placed
  <2>3. InsertsBounded'  BY NoInsertKeepsBound DEF Placed
  <2> QED  BY <2>1, <2>2, <2>3
<1> QED  BY <1>1, <1>2, <1>3 DEF TasksNext

LEMMA IInvImplies == IInv => TasksTypeOK /\ ChecklistsWhole /\ DuplicatesBounded
<1> SUFFICES ASSUME IInv PROVE TasksTypeOK /\ ChecklistsWhole /\ DuplicatesBounded
  OBVIOUS
<1> USE DEF IInv
<1>1. ChecklistsWhole
  BY DEF WholeOrInHand, ChecklistsWhole, Settled, Building
<1>2. DuplicatesBounded
  <2> SUFFICES ASSUME NEW r \in Stays, NEW ty \in Types
               PROVE  Cardinality(Made(r, ty)) <= Cardinality(Workers)
    BY DEF DuplicatesBounded, Made
  <2>1. /\ IsFiniteSet(Made(r, ty))
        /\ Cardinality(Made(r, ty)) + Cardinality(Inserting(r, ty)) <= Cardinality(Workers)
    BY DEF InsertsBounded
  <2>2. IsFiniteSet(Inserting(r, ty))  BY ItemsAssumption, FS_Subset DEF Inserting
  <2>3. /\ Cardinality(Made(r, ty)) \in Nat /\ Cardinality(Inserting(r, ty)) \in Nat
        /\ Cardinality(Workers) \in Nat
    BY <2>1, <2>2, ItemsAssumption, FS_CardinalityType
  <2> QED  BY <2>1, <2>3
<1> QED  BY <1>1, <1>2 DEF RowsInv

\* What a handler found holds for as long as it uses it, and no checklist has
\* an item its blueprint does not, whatever requests and staff do at once.
THEOREM TasksTypeCorrect == TasksSpec => []TasksTypeOK
BY InitEstablishesIInv, StepKeepsIInv, IInvImplies, PTL DEF TasksSpec

\* A stay whose syncs are over and ran to their end has each task with its
\* whole checklist, but for items whose own INSERT failed, although requests
\* fill each other's tasks item by item.
THEOREM ChecklistsComplete == TasksSpec => []ChecklistsWhole
BY InitEstablishesIInv, StepKeepsIInv, IInvImplies, PTL DEF TasksSpec

\* Whichever statements fail, a stay never has more tasks of a type than there
\* are requests at once, but for those inserted because a revival failed: only
\* requests that looked before the first insert can insert too.
THEOREM DuplicatesFew == TasksSpec => []DuplicatesBounded
BY InitEstablishesIInv, StepKeepsIInv, IInvImplies, PTL DEF TasksSpec
===============================================================================
