--------------------------- MODULE SerialTaskProofs ---------------------------
(***************************************************************************)
(* What TurnoverTasks promises as long as no two requests are on one stay  *)
(* at a time, for any numbers of stays, tasks, requests and staff: the     *)
(* tasks fit the status.                                                   *)
(***************************************************************************)
EXTENDS TaskProofs

USE ItemsAssumption, NilAssumption

\* What the requests are assumed to do.
OneAtATime ==
    \A v, w \in Workers : work[v].stay # Nil /\ work[v].stay = work[w].stay => v = w

\* The tasks of stay r fit its status.
Served(r, ty) ==
    \E t \in Tasks : /\ task[t].stay = r /\ task[t].type = ty
                     /\ task[t].status = "cancelled" => t \in touched

Fits(r) ==
    /\ stay[r] \in {"cancelled", "no_show"} =>
         \A t \in Tasks : task[t].stay = r /\ task[t].status \in Open => t \in touched
    /\ stay[r] \in DOMAIN Wanted => \A ty \in Wanted[stay[r]] : Served(r, ty)

Left(k, ty) == \E i \in 1..Len(k.types) : k.types[i] = ty

Upserting == {"find", "revive", "insert", "items", "add"}

\* The handler with the locals k is on its way to make the tasks fit.
OnWay(k) ==
    /\ k.pc = "write" => Fits(k.stay)
    /\ k.pc \in {"list", "cancel"} => stay[k.stay] \in {"cancelled", "no_show"}
    /\ k.pc = "cancel" =>
         \A t \in Tasks : task[t].stay = k.stay /\ task[t].status \in Open
                         => t \in touched \cup k.open
    /\ k.pc \in Upserting =>
         /\ stay[k.stay] \in DOMAIN Wanted
         /\ \A ty \in Wanted[stay[k.stay]] : Served(k.stay, ty) \/ Left(k, ty)
    /\ k.pc \in {"revive", "items", "add"} => task[k.task].type = Head(k.types)
    /\ k.pc \in {"items", "add"} => (task[k.task].status = "cancelled" => k.task \in touched)

IdleIsFree == \A w \in Workers : work[w].pc = "idle" => work[w].stay = Nil

\* What a request has read is still so when it writes.
DecisionsCurrent ==
    \A w \in Workers : work[w].pc = "write" =>
        allowed_transition(stay[work[w].stay], work[w].want)

AllOnWay == \A w \in Workers : work[w].stay \in Stays \ disturbed => OnWay(work[w])

HeldIsOwn == \A w \in Workers : \A t \in work[w].open : task[t].stay = work[w].stay

SerialInv == IdleIsFree /\ DecisionsCurrent /\ HeldIsOwn /\ AllOnWay /\ TasksFollowStatus

-----------------------------------------------------------------------------
(* What a step does to the stays it is not about.                          *)

\* Nothing happens to stay r but what staff may do to its tasks.
Calm(r) ==
    /\ stay'[r] = stay[r]
    /\ touched \subseteq touched'
    /\ \A t \in Tasks : task[t].stay = r \/ task'[t].stay = r =>
         /\ task'[t].stay = task[t].stay
         /\ task'[t].type = task[t].type
         /\ \/ task'[t].status = task[t].status
            \/ task'[t].status = "done"
            \/ t \in touched'

LEMMA ServedStays ==
    ASSUME NEW r, Calm(r), NEW ty, Served(r, ty)
    PROVE  Served(r, ty)'
<1>1. PICK t \in Tasks : /\ task[t].stay = r /\ task[t].type = ty
                         /\ task[t].status = "cancelled" => t \in touched
  BY DEF Served
<1>2. /\ task'[t].stay = r /\ task'[t].type = ty
      /\ task'[t].status = "cancelled" => t \in touched'
  BY <1>1 DEF Calm
<1> QED  BY <1>2 DEF Served

LEMMA FitsStays ==
    ASSUME NEW r, Calm(r), Fits(r)
    PROVE  Fits(r)'
<1>1. stay'[r] = stay[r]  BY DEF Calm
<1>2. ASSUME stay[r] \in {"cancelled", "no_show"}, NEW t \in Tasks,
             task'[t].stay = r, task'[t].status \in Open
      PROVE  t \in touched'
  BY <1>2 DEF Calm, Fits, Open
<1>3. ASSUME stay[r] \in DOMAIN Wanted, NEW ty \in Wanted[stay[r]]
      PROVE  Served(r, ty)'
  BY <1>3, ServedStays DEF Fits
<1> QED  BY <1>1, <1>2, <1>3 DEF Fits, Open, Wanted

LEMMA OnWayStays ==
    ASSUME RowsInv, NEW w \in Workers, Calm(work[w].stay), work'[w] = work[w], OnWay(work[w])
    PROVE  OnWay(work[w])'
<1> DEFINE k == work[w]
           r == work[w].stay
<1>a. k \in Work /\ InHand(k)  BY DEF RowsInv, TasksTypeOK, HandsOK
<1>b. stay'[r] = stay[r]  BY DEF Calm
<1>1. k.pc = "write" => Fits(r)'  BY FitsStays DEF OnWay
<1>2. k.pc = "cancel" =>
        \A t \in Tasks : task'[t].stay = r /\ task'[t].status \in Open
                        => t \in touched' \cup k.open
  BY DEF Calm, OnWay, Open
<1>3. ASSUME k.pc \in Upserting
      PROVE  /\ stay[r] \in DOMAIN Wanted
             /\ \A ty \in Wanted[stay[r]] : Served(r, ty)' \/ Left(k, ty)
  BY <1>3, ServedStays DEF OnWay
<1>4. ASSUME k.pc \in {"revive", "items", "add"}
      PROVE  /\ task'[k.task].type = Head(k.types)
             /\ k.pc # "revive" => (task'[k.task].status = "cancelled" => k.task \in touched')
  <2>1. k.task \in Tasks /\ task[k.task].stay = r  BY <1>4, <1>a DEF InHand
  <2> QED  BY <2>1, <1>4 DEF Calm, OnWay
<1>5. k' = k  OBVIOUS
<1>6. \A ty : Left(k, ty)' = Left(k, ty)  BY DEF Left
<1> QED  BY <1>1, <1>2, <1>3, <1>4, <1>b, <1>5, <1>6 DEF OnWay, Open, Wanted

\* A step of worker w on stay r.  It is enough that it leaves the other stays
\* calm, and r to w, fitting, or disturbed.
LEMMA StepOnStay ==
    ASSUME RowsInv, SerialInv, TasksGrow, NEW w \in Workers, NEW r \in Stays,
           disturbed \subseteq disturbed',
           \A v \in Workers : v # w =>
               /\ work'[v] = work[v]
               /\ work[v].stay = r => r \in disturbed' /\ work[v].pc # "write",
           \A q \in Stays \ {r} : Calm(q),
           work[w].stay \in {r, Nil}, work'[w].stay \in {r, Nil},
           work'[w].pc = "idle" => work'[w].stay = Nil,
           work'[w].pc = "write" => allowed_transition(stay'[work'[w].stay], work'[w].want),
           \A t \in work'[w].open : task'[t].stay = work'[w].stay,
           \/ r \in disturbed'
           \/ work'[w].stay = r /\ OnWay(work[w])'
           \/ work'[w].stay = Nil /\ Fits(r)'
    PROVE  SerialInv'
<1> USE DEF SerialInv
<1>1. ASSUME NEW v \in Workers, work'[v].stay \in Stays \ disturbed'  PROVE OnWay(work[v])'
  <2>1. CASE v = w  BY <2>1, <1>1
  <2>2. CASE v # w
    <3>1. /\ work'[v] = work[v] /\ work[v].stay \in Stays \ disturbed
          /\ work[v].stay # r
      BY <2>2, <1>1
    <3>2. Calm(work[v].stay)  BY <3>1
    <3> QED  BY <3>1, <3>2, OnWayStays DEF AllOnWay
  <2> QED  BY <2>1, <2>2
<1>2. ASSUME NEW q \in Stays, Settled(q)'  PROVE Fits(q)'
  <2>1. q \notin disturbed' /\ \A v \in Workers : work'[v].stay # q
    BY <1>2 DEF Settled
  <2>2. CASE q = r  BY <2>1, <2>2
  <2>3. CASE q # r
    <3>1. q \notin disturbed  BY <2>1
    <3>2. \A v \in Workers : work[v].stay # q  BY <2>1, <2>3
    <3>3. Fits(q)
      BY <3>1, <3>2 DEF TasksFollowStatus, Settled, Fits, Served, Open
    <3> QED  BY <3>3, <2>3, FitsStays
  <2> QED  BY <2>2, <2>3
<1>3. TasksFollowStatus'
  BY <1>2 DEF TasksFollowStatus, Fits, Served, Open
<1>4. ASSUME NEW v \in Workers, v # w
      PROVE  /\ work[v] \in Work /\ InHand(work[v]) /\ work'[v] = work[v]
             /\ work[v].pc = "write" => stay'[work[v].stay] = stay[work[v].stay]
             /\ \A t \in work[v].open : task'[t].stay = work[v].stay
  <2>1. work[v] \in Work /\ InHand(work[v]) /\ work'[v] = work[v]
    BY <1>4 DEF RowsInv, TasksTypeOK, HandsOK
  <2>2. work[v].pc = "write" => stay'[work[v].stay] = stay[work[v].stay]
    BY <2>1, <1>4 DEF InHand, Calm
  <2>3. \A t \in work[v].open : task'[t].stay = work[v].stay
    BY <2>1 DEF InHand, Work, HeldIsOwn, TasksGrow
  <2> QED  BY <2>1, <2>2, <2>3
<1>5. IdleIsFree'  BY <1>4 DEF IdleIsFree
<1>6. DecisionsCurrent'
  <2> SUFFICES ASSUME NEW v \in Workers, work'[v].pc = "write"
               PROVE  allowed_transition(stay'[work'[v].stay], work'[v].want)
    BY DEF DecisionsCurrent, allowed_transition
  <2>1. CASE v # w  BY <2>1, <1>4 DEF DecisionsCurrent
  <2> QED  BY <2>1
<1>7. HeldIsOwn'  BY <1>4 DEF HeldIsOwn
<1> QED  BY <1>1, <1>3, <1>5, <1>6, <1>7 DEF AllOnWay

-----------------------------------------------------------------------------
(* The steps of a request.                                                 *)

LEMMA TransitionsAllowed ==
    ASSUME NEW current, NEW next, allowed_transition(current, next)
    PROVE  /\ current \in {"pending", "confirmed", "checked_in"}
           /\ \/ current = "pending"    /\ next \in {"confirmed", "cancelled"}
              \/ current = "confirmed"  /\ next \in {"checked_in", "cancelled", "no_show"}
              \/ current = "checked_in" /\ next = "checked_out"
BY DEF allowed_transition

LEMMA InBlueprints ==
    ASSUME NEW s \in StayStatus
    PROVE  /\ Blueprints(s) # <<>> <=> s \in DOMAIN Wanted
           /\ s \in DOMAIN Wanted => \A ty \in Wanted[s] :
                \E i \in 1..Len(Blueprints(s)) : Blueprints(s)[i] = ty
<1>1. DOMAIN Wanted = {"confirmed", "checked_in", "checked_out"}  BY DEF Wanted
<1>2. CASE s = "confirmed"
  <2>1. Blueprints(s) = <<"check_in">> /\ Wanted[s] = {"check_in"}
    BY <1>2 DEF Blueprints, Wanted
  <2> QED  BY <2>1, <1>1, <1>2
<1>3. CASE s = "checked_in"
  <2>1. Blueprints(s) = <<"check_out">> /\ Wanted[s] = {"check_out"}
    BY <1>3 DEF Blueprints, Wanted
  <2> QED  BY <2>1, <1>1, <1>3
<1>4. CASE s = "checked_out"
  <2>1. Blueprints(s) = <<"cleaning", "inspection">> /\ Wanted[s] = {"cleaning", "inspection"}
    BY <1>4 DEF Blueprints, Wanted
  <2>2. /\ Len(Blueprints(s)) = 2
        /\ Blueprints(s)[1] = "cleaning" /\ Blueprints(s)[2] = "inspection"
    BY <2>1
  <2> QED  BY <2>1, <2>2, <1>1, <1>4
<1>5. CASE s \notin {"confirmed", "checked_in", "checked_out"}
  <2>1. Blueprints(s) = <<>>  BY <1>5 DEF Blueprints
  <2> QED  BY <2>1, <1>1, <1>5
<1> QED  BY <1>2, <1>3, <1>4, <1>5

\* A sync starts on its way, or has nothing to do.
LEMMA SyncOnWay ==
    ASSUME NEW w \in Workers, NEW r \in Stays, NEW s \in StayStatus,
           stay'[r] = s, work'[w] = Sync(r, s)
    PROVE  \/ work'[w].stay = r /\ work'[w].pc \in {"list", "find"} /\ OnWay(work[w])'
           \/ work'[w].stay = Nil /\ work'[w].pc = "idle" /\ Fits(r)'
<1>1. CASE s \in {"cancelled", "no_show"}
  <2>1. Sync(r, s) = [Idle EXCEPT !.pc = "list", !.stay = r]  BY <1>1 DEF Sync
  <2> QED  BY <2>1, <1>1 DEF OnWay, Idle, Upserting
<1>2. CASE s \notin {"cancelled", "no_show"} /\ s \in DOMAIN Wanted
  <2>1. Sync(r, s) = [Idle EXCEPT !.pc = "find", !.stay = r, !.types = Blueprints(s)]
    BY <1>2, InBlueprints DEF Sync
  <2>2. /\ work'[w].pc = "find" /\ work'[w].stay = r /\ work'[w].types = Blueprints(s)
    BY <2>1 DEF Idle
  <2>3. \A ty \in Wanted[s] : Left(work[w], ty)'
    BY <2>2, <1>2, InBlueprints DEF Left
  <2> QED  BY <2>2, <2>3, <1>2 DEF OnWay, Upserting, Wanted
<1>3. CASE s \notin {"cancelled", "no_show"} /\ s \notin DOMAIN Wanted
  <2>1. Sync(r, s) = Idle  BY <1>3, InBlueprints DEF Sync
  <2> QED  BY <2>1, <1>3 DEF Idle, Fits, Wanted
<1> QED  BY <1>1, <1>2, <1>3

LEMMA HeadOrTail ==
    ASSUME NEW s \in Seq(Types), s # <<>>, NEW i \in 1..Len(s)
    PROVE  \/ s[i] = Head(s)
           \/ Tail(s) # <<>> /\ \E j \in 1..Len(Tail(s)) : Tail(s)[j] = s[i]
<1>1. CASE i = 1  BY <1>1
<1>2. CASE i # 1
  <2>1. i - 1 \in 1..Len(Tail(s)) /\ Tail(s)[i - 1] = s[i]  BY <1>2
  <2>2. Tail(s) # <<>>  BY <2>1
  <2> QED  BY <2>1, <2>2
<1> QED  BY <1>1, <1>2

\* So does a sync that has served a blueprint.
LEMMA NextOnWay ==
    ASSUME RowsInv, NEW w \in Workers, NEW r \in Stays, work[w].stay = r,
           OnWay(work[w]), work[w].pc \in {"items", "add"}, NextBlueprint(w),
           UNCHANGED <<stay, task, touched>>
    PROVE  \/ work'[w].stay = r /\ work'[w].pc = "find" /\ OnWay(work[w])'
           \/ work'[w].stay = Nil /\ work'[w].pc = "idle" /\ Fits(r)'
<1> DEFINE k == work[w]
<1>1. k \in Work /\ InHand(k)  BY DEF RowsInv, TasksTypeOK, HandsOK
<1>2. /\ k.types \in Seq(Types) /\ k.types # <<>>
      /\ k.task \in Tasks /\ task[k.task].stay = r
  BY <1>1 DEF Work, InHand
<1>3. Served(r, Head(k.types))  BY <1>2 DEF OnWay, Served
<1>4. /\ stay[r] \in DOMAIN Wanted
      /\ \A ty \in Wanted[stay[r]] : Served(r, ty) \/ Left(k, ty)
  BY DEF OnWay, Upserting
<1>5. \A ty : Served(r, ty)' = Served(r, ty)  BY DEF Served
<1>6. ASSUME NEW ty \in Wanted[stay[r]]
      PROVE  \/ Served(r, ty)
             \/ Tail(k.types) # <<>> /\ \E j \in 1..Len(Tail(k.types)) : Tail(k.types)[j] = ty
  BY <1>2, <1>3, <1>4, HeadOrTail DEF Left
<1>7. CASE Tail(k.types) = <<>>
  <2>1. work'[w] = Idle  BY <1>7 DEF NextBlueprint, RowsInv, TasksTypeOK
  <2>2. stay[r] \notin {"cancelled", "no_show"}  BY <1>4 DEF Wanted
  <2> QED  BY <2>1, <2>2, <1>5, <1>6, <1>7 DEF Idle, Fits
<1>8. CASE Tail(k.types) # <<>>
  <2>1. /\ work'[w].pc = "find" /\ work'[w].stay = r /\ work'[w].types = Tail(k.types)
    BY <1>8 DEF NextBlueprint, RowsInv, TasksTypeOK, Idle
  <2>2. \A ty \in Wanted[stay[r]] : Served(r, ty)' \/ Left(work[w], ty)'
    BY <2>1, <1>5, <1>6 DEF Left
  <2> QED  BY <2>1, <2>2, <1>4 DEF OnWay, Upserting
<1> QED  BY <1>7, <1>8

LEMMA WorkerKeepsSerial ==
    ASSUME RowsInv, SerialInv, OneAtATime, OneAtATime', NEW w \in Workers, WorkerStep(w)
    PROVE  SerialInv'
<1> USE DEF SerialInv
<1>0. RowsInv' /\ TasksGrow  BY WorkerKeepsRows
<1>a. /\ work[w] \in Work /\ InHand(work[w]) /\ work'[w] \in Work /\ InHand(work[w])'
      /\ work \in [Workers -> Work] /\ stay \in [Stays -> StayStatus]
      /\ task \in [Tasks -> Task]
  BY <1>0 DEF RowsInv, TasksTypeOK, HandsOK
<1>b. work[w].pc # "idle" =>
        /\ work[w].stay \in Stays
        /\ \A v \in Workers : v # w => work[v].stay # work[w].stay
        /\ work[w].stay \in disturbed \/ OnWay(work[w])
  BY <1>a DEF InHand, OneAtATime, AllOnWay
<1>c. Idle.pc = "idle" /\ Idle.stay = Nil /\ Idle.open = {}  BY DEF Idle
\* A handler goes on with stay r, which nobody else is on.
<1>d. ASSUME NEW r \in Stays, r = work[w].stay, work[w].pc # "idle",
             disturbed \subseteq disturbed',
             \A v \in Workers : v # w => work'[v] = work[v],
             \A q \in Stays \ {r} : Calm(q),
             work'[w].pc # "write", work'[w].pc = "idle" <=> work'[w].stay = Nil,
             work'[w].stay \in {r, Nil},
             \A t \in work'[w].open : task'[t].stay = r /\ work'[w].stay = r,
             \/ r \in disturbed'
             \/ work'[w].stay = r /\ OnWay(work[w])'
             \/ work'[w].stay = Nil /\ Fits(r)'
      PROVE  SerialInv'
  BY <1>d, <1>0, <1>b, StepOnStay
<1>q. ASSUME UNCHANGED <<stay, task, touched>>  PROVE \A q : Calm(q)
  BY <1>q DEF Calm
<1>1. ASSUME NEW r \in Stays, NEW s \in StayStatus \ {"absent"}, Create(w, r, s)
      PROVE  SerialInv'
  <2>1. /\ work[w].stay = Nil /\ stay'[r] = s /\ work'[w] = Sync(r, s)
        /\ UNCHANGED <<task, touched, disturbed>> /\ stay[r] = "absent"
        /\ \A v \in Workers : v # w => work'[v] = work[v]
        /\ \A q \in Stays \ {r} : stay'[q] = stay[q]
    BY <1>1, <1>a DEF Create, IdleIsFree
  <2>2. \A q \in Stays \ {r} : Calm(q)  BY <2>1 DEF Calm
  <2>3. \/ work'[w].stay = r /\ work'[w].pc \in {"list", "find"} /\ OnWay(work[w])'
        \/ work'[w].stay = Nil /\ work'[w].pc = "idle" /\ Fits(r)'
    BY <2>1, SyncOnWay
  <2>4. work'[w].open = {}  BY <2>3, <1>a DEF InHand
  <2>5. ASSUME NEW v \in Workers, v # w, work[v].stay = r
        PROVE  r \in disturbed /\ work[v].pc # "write"
    <3>1. work[v].pc # "write"
      BY <2>1, <2>5, TransitionsAllowed DEF DecisionsCurrent
    <3>2. work[v].pc # "idle"  BY <2>5 DEF IdleIsFree
    <3>3. work[v].pc \in {"list", "cancel"} \cup Upserting
      BY <3>1, <3>2, <1>a DEF Work, Upserting
    <3>4. ~OnWay(work[v])  BY <2>1, <2>5, <3>3 DEF OnWay, Wanted
    <3> QED  BY <3>1, <3>4, <2>5 DEF AllOnWay
  <2> QED  BY <1>0, <2>1, <2>2, <2>3, <2>4, <2>5, StepOnStay
<1>2. ASSUME NEW r \in Stays, NEW s \in StayStatus, NEW by \in {"operator", "workflow"},
             Read(w, r, s, by)
      PROVE  SerialInv'
  <2>1. /\ work[w].stay = Nil /\ work'[w].stay = r /\ work'[w].want = s
        /\ work'[w].pc = "write" /\ work'[w].open = {}
        /\ UNCHANGED <<stay, task, touched, disturbed>>
        /\ \A v \in Workers : v # w => work'[v] = work[v]
        /\ allowed_transition(stay[r], s)
    BY <1>2, <1>a DEF Read, Idle, IdleIsFree
  <2>2. \A v \in Workers : v # w => work[v].stay # r
    BY <2>1 DEF OneAtATime
  <2>3. r \in disturbed \/ Fits(r)
    <3> SUFFICES ASSUME r \notin disturbed  PROVE Fits(r)  OBVIOUS
    <3>1. Settled(r)  BY <2>1, <2>2 DEF Settled
    <3> QED  BY <3>1 DEF TasksFollowStatus, Fits, Served, Open
  <2>4. Fits(r) => OnWay(work[w])'
    BY <2>1, <1>q, FitsStays DEF OnWay, Upserting
  <2> QED  BY <1>0, <1>q, <2>1, <2>2, <2>3, <2>4, StepOnStay
<1>3. CASE Write(w)
  <2> DEFINE s == work[w].want
  <2>0. PICK r \in Stays : r = work[w].stay  BY <1>3, <1>b DEF Write
  <2>1. /\ work[w].pc = "write" /\ stay'[r] = s /\ s \in StayStatus
        /\ UNCHANGED <<task, touched>> /\ disturbed \subseteq disturbed'
        /\ \/ work'[w] = Sync(r, s)
           \/ work'[w] = Idle /\ r \in disturbed'
        /\ \A v \in Workers : v # w => work'[v] = work[v]
        /\ \A q \in Stays \ {r} : stay'[q] = stay[q]
    BY <1>3, <1>a, <2>0 DEF Write, Work
  <2>2. \A q \in Stays \ {r} : Calm(q)  BY <2>1 DEF Calm
  <2>3. \/ work'[w].stay = r /\ work'[w].pc \in {"list", "find"} /\ OnWay(work[w])'
        \/ work'[w].stay = Nil /\ work'[w].pc = "idle" /\ (r \in disturbed' \/ Fits(r)')
    BY <2>1, <1>c, SyncOnWay
  <2>4. work'[w].open = {}  BY <2>3, <1>a DEF InHand
  <2> QED  BY <1>d, <2>0, <2>1, <2>2, <2>3, <2>4
<1>4. CASE WriteRefused(w)
  <2>0. PICK r \in Stays : r = work[w].stay  BY <1>4, <1>b DEF WriteRefused
  <2>1. /\ work[w].pc = "write" /\ work'[w] = Idle
        /\ UNCHANGED <<stay, task, touched, disturbed>>
        /\ \A v \in Workers : v # w => work'[v] = work[v]
    BY <1>4, <1>a DEF WriteRefused
  <2>2. r \in disturbed \/ Fits(r)'
    BY <2>0, <2>1, <1>b, <1>q, FitsStays DEF OnWay
  <2> QED  BY <1>c, <1>d, <1>q, <2>0, <2>1, <2>2
<1>5. CASE ListOpen(w)
  <2>0. PICK r \in Stays : r = work[w].stay  BY <1>5, <1>b DEF ListOpen
  <2>1. /\ work[w].pc = "list" /\ work'[w].pc = "cancel" /\ work'[w].stay = r
        /\ work'[w].open = ToCancel(r)
        /\ UNCHANGED <<stay, task, touched, disturbed>>
        /\ \A v \in Workers : v # w => work'[v] = work[v]
    BY <1>5, <1>a, <2>0 DEF ListOpen, Work
  <2>2. OnWay(work[w]) => OnWay(work[w])'
    BY <2>0, <2>1 DEF OnWay, Upserting, ToCancel
  <2>3. \A t \in work'[w].open : task'[t].stay = r  BY <2>1 DEF ToCancel
  <2> QED  BY <1>b, <1>d, <1>q, <2>0, <2>1, <2>2, <2>3
<1>6. ASSUME NEW t \in Tasks, CancelTask(w, t)  PROVE SerialInv'
  <2>0. PICK r \in Stays : r = work[w].stay  BY <1>6, <1>b DEF CancelTask
  <2>1. /\ work[w].pc = "cancel" /\ t \in work[w].open
        /\ work'[w].pc = "cancel" /\ work'[w].stay = r
        /\ work'[w].open = work[w].open \ {t}
        /\ UNCHANGED <<stay, touched, disturbed>>
        /\ \A v \in Workers : v # w => work'[v] = work[v]
    BY <1>6, <1>a, <2>0 DEF CancelTask, Work
  <2>2. /\ \A u \in Tasks : /\ task'[u].stay = task[u].stay
                            /\ task'[u].type = task[u].type
                            /\ u # t => task'[u].status = task[u].status
        /\ task'[t].status = "cancelled"
    BY <1>6, <1>a DEF CancelTask, Task
  <2>3. work[w].open \subseteq Tasks /\ \A u \in work[w].open : task[u].stay = r
    BY <1>a, <2>0 DEF HeldIsOwn, Work
  <2>4. \A q \in Stays \ {r} : Calm(q)  BY <2>1, <2>2, <2>3 DEF Calm
  <2>5. OnWay(work[w]) => OnWay(work[w])'
    BY <2>0, <2>1, <2>2 DEF OnWay, Upserting, Open
  <2>6. \A u \in work'[w].open : task'[u].stay = r  BY <2>1, <2>2, <2>3
  <2> QED  BY <1>b, <1>d, <2>0, <2>1, <2>4, <2>5, <2>6
\* A task that could not be cancelled is excused.
<1>15. ASSUME NEW t \in Tasks, CancelFails(w, t)  PROVE SerialInv'
  <2>0. PICK r \in Stays : r = work[w].stay  BY <1>15, <1>b DEF CancelFails
  <2>1. /\ work[w].pc = "cancel" /\ t \in work[w].open
        /\ work'[w].pc = "cancel" /\ work'[w].stay = r
        /\ work'[w].open = work[w].open \ {t}
        /\ touched' = touched \cup {t}
        /\ UNCHANGED <<stay, task, disturbed>>
        /\ \A v \in Workers : v # w => work'[v] = work[v]
    BY <1>15, <1>a, <2>0 DEF CancelFails, Work
  <2>2. \A q \in Stays \ {r} : Calm(q)  BY <2>1 DEF Calm
  <2>3. OnWay(work[w]) => OnWay(work[w])'
    BY <2>0, <2>1 DEF OnWay, Upserting, Open
  <2>4. \A u \in work'[w].open : task'[u].stay = r
    BY <2>0, <2>1 DEF HeldIsOwn
  <2> QED  BY <1>b, <1>d, <2>0, <2>1, <2>2, <2>3, <2>4
<1>7. CASE AllCancelled(w)
  <2>0. PICK r \in Stays : r = work[w].stay  BY <1>7, <1>b DEF AllCancelled
  <2>1. /\ work[w].pc = "cancel" /\ work[w].open = {} /\ work'[w] = Idle
        /\ UNCHANGED <<stay, task, touched, disturbed>>
        /\ \A v \in Workers : v # w => work'[v] = work[v]
    BY <1>7, <1>a DEF AllCancelled
  <2>2. OnWay(work[w]) => Fits(r)
    BY <2>0, <2>1 DEF OnWay, Fits, Wanted
  <2>3. r \in disturbed \/ Fits(r)'
    BY <2>0, <2>1, <2>2, <1>b, <1>q, FitsStays
  <2> QED  BY <1>c, <1>d, <1>q, <2>0, <2>1, <2>3
<1>8. CASE FindTask(w)
  <2> DEFINE ty == Head(work[w].types)
  <2>0. PICK r \in Stays : r = work[w].stay  BY <1>8, <1>b DEF FindTask
  <2>1. /\ work[w].pc = "find" /\ work'[w].stay = r /\ work'[w].types = work[w].types
        /\ UNCHANGED <<stay, task, touched, disturbed>>
        /\ \A v \in Workers : v # w => work'[v] = work[v]
        /\ \/ work'[w].pc = "items" /\ work'[w].task \in Live(r, ty)
           \/ work'[w].pc = "revive" /\ work'[w].task \in Reusable(r, ty)
           \/ work'[w].pc = "insert"
    BY <1>8, <1>a, <2>0 DEF FindTask, Work
  <2>2. OnWay(work[w]) => OnWay(work[w])'
    BY <2>0, <2>1 DEF OnWay, Upserting, Left, Served, Live, Reusable, TasksOf
  <2>3. work'[w].open = {}  BY <2>1, <1>a DEF InHand
  <2> QED  BY <1>b, <1>d, <1>q, <2>0, <2>1, <2>2, <2>3
<1>9. CASE Revive(w)
  <2> DEFINE t == work[w].task
  <2>0. PICK r \in Stays : r = work[w].stay  BY <1>9, <1>b DEF Revive
  <2>1. /\ work[w].pc = "revive" /\ work'[w].pc = "items" /\ work'[w].stay = r
        /\ work'[w].types = work[w].types /\ work'[w].task = t
        /\ UNCHANGED <<stay, touched, disturbed>>
        /\ \A v \in Workers : v # w => work'[v] = work[v]
    BY <1>9, <1>a, <2>0 DEF Revive, Work
  <2>2. /\ t \in Tasks /\ task[t].stay = r
        /\ \A u \in Tasks : /\ task'[u].stay = task[u].stay
                            /\ task'[u].type = task[u].type
                            /\ u # t => task'[u].status = task[u].status
        /\ task'[t].status = "todo"
    BY <1>9, <1>a, <2>0 DEF Revive, Task, InHand
  <2>3. \A q \in Stays \ {r} : Calm(q)  BY <2>1, <2>2 DEF Calm
  <2>4. \A ty : Served(r, ty) => Served(r, ty)'  BY <2>1, <2>2 DEF Served
  <2>5. \A ty : Left(work[w], ty) => Left(work[w], ty)'  BY <2>1 DEF Left
  <2>6. OnWay(work[w]) => OnWay(work[w])'
    BY <2>0, <2>1, <2>2, <2>4, <2>5 DEF OnWay, Upserting
  <2>7. work'[w].open = {}  BY <2>1, <1>a DEF InHand
  <2> QED  BY <1>b, <1>d, <2>0, <2>1, <2>3, <2>6, <2>7
<1>16. CASE ReviveFails(w)
  <2>0. PICK r \in Stays : r = work[w].stay  BY <1>16, <1>b DEF ReviveFails
  <2>1. /\ work[w].pc = "revive" /\ work'[w].pc = "insert" /\ work'[w].stay = r
        /\ work'[w].types = work[w].types
        /\ UNCHANGED <<stay, task, touched, disturbed>>
        /\ \A v \in Workers : v # w => work'[v] = work[v]
    BY <1>16, <1>a, <2>0 DEF ReviveFails, Work
  <2>2. OnWay(work[w]) => OnWay(work[w])'
    BY <2>0, <2>1 DEF OnWay, Upserting, Left, Served
  <2>3. work'[w].open = {}  BY <2>1, <1>a DEF InHand
  <2> QED  BY <1>b, <1>d, <1>q, <2>0, <2>1, <2>2, <2>3
<1>10. CASE InsertTask(w)
  <2>0. PICK r \in Stays : r = work[w].stay  BY <1>10, <1>b DEF InsertTask
  <2>1. PICK t \in Tasks :
          /\ task[t].status = "absent"
          /\ task' = [task EXCEPT ![t] = [NoTask EXCEPT
                        !.stay = work[w].stay, !.type = Head(work[w].types), !.status = "todo",
                        !.spare = (work[w].task # Nil)]]
          /\ work' = [work EXCEPT ![w].pc = "items", ![w].task = t]
    BY <1>10 DEF InsertTask
  <2>2. /\ work[w].pc = "insert" /\ work'[w].pc = "items" /\ work'[w].stay = r
        /\ work'[w].types = work[w].types /\ work'[w].task = t
        /\ UNCHANGED <<stay, touched, disturbed>>
        /\ \A v \in Workers : v # w => work'[v] = work[v]
    BY <1>10, <1>a, <2>0, <2>1 DEF InsertTask, Work
  <2>3. /\ task[t].stay = Nil
        /\ task'[t].stay = r /\ task'[t].type = Head(work[w].types) /\ task'[t].status = "todo"
        /\ \A u \in Tasks : u # t => task'[u] = task[u]
    BY <1>a, <2>0, <2>1 DEF RowsInv, UnstoredBare, Stored, NoTask
  <2>4. \A q \in Stays \ {r} : Calm(q)  BY <2>2, <2>3 DEF Calm
  <2>5. \A ty : Served(r, ty) => Served(r, ty)'  BY <2>2, <2>3 DEF Served
  <2>6. \A ty : Left(work[w], ty) => Left(work[w], ty)'  BY <2>2 DEF Left
  <2>7. OnWay(work[w]) => OnWay(work[w])'
    BY <2>0, <2>2, <2>3, <2>5, <2>6 DEF OnWay, Upserting
  <2>8. work'[w].open = {}  BY <2>2, <1>a DEF InHand
  <2> QED  BY <1>b, <1>d, <2>0, <2>2, <2>4, <2>7, <2>8
\* A step to the next blueprint.
<1>n. ASSUME work[w].pc \in {"items", "add"}, NextBlueprint(w),
             UNCHANGED <<stay, task, touched, disturbed>>
      PROVE  SerialInv'
  <2>0. PICK r \in Stays : r = work[w].stay  BY <1>n, <1>b
  <2>1. /\ \A v \in Workers : v # w => work'[v] = work[v]
        /\ work'[w].stay \in {r, Nil} /\ work'[w].pc \in {"idle", "find"}
        /\ work'[w].pc = "idle" <=> work'[w].stay = Nil
    BY <1>n, <1>a, <2>0 DEF NextBlueprint, Idle
  <2>2. \/ r \in disturbed
        \/ work'[w].stay = r /\ OnWay(work[w])'
        \/ work'[w].stay = Nil /\ Fits(r)'
    BY <1>n, <1>b, <2>0, NextOnWay
  <2>3. work'[w].open = {}  BY <2>1, <1>a DEF InHand
  <2> QED  BY <1>n, <1>d, <1>q, <2>0, <2>1, <2>2, <2>3
<1>11. CASE ListItems(w)
  <2>0. PICK r \in Stays : r = work[w].stay  BY <1>11, <1>b DEF ListItems
  <2>1. CASE NextBlueprint(w)  BY <1>11, <1>n, <2>1 DEF ListItems
  <2>2. CASE work' = [work EXCEPT ![w].pc = "add"]
    <3>1. /\ work[w].pc = "items" /\ work'[w].pc = "add" /\ work'[w].stay = r
          /\ work'[w].types = work[w].types /\ work'[w].task = work[w].task
          /\ UNCHANGED <<stay, task, touched, disturbed>>
          /\ \A v \in Workers : v # w => work'[v] = work[v]
      BY <1>11, <2>2, <1>a, <2>0 DEF ListItems, Work
    <3>2. OnWay(work[w]) => OnWay(work[w])'
      BY <2>0, <3>1 DEF OnWay, Upserting, Left, Served
    <3>3. work'[w].open = {}  BY <3>1, <1>a DEF InHand
    <3> QED  BY <1>b, <1>d, <1>q, <2>0, <3>1, <3>2, <3>3
  <2> QED  BY <1>11, <2>1, <2>2 DEF ListItems
\* One more item, added or lost.
<1>e. ASSUME work[w].pc = "add", work'[w].pc = "add", work'[w].stay = work[w].stay,
             work'[w].types = work[w].types, work'[w].task = work[w].task,
             UNCHANGED <<stay, touched, disturbed>>,
             \A v \in Workers : v # w => work'[v] = work[v],
             \A u \in Tasks : /\ task'[u].stay = task[u].stay
                              /\ task'[u].type = task[u].type
                              /\ task'[u].status = task[u].status
      PROVE  SerialInv'
  <2>0. PICK r \in Stays : r = work[w].stay  BY <1>e, <1>b
  <2>1. \A q \in Stays \ {r} : Calm(q)  BY <1>e DEF Calm
  <2>2. work[w].task \in Tasks  BY <1>e, <1>a DEF InHand
  <2>3. \A ty : Served(r, ty) => Served(r, ty)'  BY <1>e DEF Served
  <2>4. \A ty : Left(work[w], ty) => Left(work[w], ty)'  BY <1>e DEF Left
  <2>5. OnWay(work[w]) => OnWay(work[w])'
    BY <1>e, <2>0, <2>2, <2>3, <2>4 DEF OnWay, Upserting
  <2>6. work'[w].open = {}  BY <1>e, <1>a DEF InHand
  <2> QED  BY <1>b, <1>d, <1>e, <2>0, <2>1, <2>5, <2>6
<1>12. CASE AddItem(w)
  <2>1. /\ work[w].pc = "add" /\ work'[w].pc = "add" /\ work'[w].stay = work[w].stay
        /\ work'[w].types = work[w].types /\ work'[w].task = work[w].task
        /\ UNCHANGED <<stay, touched, disturbed>>
        /\ \A v \in Workers : v # w => work'[v] = work[v]
    BY <1>12, <1>a DEF AddItem, Work
  <2>2. \A u \in Tasks : /\ task'[u].stay = task[u].stay
                         /\ task'[u].type = task[u].type
                         /\ task'[u].status = task[u].status
    BY <1>12, <1>a DEF AddItem, Task
  <2> QED  BY <1>e, <2>1, <2>2
<1>17. CASE ItemFails(w)
  <2>1. /\ work[w].pc = "add" /\ work'[w].pc = "add" /\ work'[w].stay = work[w].stay
        /\ work'[w].types = work[w].types /\ work'[w].task = work[w].task
        /\ UNCHANGED <<stay, touched, disturbed>>
        /\ \A v \in Workers : v # w => work'[v] = work[v]
    BY <1>17, <1>a DEF ItemFails, Work
  <2>2. \A u \in Tasks : /\ task'[u].stay = task[u].stay
                         /\ task'[u].type = task[u].type
                         /\ task'[u].status = task[u].status
    BY <1>17, <1>a DEF ItemFails, Task
  <2> QED  BY <1>e, <2>1, <2>2
<1>13. CASE AllAdded(w)  BY <1>13, <1>n DEF AllAdded
<1>14. CASE CutShort(w)
  <2>0. PICK r \in Stays : r = work[w].stay  BY <1>14, <1>b DEF CutShort
  <2>1. /\ work[w].pc # "idle" /\ work'[w] = Idle /\ r \in disturbed'
        /\ UNCHANGED <<stay, task, touched>> /\ disturbed \subseteq disturbed'
        /\ \A v \in Workers : v # w => work'[v] = work[v]
    BY <1>14, <1>a, <2>0 DEF CutShort
  <2> QED  BY <1>c, <1>d, <1>q, <2>0, <2>1
<1> QED
  BY <1>1, <1>2, <1>3, <1>4, <1>5, <1>6, <1>7, <1>8, <1>9, <1>10, <1>11, <1>12, <1>13, <1>14,
     <1>15, <1>16, <1>17
  DEF WorkerStep

-----------------------------------------------------------------------------
(* Staff, and the specification.                                           *)

LEMMA StaffIsCalm ==
    ASSUME RowsInv, StaffStep \/ Patching
    PROVE  UNCHANGED <<stay, work, disturbed>> /\ \A q : Calm(q)
<1> USE DEF RowsInv, TasksTypeOK
<1>1. ASSUME NEW t \in Tasks, NEW n \in 1..Items, NEW done \in BOOLEAN, Tick(t, n, done)
      PROVE  UNCHANGED <<stay, work, disturbed>> /\ \A q : Calm(q)
  <2>1. UNCHANGED <<stay, work, touched, disturbed>>  BY <1>1 DEF Tick
  <2>2. \A u \in Tasks : /\ task'[u].stay = task[u].stay
                         /\ task'[u].type = task[u].type
                         /\ task'[u].status = task[u].status
    BY <1>1 DEF Tick, Task
  <2> QED  BY <2>1, <2>2 DEF Calm
<1>2. ASSUME NEW m \in Staff, NEW t \in Tasks, CompleteCheck(m, t)
      PROVE  UNCHANGED <<stay, work, disturbed>> /\ \A q : Calm(q)
  BY <1>2 DEF CompleteCheck, Calm
<1>3. ASSUME NEW m \in Staff, CompleteWrite(m)
      PROVE  UNCHANGED <<stay, work, disturbed>> /\ \A q : Calm(q)
  <2>1. UNCHANGED <<stay, work, touched, disturbed>>  BY <1>3 DEF CompleteWrite
  <2>2. \A u \in Tasks : /\ task'[u].stay = task[u].stay
                         /\ task'[u].type = task[u].type
                         /\ task'[u].status \in {task[u].status, "done"}
    BY <1>3 DEF CompleteWrite, Task
  <2> QED  BY <2>1, <2>2 DEF Calm
<1>4. ASSUME NEW t \in Tasks, NEW s \in Open \cup {"done", "cancelled"}, PatchTask(t, s)
      PROVE  UNCHANGED <<stay, work, disturbed>> /\ \A q : Calm(q)
  <2>1. UNCHANGED <<stay, work, disturbed>> /\ touched \subseteq touched' /\ t \in touched'
    BY <1>4 DEF PatchTask
  <2>2. \A u \in Tasks : /\ task'[u].stay = task[u].stay
                         /\ task'[u].type = task[u].type
                         /\ u # t => task'[u].status = task[u].status
    BY <1>4 DEF PatchTask, Task
  <2> QED  BY <2>1, <2>2 DEF Calm
<1> QED  BY <1>1, <1>2, <1>3, <1>4 DEF StaffStep, Patching

LEMMA CalmKeepsSerial ==
    ASSUME RowsInv, SerialInv, UNCHANGED <<stay, work, disturbed>>, \A q : Calm(q),
           \A t \in Tasks : task'[t].stay = task[t].stay
    PROVE  SerialInv'
<1> USE DEF SerialInv
<1>1. IdleIsFree' /\ DecisionsCurrent'
  BY DEF IdleIsFree, DecisionsCurrent, allowed_transition
<1>2. HeldIsOwn'
  BY DEF HeldIsOwn, RowsInv, TasksTypeOK, Work
<1>3. AllOnWay'
  BY OnWayStays DEF AllOnWay
<1>4. ASSUME NEW q \in Stays, Settled(q)'  PROVE Fits(q)'
  <2>1. Settled(q)  BY <1>4 DEF Settled
  <2>2. Fits(q)  BY <2>1 DEF TasksFollowStatus, Fits, Served, Open
  <2> QED  BY <2>2, FitsStays
<1>5. TasksFollowStatus'  BY <1>4 DEF TasksFollowStatus, Fits, Served, Open
<1> QED  BY <1>1, <1>2, <1>3, <1>5

LEMMA InitSerial == TasksInit => SerialInv
<1> SUFFICES ASSUME TasksInit PROVE SerialInv  OBVIOUS
<1> USE DEF TasksInit
<1>1. IdleIsFree /\ DecisionsCurrent /\ HeldIsOwn /\ AllOnWay
  BY DEF Idle, IdleIsFree, DecisionsCurrent, HeldIsOwn, AllOnWay
<1>2. TasksFollowStatus  BY DEF TasksFollowStatus, Wanted
<1> QED  BY <1>1, <1>2 DEF SerialInv

LEMMA StepKeepsSerial ==
    IInv /\ SerialInv /\ OneAtATime /\ OneAtATime' /\ [TasksNext]_taskVars => SerialInv'
<1> SUFFICES ASSUME IInv, SerialInv, OneAtATime, OneAtATime', [TasksNext]_taskVars
             PROVE  SerialInv'
  OBVIOUS
<1> USE DEF IInv
<1>1. ASSUME NEW w \in Workers, WorkerStep(w)  PROVE SerialInv'
  BY <1>1, WorkerKeepsSerial
<1>2. CASE StaffStep \/ Patching
  <2>1. \A t \in Tasks : task'[t].stay = task[t].stay
    BY <1>2, StaffKeepsRows DEF Kept, Placed
  <2> QED  BY <1>2, <2>1, StaffIsCalm, CalmKeepsSerial
<1>3. CASE UNCHANGED taskVars
  <2>1. \A q : Calm(q)  BY <1>3 DEF taskVars, Calm
  <2> QED  BY <1>3, <2>1, CalmKeepsSerial DEF taskVars
<1> QED  BY <1>1, <1>2, <1>3 DEF TasksNext

\* The inductive invariant while requests take turns on a stay: each decision
\* is current when written, and each sync ends with tasks that fit the status.
THEOREM SerialInvariant == TasksSpec /\ []OneAtATime => [](IInv /\ SerialInv)
<1>1. TasksInit => IInv /\ SerialInv  BY InitEstablishesIInv, InitSerial
<1>2. IInv /\ SerialInv /\ OneAtATime /\ OneAtATime' /\ [TasksNext]_taskVars
        => IInv' /\ SerialInv'
  BY StepKeepsIInv, StepKeepsSerial
<1> QED  BY <1>1, <1>2, PTL DEF TasksSpec

\* As long as no two requests are on one stay at a time, the tasks of a stay
\* fit its status whenever no request is on it, whatever staff did to them and
\* whatever requests do to other stays.
THEOREM TasksFitStatus == TasksSpec /\ []OneAtATime => []TasksFollowStatus
<1>1. SerialInv => TasksFollowStatus  BY DEF SerialInv
<1> QED  BY <1>1, SerialInvariant, PTL
===============================================================================
