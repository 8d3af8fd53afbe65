-------------------------- MODULE ApprovalLifecycle --------------------------
(***************************************************************************)
(* What the review of an agent's calls promises whoever asked for it: a    *)
(* call is filed, decided once, acted upon once if it was approved, and    *)
(* its result is recorded once.  Word of a delivery only reaches a call    *)
(* recorded as executed that waits for it.  An abstract specification      *)
(* without requests, batches, messages or webhooks.                        *)
(***************************************************************************)
CONSTANT Calls

VARIABLES
    stage,      \* [Calls -> a stage]: absent, pending, rejected, approved,
                \* acted, executed or execution_failed
    delivery    \* [Calls -> none, pending, sent, delivered or failed]

LifecycleInit ==
    /\ stage = [a \in Calls |-> "absent"]
    /\ delivery = [a \in Calls |-> "none"]

Move(a, from, to) ==
    /\ stage[a] = from
    /\ stage' = [stage EXCEPT ![a] = to]

File(a) == Move(a, "absent", "pending") /\ UNCHANGED delivery

Decide(a) ==
    /\ Move(a, "pending", "approved") \/ Move(a, "pending", "rejected")
    /\ UNCHANGED delivery

Act(a) == Move(a, "approved", "acted") /\ UNCHANGED delivery

Record(a) ==
    \/ Move(a, "acted", "execution_failed") /\ UNCHANGED delivery
    \/ /\ Move(a, "acted", "executed")
       /\ UNCHANGED delivery \/ delivery' = [delivery EXCEPT ![a] = "pending"]

Tell(a, fate) ==
    /\ stage[a] = "executed" /\ delivery[a] # "none"
    /\ delivery' = [delivery EXCEPT ![a] = fate]
    /\ UNCHANGED stage

LifecycleNext ==
    \E a \in Calls :
        \/ File(a) \/ Decide(a) \/ Act(a) \/ Record(a)
        \/ \E fate \in {"sent", "delivered", "failed"} : Tell(a, fate)

LifecycleSpec == LifecycleInit /\ [][LifecycleNext]_<<stage, delivery>>
=============================================================================
