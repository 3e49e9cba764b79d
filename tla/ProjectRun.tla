------------------------------ MODULE ProjectRun ------------------------------
(***************************************************************************)
(* What one project run promises about its tasks, with no word on how      *)
(* (semaphores, polling, retries, the work-item cache): work on a task     *)
(* begins only after everything it depends on was delivered, at most       *)
(* MaxWorking tasks are being worked on at a time, and a task that was     *)
(* delivered or given up stays so.                                         *)
(***************************************************************************)
EXTENDS Naturals, FiniteSets

CONSTANTS Task,        \* the tasks of the plan
          MaxWorking   \* how many may be in progress together

VARIABLES needs,       \* needs[t]: the tasks t depends on, fixed by the plan
          stage        \* stage[t]: how far t has come

Stages == {"todo", "working", "delivered", "dropped"}

TypeOK == /\ needs \in [Task -> SUBSET Task]
          /\ stage \in [Task -> Stages]

Working == {t \in Task : stage[t] = "working"}

Init == /\ needs \in [Task -> SUBSET Task]
        /\ stage = [t \in Task |-> "todo"]

Move(t, from, to) == /\ stage[t] \in from
                     /\ stage' = [stage EXCEPT ![t] = to]
                     /\ UNCHANGED needs

Begin(t) == /\ \A d \in needs[t] : stage[d] = "delivered"
            /\ Cardinality(Working) < MaxWorking
            /\ Move(t, {"todo"}, "working")

Deliver(t) == Move(t, {"working"}, "delivered")

Drop(t) == Move(t, {"todo", "working"}, "dropped")

Next == \E t \in Task : Begin(t) \/ Deliver(t) \/ Drop(t)

Spec == Init /\ [][Next]_<<needs, stage>>
===============================================================================
