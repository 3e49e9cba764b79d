-------------------------- MODULE TaskPipelineProofs --------------------------
(***************************************************************************)
(* Theorems about TaskPipeline, for every number of tasks, every plan and  *)
(* every setting of the limiter, in two parts: what a task's coroutine     *)
(* keeps to at every step, and how a run of the project ends.              *)
(***************************************************************************)
EXTENDS TaskPipeline, QueueFacts, FiniteSetTheorems, SequenceTheorems, WellFoundedInduction, TLAPS

(* The counters of a task that has not used them are at their start, and an *)
(* LLM attempt is made only while one is left.                              *)
BeforePoll == {"new", "waitTotal", "gotTotal", "waitRole", "gotRole", "planned"}
BeforeLlm == BeforePoll \union {"polling", "context", "asking"}

CountersInv ==
  \A t \in Task : /\ pc[t] \in BeforePoll => dep[t] = 1
                  /\ pc[t] \in BeforeLlm => attempt[t] = 0
                  /\ pc[t] = "generating" => attempt[t] < MaxRetries

TInv == TypeOK /\ CountersInv

USE PipelineAssumption

(* What the assumption says of the plan of a run.                           *)
LEMMA PlanFacts ==
  ASSUME NEW p \in Plans, NEW t \in Task
  PROVE  /\ p.role[t] \in Roles
         /\ p.deps[t] \in Seq(Task)
         /\ \A i \in DOMAIN p.deps[t] : p.deps[t][i] \in 1 .. (t - 1)
<1>1. IsPlan(p) /\ p.role[t] \in Roles /\ p.deps[t] \in Seq(1 .. (t - 1))
  BY DEF IsPlan
<1>2. 1 .. (t - 1) \subseteq Task
  BY DEF Task
<1>3. p.deps[t] \in Seq(Task)
  BY <1>1, <1>2, SeqMonotonic
<1>4. ASSUME NEW i \in DOMAIN p.deps[t] PROVE p.deps[t][i] \in 1 .. (t - 1)
  <2>1. i \in 1 .. Len(p.deps[t])
    BY <1>1, LenProperties
  <2>. QED  BY <1>1, <2>1, ElementOfSeq
<1>. QED  BY <1>1, <1>3, <1>4

(* A run starts well typed.                                                  *)
LEMMA TypeInit == Init => TInv
<1>. SUFFICES ASSUME Init PROVE TInv
  OBVIOUS
<1>1. ready \in Seq(Task)
  BY DEF Init, StartOrder, Task
<1>. QED  BY <1>1 DEF Init, StartOrder, TInv, TypeOK, CountersInv, BeforePoll, BeforeLlm, Task, PCs, HasTotal,
                      HasRole, InsideTask, Sems, Statuses, Results, Errors, Verdicts

(* Slots taken of semaphores that have one leave no value below zero.        *)
LEMMA TakeSlotsType ==
  ASSUME free \in [Sems -> Nat], NEW S \in SUBSET Sems,
         \A s \in S : Open(s), TakeSlots(S)
  PROVE  free' \in [Sems -> Nat]
<1>1. ASSUME NEW s \in Sems PROVE free'[s] \in Nat
  BY DEF TakeSlots, Open
<1>. QED  BY <1>1 DEF TakeSlots

(* A slot taken from an open semaphore leaves a value that is not negative. *)
LEMMA TryRoleType ==
  ASSUME TInv, NEW t \in Task, NEW S \in SUBSET {"total"},
         ready # <<>>, \A s \in S : Open(s),
         pc[t] \in {"new", "gotTotal"}, TryRole(t, S)
  PROVE  /\ ready' \in Seq(Task)
         /\ free' \in [Sems -> Nat]
         /\ queue' \in [Sems -> Seq(Task)]
         /\ pc' \in [Task -> PCs]
         /\ \E to \in {"waitRole", "gotRole"} : pc' = [pc EXCEPT ![t] = to]
<1>. USE DEF TInv, TypeOK
<1>1. Tail(ready) \in Seq(Task) /\ Append(Tail(ready), t) \in Seq(Task)
  OBVIOUS
<1>2. RoleSem(t) \in Sems
  BY DEF RoleSem, Sems
<1>3. Append(queue[RoleSem(t)], t) \in Seq(Task)
  BY <1>2
<1>4. \E to \in {"waitRole", "gotRole"} : pc' = [pc EXCEPT ![t] = to]
  BY DEF TryRole, Enqueue, Goto
<1>5. free' \in [Sems -> Nat]
  BY <1>2, TakeSlotsType DEF TryRole, Enqueue, Sems
<1>6. queue' \in [Sems -> Seq(Task)]
  BY <1>2, <1>3 DEF TryRole, Enqueue
<1>. QED  BY <1>1, <1>4, <1>5, <1>6 DEF TryRole, Enqueue, PCs, HasTotal, HasRole

(* A step of t on its way through the limiter and register().                *)
LEMMA DispatchStep ==
  ASSUME TInv, NEW t \in Task, pc[t] \in BeforePoll, NEW to \in BeforePoll \union {"leaving"},
         UNCHANGED <<plan, result, dep, slept, attempt, verdict>>,
         pc' = [pc EXCEPT ![t] = to],
         ready' \in Seq(Task),
         free' \in [Sems -> Nat],
         queue' \in [Sems -> Seq(Task)],
         status' \in [Task -> Statuses \union {"none"}],
         err' \in [Task -> Errors]
  PROVE  TInv'
<1>1. to \in PCs /\ to # "polling" /\ to # "generating"
  BY DEF BeforePoll, PCs, HasTotal, HasRole, InsideTask
<1>2. \A u \in Task \ {t} : pc'[u] = pc[u]
  BY DEF TInv, TypeOK
<1>3. pc'[t] = to /\ dep[t] = 1 /\ attempt[t] = 0
  BY DEF TInv, TypeOK, CountersInv, BeforeLlm
<1>4. TypeOK'
  BY <1>1, <1>2, <1>3 DEF TInv, TypeOK
<1>5. CountersInv'
  BY <1>1, <1>2, <1>3 DEF TInv, CountersInv
<1>. QED  BY <1>4, <1>5 DEF TInv

(* A step of execute_task by t leaves TInv true if what it changes of t fits *)
(* the place it goes to.                                                     *)
LEMMA AgentStep ==
  ASSUME TInv, NEW t \in Task, NEW to \in PCs \ BeforePoll,
         UNCHANGED <<plan, ready, free, queue, verdict>>,
         pc' = [pc EXCEPT ![t] = to],
         status' \in [Task -> Statuses \union {"none"}],
         result' \in [Task -> Results],
         dep' \in [Task -> Nat \ {0}],
         slept' \in [Task -> BOOLEAN],
         attempt' \in [Task -> 0 .. MaxRetries],
         err' \in [Task -> Errors],
         \A u \in Task \ {t} : dep'[u] = dep[u] /\ attempt'[u] = attempt[u],
         to = "polling" => dep'[t] \in DOMAIN plan.deps[t],
         to \in BeforeLlm => attempt'[t] = 0,
         to = "generating" => attempt'[t] < MaxRetries
  PROVE  TInv'
<1>1. TypeOK'
  <2>1. pc' \in [Task -> PCs]
    BY DEF TInv, TypeOK
  <2>2. ASSUME NEW u \in Task, pc'[u] = "polling" PROVE dep'[u] \in DOMAIN plan.deps[u]
    BY <2>2 DEF TInv, TypeOK
  <2>. QED  BY <2>1, <2>2 DEF TInv, TypeOK
<1>2. CountersInv'
  <2>1. ASSUME NEW u \in Task \ {t} PROVE pc'[u] = pc[u]
    BY DEF TInv, TypeOK
  <2>2. pc'[t] = to /\ to \notin BeforePoll
    BY DEF TInv, TypeOK
  <2>. QED  BY <2>1, <2>2 DEF TInv, CountersInv
<1>. QED  BY <1>1, <1>2 DEF TInv

(* set_status moves t on, or to the except branches.                        *)
LEMMA SetStatusType ==
  ASSUME TInv, NEW t \in Task, NEW new \in Statuses, NEW to, SetStatus(t, new, to)
  PROVE  /\ status' \in [Task -> Statuses \union {"none"}]
         /\ err' \in [Task -> Errors]
         /\ \/ pc' = [pc EXCEPT ![t] = to] /\ err' = err
            \/ pc' = [pc EXCEPT ![t] = "failing"]
BY DEF TInv, TypeOK, SetStatus, Goto, Raise, Errors

(* A step that ends in set_status leaves TInv true.                          *)
LEMMA SetStatusStep ==
  ASSUME TInv, NEW t \in Task, NEW new \in Statuses, NEW to \in PCs \ BeforePoll,
         SetStatus(t, new, to),
         UNCHANGED <<plan, ready, free, queue, verdict, result, dep, slept>>,
         attempt' \in [Task -> 0 .. MaxRetries],
         \A u \in Task \ {t} : attempt'[u] = attempt[u],
         to = "polling" => dep[t] \in DOMAIN plan.deps[t],
         to \in BeforeLlm => attempt'[t] = 0,
         to # "generating"
  PROVE  TInv'
<1>1. "failing" \in (PCs \ BeforePoll) /\ "failing" \notin BeforeLlm
  BY DEF PCs, HasTotal, HasRole, InsideTask, BeforePoll, BeforeLlm
<1>2. /\ result' \in [Task -> Results]
      /\ dep' \in [Task -> Nat \ {0}]
      /\ slept' \in [Task -> BOOLEAN]
  BY DEF TInv, TypeOK
<1>3. CASE pc' = [pc EXCEPT ![t] = to]
  BY <1>2, <1>3, SetStatusType, AgentStep
<1>4. CASE pc' = [pc EXCEPT ![t] = "failing"]
  BY <1>1, <1>2, <1>4, SetStatusType, AgentStep
<1>. QED  BY <1>3, <1>4, SetStatusType

(* raise: to the except branches, whatever has been counted.                *)
LEMMA RaiseStep ==
  ASSUME TInv, NEW t \in Task, NEW why \in Errors, Raise(t, why),
         UNCHANGED <<plan, ready, free, queue, verdict, status, result, dep, slept>>,
         attempt' \in [Task -> 0 .. MaxRetries],
         \A u \in Task \ {t} : attempt'[u] = attempt[u]
  PROVE  TInv'
<1>1. "failing" \in (PCs \ BeforePoll) /\ "failing" \notin BeforeLlm
  BY DEF PCs, HasTotal, HasRole, InsideTask, BeforePoll, BeforeLlm
<1>2. /\ pc' = [pc EXCEPT ![t] = "failing"]
      /\ status' \in [Task -> Statuses \union {"none"}]
      /\ err' \in [Task -> Errors]
      /\ result' \in [Task -> Results]
      /\ dep' \in [Task -> Nat \ {0}]
      /\ slept' \in [Task -> BOOLEAN]
  BY DEF TInv, TypeOK, Raise, Goto
<1>. QED  BY <1>1, <1>2, AgentStep

(* The task a slot is handed to is waiting for that slot.                    *)
LEMMA OldestWaits ==
  ASSUME TInv, NoLostWakeup, NEW t \in Task, NEW u
  PROVE  /\ u \in Oldest("total") => u \in Task /\ pc[u] = "waitTotal"
         /\ u \in Oldest(RoleSem(t)) => /\ u \in Task /\ pc[u] = "waitRole"
                                       /\ RoleSem(u) = RoleSem(t)
<1>1. RoleSem(t) \in Sems /\ "total" \in Sems /\ RoleSem(t) # "total"
  BY DEF RoleSem, Sems
<1>2. \A s \in Sems : Oldest(s) \subseteq Waiters(s)
  BY DEF NoLostWakeup, Oldest
<1>3. ASSUME NEW v \in Task PROVE RoleSem(v) # "total"
  BY DEF RoleSem
<1>. QED  BY <1>1, <1>2, <1>3 DEF Waiters

(* The step of every action, split as Next is.                              *)
LEMMA TypeStep == TInv /\ NoLostWakeup /\ [Next]_vars => TInv'
<1>. SUFFICES ASSUME TInv, NoLostWakeup, [Next]_vars PROVE TInv'
  OBVIOUS
<1>a. {"new", "gotTotal", "waitTotal", "waitRole", "gotRole", "planned"} \subseteq BeforePoll
  BY DEF BeforePoll
<1>b. /\ ready \in Seq(Task) /\ free \in [Sems -> Nat] /\ queue \in [Sems -> Seq(Task)]
      /\ status \in [Task -> Statuses \union {"none"}] /\ err \in [Task -> Errors]
  BY DEF TInv, TypeOK
<1>1. ASSUME NEW t \in Task, EnterLimiter(t) PROVE TInv'
  <2>1. /\ ready # <<>> /\ pc[t] = "new"
        /\ UNCHANGED <<plan, status, result, dep, slept, attempt, err, verdict>>
    BY <1>1 DEF EnterLimiter, Enqueue, IsNext, itemVars, agentVars
  <2>2. CASE Open("total") /\ TryRole(t, {"total"})
    BY <1>a, <1>b, <2>1, <2>2, TryRoleType, DispatchStep
  <2>3. CASE /\ queue' = [queue EXCEPT !["total"] = Append(@, t)]
             /\ pc' = [pc EXCEPT ![t] = "waitTotal"]
             /\ ready' = Tail(ready)
             /\ free' = free
    <3>1. Append(queue["total"], t) \in Seq(Task) /\ Tail(ready) \in Seq(Task)
      BY <1>b, <2>1 DEF Sems
    <3>2. queue' \in [Sems -> Seq(Task)]
      BY <1>b, <2>3, <3>1
    <3>. QED  BY <1>a, <1>b, <2>1, <2>3, <3>1, <3>2, DispatchStep
  <2>. QED  BY <1>1, <2>2, <2>3 DEF EnterLimiter, Enqueue, Goto
<1>2. ASSUME NEW t \in Task, TotalGranted(t) PROVE TInv'
  <2>1. /\ ready # <<>> /\ pc[t] = "gotTotal" /\ TryRole(t, {})
        /\ UNCHANGED <<plan, status, result, dep, slept, attempt, err, verdict>>
    BY <1>2 DEF TotalGranted, IsNext, itemVars, agentVars
  <2>. QED  BY <1>a, <1>b, <2>1, TryRoleType, DispatchStep
<1>3. ASSUME NEW t \in Task, Register(t) PROVE TInv'
  <2>1. /\ ready # <<>> /\ pc[t] = "gotRole" /\ ready' = Tail(ready)
        /\ UNCHANGED <<plan, free, queue, result, dep, slept, attempt, verdict>>
    BY <1>3 DEF Register, IsNext, limiterVars
  <2>2. Tail(ready) \in Seq(Task)
    BY <1>b, <2>1
  <2>3. /\ status' \in [Task -> Statuses \union {"none"}]
        /\ err' \in [Task -> Errors]
        /\ \E to \in {"planned", "leaving"} : pc' = [pc EXCEPT ![t] = to]
    BY <1>3, <1>b DEF Register, Goto, Statuses, Errors
  <2>. QED  BY <1>a, <1>b, <2>1, <2>2, <2>3, DispatchStep
<1>15. ASSUME NEW t \in Task, LoadFails(t) PROVE TInv'
  <2>1. /\ ready # <<>> /\ pc[t] = "gotRole" /\ ready' = Tail(ready)
        /\ UNCHANGED <<plan, free, queue, status, result, dep, slept, attempt, verdict>>
    BY <1>15 DEF LoadFails, IsNext, limiterVars, itemVars
  <2>2. Tail(ready) \in Seq(Task)
    BY <1>b, <2>1
  <2>3. err' \in [Task -> Errors] /\ \E to \in {"planned", "leaving"} : pc' = [pc EXCEPT ![t] = to]
    BY <1>15, <1>b DEF LoadFails, Goto, Errors
  <2>. QED  BY <1>a, <1>b, <2>1, <2>2, <2>3, DispatchStep
<1>4. ASSUME NEW t \in Task, HandleDependencies(t) PROVE TInv'
  <2>1. /\ pc[t] = "planned"
        /\ UNCHANGED <<plan, ready, free, queue, verdict, result, dep, slept, attempt>>
    BY <1>4 DEF HandleDependencies, Resumes, limiterVars
  <2>2. /\ plan.deps[t] \in Seq(Task)
        /\ dep[t] = 1 /\ attempt[t] = 0
        /\ attempt \in [Task -> 0 .. MaxRetries]
    BY <2>1, PlanFacts DEF CountersInv, TInv, TypeOK, BeforePoll, BeforeLlm
  <2>3. {"IN_PROGRESS", "WAITING"} \subseteq Statuses /\ {"context", "polling"} \subseteq PCs \ BeforePoll
    BY DEF Statuses, PCs, HasTotal, HasRole, InsideTask, BeforePoll
  <2>4. CASE plan.deps[t] = <<>>
    <3>1. SetStatus(t, "IN_PROGRESS", "context")
      BY <1>4, <2>4 DEF HandleDependencies
    <3>. QED  BY <2>1, <2>2, <2>3, <3>1, SetStatusStep
  <2>5. CASE plan.deps[t] # <<>>
    <3>1. SetStatus(t, "WAITING", "polling")
      BY <1>4, <2>5 DEF HandleDependencies
    <3>2. dep[t] \in DOMAIN plan.deps[t]
      BY <2>2, <2>5
    <3>. QED  BY <2>1, <2>2, <2>3, <3>1, <3>2, SetStatusStep
  <2>. QED  BY <2>4, <2>5
<1>5. ASSUME NEW t \in Task, PollDependency(t) PROVE TInv'
  <2>1. /\ pc[t] = "polling"
        /\ UNCHANGED <<plan, ready, free, queue, verdict, result, attempt>>
    BY <1>5 DEF PollDependency, Resumes, limiterVars
  <2>2. /\ plan.deps[t] \in Seq(Task)
        /\ attempt[t] = 0 /\ dep[t] \in DOMAIN plan.deps[t]
        /\ attempt \in [Task -> 0 .. MaxRetries]
    BY <2>1, PlanFacts DEF CountersInv, TInv, TypeOK, BeforePoll, BeforeLlm
  <2>3. /\ "polling" \in PCs \ BeforePoll /\ "context" \in PCs \ BeforePoll
        /\ "IN_PROGRESS" \in Statuses /\ "missing" \in Errors /\ "blocked" \in Errors
    BY DEF PCs, HasTotal, HasRole, InsideTask, BeforePoll, Statuses, Errors
  <2>4. CASE DepDone(t) /\ dep[t] < Len(plan.deps[t])
    <3>1. dep' = [dep EXCEPT ![t] = @ + 1] /\ UNCHANGED <<pc, status, err, slept>>
      BY <2>4 DEF DepDone
    <3>2. dep[t] + 1 \in DOMAIN plan.deps[t] /\ dep[t] + 1 \in Nat \ {0}
      BY <2>2, <2>4, LenProperties
    <3>3. dep' \in [Task -> Nat \ {0}] /\ dep'[t] = dep[t] + 1 /\ \A u \in Task \ {t} : dep'[u] = dep[u]
      BY <3>1, <3>2 DEF TInv, TypeOK
    <3>4. TypeOK'
      BY <2>1, <3>1, <3>2, <3>3 DEF TInv, TypeOK
    <3>5. CountersInv'
      BY <2>1, <3>1, <3>3 DEF TInv, CountersInv, BeforePoll
    <3>. QED  BY <3>4, <3>5 DEF TInv
  <2>5. CASE DepDone(t) /\ ~(dep[t] < Len(plan.deps[t]))
    <3>1. SetStatus(t, "IN_PROGRESS", "context") /\ UNCHANGED <<dep, slept>>
      BY <2>5 DEF DepDone
    <3>. QED  BY <2>1, <2>2, <2>3, <3>1, SetStatusStep
  <2>6. CASE DepMissing(t) \/ DepFailed(t)
    BY <2>1, <2>2, <2>3, <2>6, RaiseStep DEF DepMissing, DepFailed
  <2>7. CASE DepUnderWay(t)
    BY <2>1, <2>7 DEF DepUnderWay, TInv, TypeOK, CountersInv
  <2>. QED  BY <1>5, <2>4, <2>5, <2>6, <2>7 DEF PollDependency
<1>c. /\ "failing" \in PCs \ BeforePoll /\ "leaving" \in PCs \ BeforePoll
      /\ "asking" \in PCs \ BeforePoll /\ "generating" \in PCs \ BeforePoll
      /\ "delivering" \in PCs \ BeforePoll
      /\ "context" \in BeforeLlm /\ "asking" \in BeforeLlm
      /\ {"generating", "delivering", "failing", "leaving"} \intersect BeforeLlm = {}
  BY DEF PCs, HasTotal, HasRole, InsideTask, BeforePoll, BeforeLlm
<1>d. /\ {"unknown", "timeout", "parse"} \subseteq Errors
      /\ {"success", "unsuccessful", "failed"} \subseteq Results
      /\ {"DONE", "FAILED"} \subseteq Statuses
  BY DEF Errors, Results, Statuses
<1>e. /\ result \in [Task -> Results] /\ dep \in [Task -> Nat \ {0}]
      /\ slept \in [Task -> BOOLEAN] /\ attempt \in [Task -> 0 .. MaxRetries]
      /\ pc \in [Task -> PCs]
  BY DEF TInv, TypeOK
<1>6. ASSUME NEW t \in Task, DependencyTimeout(t) PROVE TInv'
  <2>1. /\ Raise(t, "timeout")
        /\ UNCHANGED <<plan, ready, free, queue, verdict, status, result, dep, slept, attempt>>
    BY <1>6 DEF DependencyTimeout, Resumes, limiterVars, itemVars
  <2>. QED  BY <1>d, <1>e, <2>1, RaiseStep
<1>7. ASSUME NEW t \in Task, BuildContext(t) PROVE TInv'
  <2>1. /\ pc[t] = "context"
        /\ UNCHANGED <<plan, ready, free, queue, verdict, status, result, dep, slept, attempt>>
    BY <1>7 DEF BuildContext, Resumes, limiterVars, itemVars
  <2>2. attempt[t] = 0 /\ attempt[t] < MaxRetries
    BY <1>c, <2>1 DEF TInv, CountersInv
  <2>3. CASE Raise(t, "unknown")
    BY <1>d, <1>e, <2>1, <2>3, RaiseStep
  <2>4. ASSUME NEW to \in {"generating", "asking"}, pc' = [pc EXCEPT ![t] = to], err' = err
        PROVE  TInv'
    BY <1>b, <1>c, <1>e, <2>1, <2>2, <2>4, AgentStep
  <2>. QED  BY <1>7, <2>3, <2>4 DEF BuildContext, Goto
<1>8. ASSUME NEW t \in Task, AskReturns(t) PROVE TInv'
  <2>1. /\ pc[t] = "asking" /\ pc' = [pc EXCEPT ![t] = "generating"]
        /\ UNCHANGED <<plan, ready, free, queue, verdict, status, result, dep, slept, attempt, err>>
    BY <1>8 DEF AskReturns, Resumes, Goto, limiterVars, itemVars, agentVars
  <2>2. attempt[t] = 0 /\ attempt[t] < MaxRetries
    BY <1>c, <2>1 DEF TInv, CountersInv
  <2>. QED  BY <1>b, <1>c, <1>e, <2>1, <2>2, AgentStep
<1>9. ASSUME NEW t \in Task, Generate(t) PROVE TInv'
  <2>1. /\ pc[t] = "generating"
        /\ attempt' = [attempt EXCEPT ![t] = @ + 1]
        /\ UNCHANGED <<plan, ready, free, queue, verdict, result, dep, slept>>
    BY <1>9 DEF Generate, Resumes, limiterVars
  <2>2. /\ attempt' \in [Task -> 0 .. MaxRetries]
        /\ attempt'[t] = attempt[t] + 1
        /\ \A u \in Task \ {t} : attempt'[u] = attempt[u]
    BY <1>e, <2>1 DEF TInv, CountersInv
  <2>3. CASE Parsed(t)
    BY <1>c, <1>d, <2>1, <2>2, <2>3, SetStatusStep DEF Parsed
  <2>4. CASE Unparsable(t) /\ attempt[t] + 1 < MaxRetries
    <3>1. UNCHANGED <<pc, err, status>>
      BY <2>4 DEF Unparsable
    <3>2. pc' = [pc EXCEPT ![t] = "generating"]
      BY <1>e, <2>1, <3>1
    <3>. QED  BY <1>b, <1>c, <1>e, <2>1, <2>2, <2>4, <3>1, <3>2, AgentStep
  <2>5. CASE Raise(t, "parse") /\ UNCHANGED status
    BY <1>d, <1>e, <2>1, <2>2, <2>5, RaiseStep
  <2>6. CASE LlmRaises(t)
    BY <1>d, <1>e, <2>1, <2>2, <2>6, RaiseStep DEF LlmRaises
  <2>. QED  BY <1>9, <2>3, <2>4, <2>5, <2>6 DEF Generate, Unparsable
<1>10. ASSUME NEW t \in Task, AttachResult(t) PROVE TInv'
  <2>1. /\ pc[t] = "delivering"
        /\ UNCHANGED <<plan, ready, free, queue, verdict, status, dep, slept, attempt>>
        /\ result' \in [Task -> Results]
    BY <1>10, <1>d, <1>e DEF AttachResult, Resumes, limiterVars
  <2>2. \E to \in {"leaving", "failing"} : pc' = [pc EXCEPT ![t] = to]
    BY <1>10 DEF AttachResult, Raise, Goto
  <2>3. err' \in [Task -> Errors]
    BY <1>10, <1>b, <1>d DEF AttachResult, Raise
  <2>. QED  BY <1>b, <1>c, <1>e, <2>1, <2>2, <2>3, AgentStep
<1>11. ASSUME NEW t \in Task, MarkFailed(t) PROVE TInv'
  <2>1. /\ pc' = [pc EXCEPT ![t] = "leaving"]
        /\ UNCHANGED <<plan, ready, free, queue, verdict, dep, slept, attempt, err>>
    BY <1>11 DEF MarkFailed, Resumes, Goto, limiterVars, agentVars
  <2>2. status' \in [Task -> Statuses \union {"none"}]
    BY <1>11, <1>b, <1>d DEF MarkFailed
  <2>3. result' \in [Task -> Results]
    BY <1>11, <1>d, <1>e DEF MarkFailed
  <2>. QED  BY <1>b, <1>c, <1>e, <2>1, <2>2, <2>3, AgentStep
<1>12. ASSUME NEW t \in Task, Leave(t) PROVE TInv'
  <2>1. UNCHANGED <<plan, status, result, dep, slept, attempt, verdict>>
    BY <1>12 DEF Leave, Released, itemVars
  <2>2. \A s \in Sems : queue[s] \in Seq(Task)
                        /\ (queue[s] # <<>> => Tail(queue[s]) \in Seq(Task) /\ Head(queue[s]) \in Task)
    BY <1>b
  <2>3. queue' \in [Sems -> Seq(Task)]
    BY <1>12, <2>2 DEF Leave, Released
  <2>4. free' \in [Sems -> Nat]
    BY <1>12, <1>b DEF Leave, Released
  <2>5. ready' \in Seq(Task)
    <3>1. RoleSem(t) \in Sems /\ "total" \in Sems
      BY DEF RoleSem, Sems
    <3>2. Woken(RoleSem(t)) \in Seq(Task) /\ Woken("total") \in Seq(Task)
      BY <2>2, <3>1 DEF Woken
    <3>. QED  BY <1>12, <3>2, ConcatProperties DEF Leave, Released
  <2>6. err' \in [Task -> Errors]
    BY <1>12, <1>b, <1>d DEF Leave, Released
  <2>7. \A u \in Task : \/ pc'[u] = pc[u]
                        \/ pc'[u] = "left"
                        \/ pc'[u] \in {"gotRole", "gotTotal"} /\ pc[u] \in {"waitRole", "waitTotal"}
    BY <1>12, OldestWaits DEF Leave, Released
  <2>8. DOMAIN pc' = Task
    BY <1>12 DEF Leave, Released
  <2>9. TypeOK'
    <3>1. pc' \in [Task -> PCs]
      <4>1. \A u \in Task : pc'[u] \in PCs
        BY <1>e, <2>7 DEF PCs, HasTotal, HasRole
      <4>. QED  BY <1>12, <4>1 DEF Leave, Released
    <3>2. \A u \in Task : pc'[u] = "polling" => dep'[u] \in DOMAIN plan'.deps[u]
      BY <2>1, <2>7 DEF TInv, TypeOK
    <3>. QED  BY <2>1, <2>3, <2>4, <2>5, <2>6, <3>1, <3>2 DEF TInv, TypeOK
  <2>10. CountersInv'
    BY <1>a, <2>1, <2>7 DEF TInv, CountersInv, BeforePoll, BeforeLlm
  <2>. QED  BY <2>9, <2>10 DEF TInv
<1>13. CASE EvaluateGate
  <2>1. verdict' \in Verdicts /\ UNCHANGED <<plan, ready, free, queue, pc, status, result, dep, slept, attempt, err>>
    BY <1>13 DEF EvaluateGate, ReviewProgress, Verdicts, limiterVars, itemVars, agentVars
  <2>. QED  BY <2>1 DEF TInv, TypeOK, CountersInv
<1>14. CASE UNCHANGED vars
  BY <1>14 DEF vars, limiterVars, itemVars, agentVars, TInv, TypeOK, CountersInv
<1>. QED  BY <1>1, <1>2, <1>3, <1>4, <1>5, <1>6, <1>7, <1>8, <1>9, <1>10, <1>11, <1>12, <1>13, <1>14, <1>15
          DEF Next, Dispatch, Execute, RunOver

-------------------------------------------------------------------------------
(* NoLostWakeup, one semaphore at a time.                                   *)
SemInv(s) == /\ Waiters(s) = Elems(queue[s])
             /\ NoRepeat(queue[s])
             /\ queue[s] # <<>> => free[s] = 0

(* NoLostWakeup, one semaphore at a time.                                    *)
LEMMA SemInvs == NoLostWakeup <=> \A s \in Sems : SemInv(s)
BY DEF NoLostWakeup, SemInv, Elems, NoRepeat

Waiting == {"waitTotal", "waitRole"}

(* A step that leaves the queues and the waiting tasks alone keeps them in   *)
(* agreement, whatever slots it takes of semaphores without waiters.         *)
LEMMA QuietStep ==
  ASSUME NoLostWakeup, plan' = plan, queue' = queue,
         \A u \in Task : (pc[u] \in Waiting \/ pc'[u] \in Waiting) => pc'[u] = pc[u],
         \A s \in Sems : queue[s] # <<>> => free'[s] = free[s]
  PROVE  NoLostWakeup'
<1>1. \A s : Waiters(s)' = Waiters(s)
  BY DEF Waiters, Waiting, RoleSem
<1>. QED  BY <1>1 DEF NoLostWakeup

(* A step that puts t at the end of the queue of a semaphore without slots.  *)
LEMMA QueueingStep ==
  ASSUME TInv, NoLostWakeup, plan' = plan, NEW t \in Task, NEW s \in Sems, ~Open(s),
         queue' = [queue EXCEPT ![s] = Append(@, t)],
         pc[t] \notin Waiting,
         pc' = [pc EXCEPT ![t] = IF s = "total" THEN "waitTotal" ELSE "waitRole"],
         s # "total" => s = RoleSem(t),
         free'[s] = free[s],
         \A r \in Sems : queue[r] # <<>> => free'[r] = free[r]
  PROVE  NoLostWakeup'
<1>1. RoleSem(t) # "total" /\ \A u : RoleSem(u)' = RoleSem(u)
  BY DEF RoleSem
<1>2. /\ Waiters(s)' = Waiters(s) \union {t}
      /\ \A r \in Sems \ {s} : Waiters(r)' = Waiters(r)
  <2>1. \A u \in Task \ {t} : pc'[u] = pc[u]
    BY DEF TInv, TypeOK
  <2>2. pc'[t] = IF s = "total" THEN "waitTotal" ELSE "waitRole"
    BY DEF TInv, TypeOK
  <2>3. \A r \in Sems : t \notin Waiters(r)
    BY DEF Waiters, Waiting
  <2>4. \A r \in Sems : t \in Waiters(r)' <=> r = s
    BY <1>1, <2>2 DEF Waiters
  <2>5. \A r \in Sems : \A u \in Task \ {t} : u \in Waiters(r)' <=> u \in Waiters(r)
    BY <1>1, <2>1 DEF Waiters
  <2>6. \A r \in Sems : Waiters(r) \subseteq Task /\ Waiters(r)' \subseteq Task
    BY DEF Waiters
  <2>7. Waiters(s)' = Waiters(s) \union {t}
    BY <2>3, <2>4, <2>5, <2>6
  <2>8. ASSUME NEW r \in Sems \ {s} PROVE Waiters(r)' = Waiters(r)
    BY <2>3, <2>4, <2>5, <2>6
  <2>. QED  BY <2>7, <2>8
<1>3. t \notin Waiters(s)
  BY DEF Waiters, Waiting
<1>4. queue[s] \in Seq(Task) /\ free[s] \in Nat
  BY DEF TInv, TypeOK
<1>5. free[s] = 0
  BY <1>4 DEF Open, NoLostWakeup
<1>6. /\ queue'[s] = Append(queue[s], t)
      /\ \A r \in Sems \ {s} : queue'[r] = queue[r]
  BY DEF TInv, TypeOK
<1>7. SemInv(s)'
  BY <1>2, <1>3, <1>4, <1>5, <1>6, AppendElems, SemInvs DEF SemInv
<1>8. ASSUME NEW r \in Sems \ {s} PROVE SemInv(r)'
  BY <1>2, <1>6, SemInvs DEF SemInv
<1>9. \A r \in Sems : SemInv(r)'
  BY <1>7, <1>8
<1>. QED  BY <1>9 DEF SemInv, NoLostWakeup, Elems, NoRepeat

(* Entering the role's semaphore queues t only while it has no slot.         *)
LEMMA TryRoleWakeup ==
  ASSUME TInv, NoLostWakeup, plan' = plan, NEW t \in Task, NEW S \in SUBSET {"total"},
         \A s \in S : Open(s), pc[t] \notin Waiting, TryRole(t, S)
  PROVE  NoLostWakeup'
<1>1. RoleSem(t) \in Sems /\ RoleSem(t) # "total"
  BY DEF RoleSem, Sems
<1>2. \A Q : TakeSlots(Q) => \A s \in Sems : s \notin Q => free'[s] = free[s]
  BY DEF TakeSlots
<1>3. CASE /\ ~Open(RoleSem(t))
           /\ TakeSlots(S)
           /\ queue' = [queue EXCEPT ![RoleSem(t)] = Append(@, t)]
           /\ pc' = [pc EXCEPT ![t] = "waitRole"]
  <2>1. free'[RoleSem(t)] = free[RoleSem(t)]
    BY <1>1, <1>2, <1>3
  <2>2. \A r \in Sems : queue[r] # <<>> => free'[r] = free[r]
    BY <1>2, <1>3 DEF Open
  <2>. QED  BY <1>1, <1>3, <2>1, <2>2, QueueingStep
<1>4. CASE /\ Open(RoleSem(t))
           /\ TakeSlots(S \union {RoleSem(t)})
           /\ queue' = queue
           /\ pc' = [pc EXCEPT ![t] = "gotRole"]
  <2>0. \A r \in Sems : r \notin S \union {RoleSem(t)} => free'[r] = free[r]
    BY <1>2, <1>4
  <2>1. \A r \in Sems : queue[r] # <<>> => free'[r] = free[r]
    BY <2>0, <1>4 DEF Open
  <2>2. \A u \in Task : (pc[u] \in Waiting \/ pc'[u] \in Waiting) => pc'[u] = pc[u]
    BY <1>4 DEF TInv, TypeOK, Waiting
  <2>. QED  BY <1>4, <2>1, <2>2, QuietStep
<1>. QED  BY <1>3, <1>4 DEF TryRole, Enqueue, Goto

(* Steps of execute_task neither start nor end a wait for a semaphore.       *)
LEMMA ExecuteQuiet ==
  ASSUME TInv, NEW t \in Task, Execute(t), ~Leave(t)
  PROVE  /\ UNCHANGED <<plan, ready, free, queue, verdict>>
         /\ pc[t] \in InsideTask \ {"leaving"}
         /\ \E to \in InsideTask : pc' = [pc EXCEPT ![t] = to]
<1>0. \A new, to : SetStatus(t, new, to)
        => pc' = [pc EXCEPT ![t] = to] \/ pc' = [pc EXCEPT ![t] = "failing"]
  BY DEF SetStatus, Raise, Goto
<1>. USE DEF InsideTask, Resumes, limiterVars
<1>1. CASE HandleDependencies(t)
  BY <1>0, <1>1 DEF HandleDependencies
<1>2. CASE PollDependency(t)
  <2>1. pc[t] = "polling" /\ pc = [pc EXCEPT ![t] = "polling"]
    BY <1>2 DEF PollDependency, TInv, TypeOK
  <2>2. \E to \in InsideTask : pc' = [pc EXCEPT ![t] = to]
    BY <1>0, <1>2, <2>1 DEF PollDependency, DepDone, DepMissing, DepFailed, DepUnderWay, Raise, Goto
  <2>. QED  BY <1>2, <2>1, <2>2 DEF PollDependency
<1>3. CASE DependencyTimeout(t)
  BY <1>3 DEF DependencyTimeout, Raise, Goto
<1>4. CASE BuildContext(t)
  BY <1>4 DEF BuildContext, Raise, Goto
<1>5. CASE AskReturns(t)
  BY <1>5 DEF AskReturns, Goto
<1>6. CASE Generate(t)
  <2>1. pc[t] = "generating" /\ pc = [pc EXCEPT ![t] = "generating"]
    BY <1>6 DEF Generate, TInv, TypeOK
  <2>2. \E to \in InsideTask : pc' = [pc EXCEPT ![t] = to]
    BY <1>0, <1>6, <2>1 DEF Generate, Parsed, Unparsable, LlmRaises, Raise, Goto
  <2>. QED  BY <1>6, <2>1, <2>2 DEF Generate
<1>7. CASE AttachResult(t)
  BY <1>7 DEF AttachResult, Raise, Goto
<1>8. CASE MarkFailed(t)
  BY <1>8 DEF MarkFailed, Goto
<1>. QED  BY <1>1, <1>2, <1>3, <1>4, <1>5, <1>6, <1>7, <1>8 DEF Execute

(* Leaving pops the head of two queues and hands it the slot.                *)
LEMMA LeaveWakeup ==
  ASSUME TInv, NoLostWakeup, NEW t \in Task, Leave(t)
  PROVE  NoLostWakeup'
<1>. DEFINE S == {"total", RoleSem(t)}
<1>1. S \subseteq Sems /\ plan' = plan
  BY DEF RoleSem, Sems, Leave, Released
<1>2. \A s \in Sems : queue[s] \in Seq(Task) /\ free[s] \in Nat
  BY DEF TInv, TypeOK
<1>3. \A s \in Sems :
        /\ s \notin S => queue'[s] = queue[s] /\ free'[s] = free[s]
        /\ s \in S /\ queue[s] = <<>> => queue'[s] = queue[s]
        /\ s \in S /\ queue[s] # <<>> => queue'[s] = Tail(queue[s]) /\ free'[s] = free[s]
  BY DEF Leave, Released
<1>4. \A s \in Sems : Oldest(s) = IF queue[s] = <<>> THEN {} ELSE {Head(queue[s])}
  BY <1>2 DEF Oldest
<1>5. \A u \in Task : pc'[u] = CASE u = t -> "left"
                                 [] u \in Oldest(RoleSem(t)) -> "gotRole"
                                 [] u \in Oldest("total") -> "gotTotal"
                                 [] OTHER -> pc[u]
  BY DEF Leave, Released
<1>6. pc[t] = "leaving"
  BY DEF Leave, Released
<1>7. ASSUME NEW s \in Sems
      PROVE  Waiters(s)' = IF s \in S THEN Waiters(s) \ Oldest(s) ELSE Waiters(s)
  <2>1. ASSUME NEW u \in Task
        PROVE  u \in Waiters(s)' <=> u \in Waiters(s) /\ ~(s \in S /\ u \in Oldest(s))
    <3>1. RoleSem(u)' = RoleSem(u) /\ RoleSem(u) # "total" /\ RoleSem(t) # "total"
      BY <1>1 DEF RoleSem
    <3>2. /\ u \in Oldest("total") => pc[u] = "waitTotal"
          /\ u \in Oldest(RoleSem(t)) => pc[u] = "waitRole" /\ RoleSem(u) = RoleSem(t)
      BY OldestWaits
    <3>3. /\ pc'[u] = "waitTotal" <=> pc[u] = "waitTotal" /\ u \notin Oldest("total")
          /\ pc'[u] = "waitRole" <=> pc[u] = "waitRole" /\ u \notin Oldest(RoleSem(t))
      BY <1>5, <1>6, <3>2
    <3>. QED  BY <3>1, <3>2, <3>3 DEF Waiters
  <2>2. Waiters(s)' \subseteq Task /\ Waiters(s) \subseteq Task
    BY DEF Waiters
  <2>. QED  BY <2>1, <2>2
<1>8. ASSUME NEW s \in Sems PROVE SemInv(s)'
  <2>1. SemInv(s)
    BY SemInvs
  <2>2. CASE s \notin S
    BY <1>3, <1>7, <2>1, <2>2 DEF SemInv
  <2>3. CASE s \in S /\ queue[s] = <<>>
    BY <1>3, <1>4, <1>7, <2>1, <2>3 DEF SemInv
  <2>4. CASE s \in S /\ queue[s] # <<>>
    <3>1. /\ Elems(Tail(queue[s])) = Elems(queue[s]) \ {Head(queue[s])}
          /\ NoRepeat(Tail(queue[s]))
      BY <1>2, <2>1, <2>4, TailElems DEF SemInv
    <3>. QED  BY <1>3, <1>4, <1>7, <2>1, <2>4, <3>1 DEF SemInv
  <2>. QED  BY <2>2, <2>3, <2>4
<1>. QED  BY <1>8 DEF SemInv, NoLostWakeup, Elems, NoRepeat

(* Every step keeps queues and waiters in agreement.                         *)
LEMMA WakeupStep == TInv /\ NoLostWakeup /\ [Next]_vars => NoLostWakeup'
<1>. SUFFICES ASSUME TInv, NoLostWakeup, [Next]_vars PROVE NoLostWakeup'
  OBVIOUS
<1>1. ASSUME NEW t \in Task, EnterLimiter(t) PROVE NoLostWakeup'
  <2>1. pc[t] = "new" /\ pc[t] \notin Waiting /\ plan' = plan
    BY <1>1 DEF EnterLimiter, Enqueue, IsNext, Waiting
  <2>2. CASE Open("total") /\ TryRole(t, {"total"})
    BY <2>1, <2>2, TryRoleWakeup
  <2>3. CASE /\ ~Open("total")
             /\ queue' = [queue EXCEPT !["total"] = Append(@, t)]
             /\ pc' = [pc EXCEPT ![t] = "waitTotal"]
             /\ free' = free
    BY <2>1, <2>3, QueueingStep DEF Sems
  <2>. QED  BY <1>1, <2>2, <2>3 DEF EnterLimiter, Enqueue, Goto
<1>2. ASSUME NEW t \in Task, TotalGranted(t) PROVE NoLostWakeup'
  BY <1>2, TryRoleWakeup DEF TotalGranted, IsNext, Waiting
<1>3. ASSUME NEW t \in Task, Register(t) \/ LoadFails(t) PROVE NoLostWakeup'
  <2>1. /\ UNCHANGED <<plan, free, queue>> /\ pc[t] = "gotRole"
        /\ \E to \in {"planned", "leaving"} : pc' = [pc EXCEPT ![t] = to]
    BY <1>3 DEF Register, LoadFails, IsNext, Goto, limiterVars
  <2>2. \A u \in Task : (pc[u] \in Waiting \/ pc'[u] \in Waiting) => pc'[u] = pc[u]
    BY <2>1 DEF TInv, TypeOK, Waiting
  <2>. QED  BY <2>1, <2>2, QuietStep
<1>4. ASSUME NEW t \in Task, Execute(t), ~Leave(t) PROVE NoLostWakeup'
  <2>1. \A u \in Task : (pc[u] \in Waiting \/ pc'[u] \in Waiting) => pc'[u] = pc[u]
    BY <1>4, ExecuteQuiet DEF TInv, TypeOK, Waiting, InsideTask
  <2>. QED  BY <1>4, <2>1, ExecuteQuiet, QuietStep
<1>5. ASSUME NEW t \in Task, Leave(t) PROVE NoLostWakeup'
  BY <1>5, LeaveWakeup
<1>6. CASE EvaluateGate \/ UNCHANGED vars
  <2>1. UNCHANGED <<plan, free, queue, pc>>
    BY <1>6 DEF EvaluateGate, vars, limiterVars
  <2>. QED  BY <2>1, QuietStep
<1>. QED  BY <1>1, <1>2, <1>3, <1>4, <1>5, <1>6 DEF Next, Dispatch, RunOver

(* At the start nobody waits.                                                *)
LEMMA WakeupInit == Init => NoLostWakeup
BY DEF Init, NoLostWakeup, Waiters

(* Type correctness, for every plan and every setting of the limiter.       *)
THEOREM Typing == Spec => []TypeOK
<1>1. Init => TInv /\ NoLostWakeup
  BY TypeInit, WakeupInit
<1>2. TInv /\ NoLostWakeup /\ [Next]_vars => (TInv /\ NoLostWakeup)'
  BY TypeStep, WakeupStep
<1>3. TInv => TypeOK
  BY DEF TInv
<1>. QED  BY <1>1, <1>2, <1>3, PTL DEF Spec

(* No wake-up is lost in the limiter, whatever fails inside it.              *)
THEOREM LimiterWakesAll == Spec => []NoLostWakeup
<1>1. Init => TInv /\ NoLostWakeup
  BY TypeInit, WakeupInit
<1>2. TInv /\ NoLostWakeup /\ [Next]_vars => (TInv /\ NoLostWakeup)'
  BY TypeStep, WakeupStep
<1>. QED  BY <1>1, <1>2, PTL DEF Spec

-------------------------------------------------------------------------------
(* Dependencies first.                                                      *)

Outside == {"new", "waitTotal", "gotTotal", "waitRole", "gotRole"}
AtWork == {"context", "asking", "generating", "delivering"}

(* A task has an item exactly from register() on; it has none, too, when it *)
(* leaves because its agent's DNA could not be read.                        *)
RegisteredInv ==
  \A t \in Task :
    /\ pc[t] \in Outside => status[t] = "none"
    /\ status[t] = "none" => pc[t] \in Outside \/ (StorageMayFail /\ pc[t] \in {"leaving", "left"})

(* The dependencies a task has polled past are DONE.                        *)
PolledInv == \A t \in Task : pc[t] = "polling" =>
               \A i \in 1 .. (dep[t] - 1) : status[plan.deps[t][i]] = "DONE"

DInv == RegisteredInv /\ PolledInv /\ DependenciesFirst

(* At the start no dependency has been looked at.                            *)
LEMMA DepsInit == Init => DInv
BY DEF Init, DInv, RegisteredInv, PolledInv, DependenciesFirst, Outside

(* DONE is final: register() meets no item, set_status no transition from it. *)
LEMMA DoneIsFinal ==
  ASSUME TInv, RegisteredInv, [Next]_vars, NEW u \in Task, status[u] = "DONE"
  PROVE  status'[u] = "DONE"
<1>0. status \in [Task -> Statuses \union {"none"}]
  BY DEF TInv, TypeOK
<1>1. ASSUME NEW t, NEW new, NEW to, SetStatus(t, new, to) PROVE status'[u] = "DONE"
  BY <1>0, <1>1 DEF SetStatus, Allowed
<1>2. ASSUME NEW t \in Task, Dispatch(t) PROVE status'[u] = "DONE"
  <2>1. CASE Register(t)
    <3>1. status[t] = "none" /\ status' = [status EXCEPT ![t] = "PLANNED"]
      BY <2>1 DEF Register, IsNext, RegisteredInv, Outside
    <3>. QED  BY <1>0, <3>1
  <2>2. CASE EnterLimiter(t) \/ TotalGranted(t) \/ LoadFails(t)
    BY <2>2 DEF EnterLimiter, Enqueue, TotalGranted, LoadFails, itemVars
  <2>. QED  BY <1>2, <2>1, <2>2 DEF Dispatch
<1>3. ASSUME NEW t \in Task, Execute(t) PROVE status'[u] = "DONE"
  <2>1. CASE HandleDependencies(t)
    BY <1>1, <2>1 DEF HandleDependencies
  <2>2. CASE PollDependency(t)
    BY <1>1, <2>2 DEF PollDependency, DepDone, DepMissing, DepFailed, DepUnderWay
  <2>3. CASE DependencyTimeout(t) \/ BuildContext(t) \/ AskReturns(t) \/ AttachResult(t) \/ Leave(t)
    BY <2>3 DEF DependencyTimeout, BuildContext, AskReturns, AttachResult, Leave, Released, itemVars
  <2>4. CASE Generate(t)
    BY <1>1, <2>4 DEF Generate, Parsed, Unparsable, LlmRaises
  <2>5. CASE MarkFailed(t)
    BY <1>0, <2>5 DEF MarkFailed, Allowed
  <2>. QED  BY <1>3, <2>1, <2>2, <2>3, <2>4, <2>5 DEF Execute
<1>4. CASE EvaluateGate \/ UNCHANGED vars
  BY <1>4 DEF EvaluateGate, vars, itemVars
<1>. QED  BY <1>2, <1>3, <1>4 DEF Next, RunOver

(* A step of execute_task by t keeps DInv if DONE is final and what t may    *)
(* now rely on is DONE.                                                      *)
LEMMA DepsAgentStep ==
  ASSUME TInv, DInv, NEW t \in Task, NEW to \in InsideTask, plan' = plan,
         pc' = [pc EXCEPT ![t] = to], pc[t] \in InsideTask,
         status'[t] # "none",
         \A u \in Task \ {t} : status'[u] = status[u] /\ dep'[u] = dep[u],
         \A u \in Task : status[u] = "DONE" => status'[u] = "DONE",
         to = "polling" => \A i \in 1 .. (dep'[t] - 1) : status'[plan.deps[t][i]] = "DONE",
         to \in AtWork => \A d \in Deps(t) : status'[d] = "DONE"
  PROVE  DInv'
<1>0. /\ \A u \in Task \ {t} : pc'[u] = pc[u]
      /\ pc'[t] = to
      /\ to \notin Outside
  BY DEF TInv, TypeOK, InsideTask, Outside
<1>1. \A u \in Task : /\ Deps(u) \subseteq Task
                      /\ pc[u] = "polling" => dep[u] \in DOMAIN plan.deps[u]
                      /\ DOMAIN plan.deps[u] = 1 .. Len(plan.deps[u])
                      /\ \A i \in DOMAIN plan.deps[u] : plan.deps[u][i] \in Task
  <2>1. ASSUME NEW u \in Task
        PROVE  /\ plan.deps[u] \in Seq(Task)
               /\ DOMAIN plan.deps[u] = 1 .. Len(plan.deps[u])
               /\ \A i \in DOMAIN plan.deps[u] : plan.deps[u][i] \in Task
    BY PlanFacts, LenProperties, ElementOfSeq DEF TInv, TypeOK
  <2>. QED  BY <2>1 DEF Deps, TInv, TypeOK
<1>2. RegisteredInv'
  BY <1>0 DEF DInv, RegisteredInv
<1>3. PolledInv'
  <2>1. ASSUME NEW u \in Task, u # t, pc[u] = "polling", NEW i \in 1 .. (dep[u] - 1)
        PROVE  status'[plan.deps[u][i]] = "DONE"
    <3>1. status[plan.deps[u][i]] = "DONE"
      BY <2>1 DEF DInv, PolledInv
    <3>2. i \in DOMAIN plan.deps[u]
      BY <1>1, <2>1, PlanFacts, LenProperties DEF TInv, TypeOK
    <3>. QED  BY <1>1, <3>1, <3>2
  <2>. QED  BY <1>0, <2>1 DEF PolledInv
<1>4. DependenciesFirst'
  <2>1. \A u : Deps(u)' = Deps(u)
    BY DEF Deps
  <2>. QED  BY <1>0, <1>1, <2>1 DEF DInv, DependenciesFirst, AtWork
<1>. QED  BY <1>2, <1>3, <1>4 DEF DInv

(* A step that leaves alone who polls and who is at work keeps DInv.         *)
LEMMA DepsQuietStep ==
  ASSUME TInv, DInv, plan' = plan, dep' = dep, RegisteredInv',
         \A u \in Task : pc'[u] \in AtWork \union {"polling"} => pc'[u] = pc[u],
         \A u \in Task : status[u] = "DONE" => status'[u] = "DONE"
  PROVE  DInv'
<1>1. \A u \in Task : Deps(u) \subseteq Task
  BY PlanFacts, LenProperties, ElementOfSeq DEF TInv, TypeOK, Deps
<1>2. PolledInv'
  <2>1. ASSUME NEW u \in Task, pc'[u] = "polling", NEW i \in 1 .. (dep[u] - 1)
        PROVE  status'[plan.deps[u][i]] = "DONE"
    <3>1. pc[u] = "polling" /\ status[plan.deps[u][i]] = "DONE"
      BY <2>1 DEF DInv, PolledInv
    <3>2. /\ dep[u] \in DOMAIN plan.deps[u] /\ plan.deps[u] \in Seq(Task)
          /\ DOMAIN plan.deps[u] = 1 .. Len(plan.deps[u])
      BY <3>1, PlanFacts, LenProperties DEF TInv, TypeOK
    <3>3. plan.deps[u][i] \in Task
      BY <3>2, ElementOfSeq
    <3>. QED  BY <3>1, <3>3
  <2>. QED  BY <2>1 DEF PolledInv
<1>3. DependenciesFirst'
  BY <1>1 DEF DInv, DependenciesFirst, Deps, AtWork
<1>. QED  BY <1>2, <1>3 DEF DInv

(* Every step keeps DInv, split as Next is.                                  *)
LEMMA DepsStep == TInv /\ NoLostWakeup /\ DInv /\ [Next]_vars => DInv'
<1>. SUFFICES ASSUME TInv, NoLostWakeup, DInv, [Next]_vars PROVE DInv'
  OBVIOUS
<1>a. /\ pc \in [Task -> PCs] /\ status \in [Task -> Statuses \union {"none"}]
      /\ dep \in [Task -> Nat \ {0}]
      /\ RegisteredInv
  BY DEF TInv, TypeOK, DInv
<1>b. \A u \in Task : status[u] = "DONE" => status'[u] = "DONE"
  BY <1>a, DoneIsFinal
<1>1. ASSUME NEW t \in Task, EnterLimiter(t) \/ TotalGranted(t) PROVE DInv'
  <2>1. /\ pc[t] \in {"new", "gotTotal"}
        /\ \E to \in {"waitTotal", "waitRole", "gotRole"} : pc' = [pc EXCEPT ![t] = to]
        /\ UNCHANGED <<plan, status, dep>>
    BY <1>1 DEF EnterLimiter, TotalGranted, IsNext, TryRole, Enqueue, Goto, itemVars, agentVars
  <2>2. RegisteredInv'
    BY <1>a, <2>1 DEF RegisteredInv, Outside
  <2>3. \A u \in Task : pc'[u] \in AtWork \union {"polling"} => pc'[u] = pc[u]
    BY <1>a, <2>1 DEF AtWork
  <2>. QED  BY <1>b, <2>1, <2>2, <2>3, DepsQuietStep
<1>2. ASSUME NEW t \in Task, Register(t) PROVE DInv'
  <2>1. /\ \E to \in {"planned", "leaving"} : pc' = [pc EXCEPT ![t] = to]
        /\ status' = [status EXCEPT ![t] = "PLANNED"]
        /\ UNCHANGED <<plan, dep>>
    BY <1>2 DEF Register, Goto
  <2>2. RegisteredInv'
    BY <1>a, <2>1 DEF RegisteredInv, Outside
  <2>3. \A u \in Task : pc'[u] \in AtWork \union {"polling"} => pc'[u] = pc[u]
    BY <1>a, <2>1 DEF AtWork
  <2>. QED  BY <1>b, <2>1, <2>2, <2>3, DepsQuietStep
<1>c. ASSUME NEW t \in Task, LoadFails(t) PROVE DInv'
  <2>1. /\ pc' = [pc EXCEPT ![t] = "leaving"] /\ pc[t] = "gotRole" /\ StorageMayFail
        /\ UNCHANGED <<plan, status, dep>>
    BY <1>c DEF LoadFails, IsNext, Goto, itemVars
  <2>2. RegisteredInv'
    BY <1>a, <2>1 DEF RegisteredInv, Outside
  <2>3. \A u \in Task : pc'[u] \in AtWork \union {"polling"} => pc'[u] = pc[u]
    BY <1>a, <2>1 DEF AtWork
  <2>. QED  BY <1>b, <2>1, <2>2, <2>3, DepsQuietStep
<1>3. ASSUME NEW t \in Task, Leave(t) PROVE DInv'
  <2>1. UNCHANGED <<plan, status, dep>> /\ pc[t] = "leaving"
    BY <1>3 DEF Leave, Released, itemVars
  <2>2. \A u \in Task : \/ pc'[u] = pc[u]
                        \/ u = t /\ pc'[u] = "left"
                        \/ pc'[u] \in {"gotRole", "gotTotal"} /\ pc[u] \in {"waitRole", "waitTotal"}
    BY <1>3, OldestWaits DEF Leave, Released
  <2>3. RegisteredInv'
    BY <1>a, <2>1, <2>2 DEF RegisteredInv, Outside
  <2>4. \A u \in Task : pc'[u] \in AtWork \union {"polling"} => pc'[u] = pc[u]
    BY <2>2 DEF AtWork
  <2>. QED  BY <1>b, <2>1, <2>3, <2>4, DepsQuietStep
<1>4. ASSUME NEW t \in Task, Execute(t), ~Leave(t) PROVE DInv'
  <2>1. /\ plan' = plan /\ pc[t] \in InsideTask
        /\ \E to \in InsideTask : pc' = [pc EXCEPT ![t] = to]
    BY <1>4, ExecuteQuiet
  <2>2. PICK to \in InsideTask : pc' = [pc EXCEPT ![t] = to]
    BY <2>1
  <2>3. status[t] # "none"
    <3>1. pc[t] # "leaving"
      BY <1>4 DEF Execute, HandleDependencies, PollDependency, DependencyTimeout, BuildContext, AskReturns,
                  Generate, AttachResult, MarkFailed, Resumes
    <3>. QED  BY <1>a, <2>1, <3>1 DEF RegisteredInv, Outside, InsideTask
  <2>4. PICK new \in Statuses : status' = status \/ status' = [status EXCEPT ![t] = new]
    BY <1>4, <2>3, <1>a DEF Execute, HandleDependencies, PollDependency, DepDone, DepMissing, DepFailed,
       DepUnderWay, DependencyTimeout, BuildContext, AskReturns, Generate, Parsed, Unparsable, LlmRaises,
       AttachResult, MarkFailed, SetStatus, itemVars, Statuses
  <2>5. status'[t] # "none" /\ \A u \in Task \ {t} : status'[u] = status[u]
    BY <1>a, <2>3, <2>4 DEF Statuses
  <2>6. \A u \in Task \ {t} : dep'[u] = dep[u]
    BY <1>4, <1>a DEF Execute, HandleDependencies, PollDependency, DepDone, DepMissing, DepFailed,
       DepUnderWay, DependencyTimeout, BuildContext, AskReturns, Generate, AttachResult, MarkFailed,
       agentVars
  <2>a. pc'[t] = to
    BY <1>a, <2>2
  <2>b. /\ plan.deps[t] \in Seq(Task)
        /\ DOMAIN plan.deps[t] = 1 .. Len(plan.deps[t])
        /\ Len(plan.deps[t]) \in Nat
        /\ Deps(t) \subseteq Task
        /\ \A i \in 1 .. Len(plan.deps[t]) : plan.deps[t][i] \in Task
    <3>1. plan.deps[t] \in Seq(Task)
      BY PlanFacts DEF TInv, TypeOK
    <3>. QED  BY <3>1, LenProperties, ElementOfSeq DEF Deps
  <2>c. /\ pc[t] = "polling" => \A i \in 1 .. (dep[t] - 1) : status[plan.deps[t][i]] = "DONE"
        /\ pc[t] = "polling" => dep[t] \in DOMAIN plan.deps[t]
        /\ pc[t] \in AtWork => \A d \in Deps(t) : status[d] = "DONE"
        /\ pc[t] = "planned" => dep[t] = 1
    BY DEF DInv, PolledInv, DependenciesFirst, AtWork, TInv, TypeOK, CountersInv, BeforePoll
  <2>d. \A new1, to1 : SetStatus(t, new1, to1) => to \in {to1, "failing"}
    BY <1>a, <2>a DEF SetStatus, Goto, Raise
  <2>7. /\ to = "polling" => \A i \in 1 .. (dep'[t] - 1) : status'[plan.deps[t][i]] = "DONE"
        /\ to \in AtWork => \A d \in Deps(t) : status'[d] = "DONE"
    <3>1. CASE HandleDependencies(t)
      <4>1. pc[t] = "planned" /\ dep' = dep
        BY <3>1 DEF HandleDependencies, Resumes
      <4>2. CASE plan.deps[t] = <<>>
        <5>1. Deps(t) = {}
          BY <4>2 DEF Deps
        <5>2. to \in {"context", "failing"}
          BY <2>d, <3>1, <4>2 DEF HandleDependencies
        <5>. QED  BY <5>1, <5>2
      <4>3. CASE plan.deps[t] # <<>>
        <5>1. to \in {"polling", "failing"}
          BY <2>d, <3>1, <4>3 DEF HandleDependencies
        <5>. QED  BY <2>c, <4>1, <5>1 DEF AtWork
      <4>. QED  BY <4>2, <4>3
    <3>2. CASE PollDependency(t)
      <4>1. pc[t] = "polling"
        BY <3>2 DEF PollDependency, Resumes
      <4>2. CASE DepDone(t) /\ dep[t] < Len(plan.deps[t])
        <5>1. to = "polling" /\ dep'[t] = dep[t] + 1 /\ status[plan.deps[t][dep[t]]] = "DONE"
          BY <1>a, <2>a, <4>1, <4>2 DEF DepDone, DepOf
        <5>2. \A i \in 1 .. (dep'[t] - 1) : i \in 1 .. Len(plan.deps[t]) /\ status[plan.deps[t][i]] = "DONE"
          BY <1>a, <2>b, <2>c, <4>1, <4>2, <5>1
        <5>. QED  BY <1>b, <2>b, <5>1, <5>2 DEF AtWork
      <4>3. CASE DepDone(t) /\ ~(dep[t] < Len(plan.deps[t]))
        <5>1. to \in {"context", "failing"} /\ status[plan.deps[t][dep[t]]] = "DONE"
          BY <2>d, <4>3 DEF DepDone, DepOf
        <5>2. \A i \in 1 .. Len(plan.deps[t]) : status[plan.deps[t][i]] = "DONE"
          BY <1>a, <2>b, <2>c, <4>1, <4>3, <5>1
        <5>3. \A d \in Deps(t) : status[d] = "DONE"
          BY <2>b, <5>2 DEF Deps
        <5>. QED  BY <1>b, <2>b, <5>1, <5>3
      <4>4. CASE DepMissing(t) \/ DepFailed(t)
        <5>1. to = "failing"
          BY <1>a, <2>a, <4>4 DEF DepMissing, DepFailed, Raise, Goto
        <5>. QED  BY <5>1 DEF AtWork
      <4>5. CASE DepUnderWay(t)
        <5>1. to = "polling" /\ dep' = dep /\ status' = status
          BY <2>a, <4>1, <4>5 DEF DepUnderWay
        <5>. QED  BY <2>c, <4>1, <5>1 DEF AtWork
      <4>. QED  BY <3>2, <4>2, <4>3, <4>4, <4>5 DEF PollDependency
    <3>3. CASE pc[t] \in AtWork /\ to # "polling"
      BY <1>b, <2>b, <2>c, <3>3
    <3>4. CASE to \in {"failing", "leaving"}
      BY <3>4 DEF AtWork
    <3>5. CASE DependencyTimeout(t) \/ MarkFailed(t)
      BY <1>a, <2>a, <3>4, <3>5 DEF DependencyTimeout, MarkFailed, Raise, Goto
    <3>6. CASE BuildContext(t) \/ AskReturns(t) \/ Generate(t) \/ AttachResult(t)
      <4>1. pc[t] \in AtWork
        BY <3>6 DEF BuildContext, AskReturns, Generate, AttachResult, Resumes, AtWork
      <4>2. to # "polling"
        BY <1>a, <2>a, <2>d, <3>6 DEF BuildContext, AskReturns, Generate, Parsed, Unparsable, LlmRaises,
           AttachResult, Resumes, Raise, Goto
      <4>. QED  BY <3>3, <4>1, <4>2
    <3>. QED  BY <1>4, <3>1, <3>2, <3>5, <3>6 DEF Execute
  <2>. QED  BY <1>b, <2>1, <2>2, <2>5, <2>6, <2>7, DepsAgentStep
<1>5. CASE EvaluateGate \/ UNCHANGED vars
  <2>1. UNCHANGED <<plan, status, dep, pc>>
    BY <1>5 DEF EvaluateGate, vars, itemVars, agentVars
  <2>. QED  BY <1>a, <2>1, DepsQuietStep DEF RegisteredInv
<1>. QED  BY <1>1, <1>2, <1>3, <1>4, <1>5, <1>c DEF Next, Dispatch, RunOver

(* The LLM is never called for a task whose dependencies are not all DONE.   *)
THEOREM DependenciesComeFirst == Spec => []DependenciesFirst
<1>1. Init => TInv /\ NoLostWakeup /\ DInv
  BY TypeInit, WakeupInit, DepsInit
<1>2. TInv /\ NoLostWakeup /\ DInv /\ [Next]_vars => (TInv /\ NoLostWakeup /\ DInv)'
  BY TypeStep, WakeupStep, DepsStep
<1>3. DInv => DependenciesFirst
  BY DEF DInv
<1>. QED  BY <1>1, <1>2, <1>3, PTL DEF Spec

-------------------------------------------------------------------------------
(* Slot accounting.                                                         *)

(* Sets of tasks have a cardinality.                                         *)
LEMMA TasksFinite == \A S \in SUBSET Task : IsFiniteSet(S) /\ Cardinality(S) \in Nat
<1>1. IsFiniteSet(Task)
  BY FS_Interval DEF Task
<1>. QED  BY <1>1, FS_Subset, FS_CardinalityType

(* One semaphore at a time: a slot taken is a holder more, a slot given back *)
(* a holder less, and a slot handed over changes the holder.                 *)
Balanced(s) == free[s] + Cardinality(Holders(s)) = Cap[s]

(* One slot fewer and one holder more add up to the same.                    *)
LEMMA OneMore ==
  ASSUME NEW s \in Sems, NEW t \in Task, Balanced(s), free[s] \in Nat, t \notin Holders(s),
         Holders(s)' = Holders(s) \union {t}, free'[s] = free[s] - 1
  PROVE  Balanced(s)'
<1>1. Cardinality(Holders(s)') = Cardinality(Holders(s)) + 1
  BY TasksFinite, FS_AddElement DEF Holders
<1>2. Cardinality(Holders(s)) \in Nat
  BY TasksFinite DEF Holders
<1>. QED  BY <1>1, <1>2 DEF Balanced

(* One slot more and one holder fewer add up to the same.                    *)
LEMMA OneLess ==
  ASSUME NEW s \in Sems, NEW t \in Task, Balanced(s), free[s] \in Nat, t \in Holders(s),
         Holders(s)' = Holders(s) \ {t}, free'[s] = free[s] + 1
  PROVE  Balanced(s)'
<1>1. IsFiniteSet(Holders(s)) /\ Cardinality(Holders(s)) \in Nat
  BY TasksFinite DEF Holders
<1>2. Cardinality(Holders(s) \ {t}) = Cardinality(Holders(s)) - 1
  BY <1>1, FS_RemoveElement
<1>3. Cardinality(Holders(s)') = Cardinality(Holders(s)) - 1
  BY <1>2
<1>. QED  BY <1>1, <1>3 DEF Balanced

(* A slot that goes from one holder to the next stays counted.               *)
LEMMA HandedOver ==
  ASSUME NEW s \in Sems, NEW t \in Task, NEW u \in Task, Balanced(s),
         t \in Holders(s), u \notin Holders(s),
         Holders(s)' = (Holders(s) \ {t}) \union {u}, free'[s] = free[s]
  PROVE  Balanced(s)'
<1>1. IsFiniteSet(Holders(s)) /\ Cardinality(Holders(s)) \in Nat
  BY TasksFinite DEF Holders
<1>2. /\ IsFiniteSet(Holders(s) \ {t})
      /\ Cardinality(Holders(s) \ {t}) = Cardinality(Holders(s)) - 1
  BY <1>1, FS_RemoveElement
<1>3. u \notin Holders(s) \ {t}
  OBVIOUS
<1>4. Cardinality((Holders(s) \ {t}) \union {u}) = Cardinality(Holders(s) \ {t}) + 1
  BY <1>2, <1>3, FS_AddElement
<1>5. Cardinality(Holders(s)') = Cardinality(Holders(s))
  BY <1>1, <1>2, <1>4
<1>. QED  BY <1>5 DEF Balanced

(* Nothing changes for a semaphore whose slots and holders stay.             *)
LEMMA SameHolders ==
  ASSUME NEW s \in Sems, Balanced(s), Holders(s)' = Holders(s), free'[s] = free[s]
  PROVE  Balanced(s)'
BY DEF Balanced

(* A task that goes from one place to another takes exactly the slots it     *)
(* holds afterwards and did not hold before.                                 *)
LEMMA MoveHolders ==
  ASSUME TInv, plan' = plan, NEW t \in Task, NEW to, pc' = [pc EXCEPT ![t] = to], NEW s \in Sems
  PROVE  /\ t \in Holders(s)' <=> \/ s = "total" /\ to \in HasTotal
                                  \/ s = RoleSem(t) /\ to \in HasRole
         /\ Holders(s)' = IF t \in Holders(s)' THEN Holders(s) \union {t} ELSE Holders(s) \ {t}
<1>1. pc'[t] = to /\ \A u \in Task \ {t} : pc'[u] = pc[u]
  BY DEF TInv, TypeOK
<1>2. \A u : RoleSem(u)' = RoleSem(u)
  BY DEF RoleSem
<1>3. t \in Holders(s)' <=> \/ s = "total" /\ to \in HasTotal
                            \/ s = RoleSem(t) /\ to \in HasRole
  BY <1>1, <1>2 DEF Holders
<1>4. \A u \in Task \ {t} : u \in Holders(s)' <=> u \in Holders(s)
  BY <1>1, <1>2 DEF Holders
<1>5. Holders(s) \subseteq Task /\ Holders(s)' \subseteq Task
  BY DEF Holders
<1>6. Holders(s)' = IF t \in Holders(s)' THEN Holders(s) \union {t} ELSE Holders(s) \ {t}
  BY <1>4, <1>5
<1>. QED  BY <1>3, <1>6

(* A task that takes slots holds those semaphores, and no others, more.      *)
LEMMA TakeStep ==
  ASSUME TInv, SlotAccounting, plan' = plan, NEW t \in Task, NEW to, pc' = [pc EXCEPT ![t] = to],
         NEW Q \in SUBSET Sems, TakeSlots(Q),
         \A s \in Sems : t \in Holders(s)' <=> t \in Holders(s) \/ s \in Q,
         \A s \in Q : t \notin Holders(s)
  PROVE  SlotAccounting'
<1>1. ASSUME NEW s \in Sems PROVE Balanced(s)'
  <2>1. Balanced(s) /\ free[s] \in Nat
    BY DEF SlotAccounting, Balanced, TInv, TypeOK
  <2>2. CASE s \in Q
    <3>1. Holders(s)' = Holders(s) \union {t} /\ t \notin Holders(s)
      BY <2>2, MoveHolders
    <3>2. free'[s] = free[s] - 1
      BY <2>2 DEF TakeSlots
    <3>. QED  BY <2>1, <3>1, <3>2, OneMore
  <2>3. CASE s \notin Q
    <3>0. /\ t \in Holders(s)' <=> t \in Holders(s)
          /\ Holders(s)' = IF t \in Holders(s)' THEN Holders(s) \union {t} ELSE Holders(s) \ {t}
      BY <2>3, MoveHolders
    <3>1. Holders(s)' = Holders(s)
      BY <3>0
    <3>2. free'[s] = free[s]
      BY <2>3 DEF TakeSlots
    <3>. QED  BY <2>1, <3>1, <3>2, SameHolders
  <2>. QED  BY <2>2, <2>3
<1>. QED  BY <1>1 DEF SlotAccounting, Balanced

(* Leaving frees, or hands over, the slots of both semaphores of the task.   *)
LEMMA LeaveSlots ==
  ASSUME TInv, NoLostWakeup, SlotAccounting, NEW t \in Task, Leave(t)
  PROVE  SlotAccounting'
<1>. DEFINE S == {"total", RoleSem(t)}
<1>1. /\ S \subseteq Sems /\ plan' = plan /\ pc[t] = "leaving"
      /\ \A u : RoleSem(u) # "total" /\ RoleSem(u)' = RoleSem(u)
  BY DEF RoleSem, Sems, Leave, Released
<1>2. \A s \in Sems : queue[s] \in Seq(Task) /\ free[s] \in Nat /\ Balanced(s)
  BY DEF TInv, TypeOK, SlotAccounting, Balanced
<1>3. \A s \in Sems : Oldest(s) = IF queue[s] = <<>> THEN {} ELSE {Head(queue[s])}
  BY <1>2 DEF Oldest
<1>4. \A u \in Task : pc'[u] = CASE u = t -> "left"
                                 [] u \in Oldest(RoleSem(t)) -> "gotRole"
                                 [] u \in Oldest("total") -> "gotTotal"
                                 [] OTHER -> pc[u]
  BY DEF Leave, Released
<1>5. \A u : /\ u \in Oldest("total") => u \in Task /\ pc[u] = "waitTotal"
             /\ u \in Oldest(RoleSem(t)) => /\ u \in Task /\ pc[u] = "waitRole"
                                            /\ RoleSem(u) = RoleSem(t)
  BY OldestWaits
<1>6. \A s \in S : t \in Holders(s)
  BY <1>1 DEF Holders, HasTotal, HasRole, InsideTask
<1>7. \A s \in S : Oldest(s) \intersect Holders(s) = {}
  BY <1>1, <1>5 DEF Holders, HasTotal, HasRole, InsideTask
<1>8. ASSUME NEW s \in Sems
      PROVE  Holders(s)' = IF s \in S THEN (Holders(s) \ {t}) \union Oldest(s) ELSE Holders(s)
  <2>1. ASSUME NEW u \in Task
        PROVE  u \in Holders(s)' <=> IF s \in S THEN (u \in Holders(s) /\ u # t) \/ u \in Oldest(s)
                                                ELSE u \in Holders(s)
    <3>1. CASE u = t
      BY <1>1, <1>4, <1>5, <3>1 DEF Holders, HasTotal, HasRole, InsideTask
    <3>2. CASE u # t /\ u \in Oldest(RoleSem(t))
      BY <1>1, <1>4, <1>5, <3>2 DEF Holders, HasTotal, HasRole, InsideTask
    <3>3. CASE u # t /\ u \notin Oldest(RoleSem(t)) /\ u \in Oldest("total")
      BY <1>1, <1>4, <1>5, <3>3 DEF Holders, HasTotal, HasRole, InsideTask
    <3>4. CASE u # t /\ u \notin Oldest(RoleSem(t)) /\ u \notin Oldest("total")
      <4>1. pc'[u] = pc[u]
        BY <1>4, <3>4
      <4>. QED  BY <1>1, <3>4, <4>1 DEF Holders
    <3>. QED  BY <3>1, <3>2, <3>3, <3>4
  <2>2. Holders(s)' \subseteq Task /\ Holders(s) \subseteq Task /\ (s \in S => Oldest(s) \subseteq Task)
    BY <1>5 DEF Holders
  <2>. QED  BY <2>1, <2>2
<1>9. ASSUME NEW s \in Sems PROVE Balanced(s)'
  <2>1. CASE s \notin S
    <3>1. free'[s] = free[s]
      BY <2>1 DEF Leave, Released
    <3>. QED  BY <1>2, <1>8, <2>1, <3>1, SameHolders
  <2>2. CASE s \in S /\ queue[s] = <<>>
    <3>1. free'[s] = free[s] + 1
      BY <2>2 DEF Leave, Released
    <3>2. Holders(s)' = Holders(s) \ {t}
      BY <1>3, <1>8, <2>2
    <3>. QED  BY <1>2, <1>6, <2>2, <3>1, <3>2, OneLess
  <2>3. CASE s \in S /\ queue[s] # <<>>
    <3>1. free'[s] = free[s]
      BY <2>3 DEF Leave, Released
    <3>2. Oldest(s) = {Head(queue[s])} /\ Head(queue[s]) \in Task
      BY <1>2, <1>3, <2>3
    <3>3. Head(queue[s]) \notin Holders(s)
      BY <1>7, <2>3, <3>2
    <3>. QED  BY <1>2, <1>6, <1>8, <2>3, <3>1, <3>2, <3>3, HandedOver
  <2>. QED  BY <2>1, <2>2, <2>3
<1>. QED  BY <1>9 DEF SlotAccounting, Balanced

(* Every step keeps slots and holders adding up.                             *)
LEMMA SlotsStep == TInv /\ NoLostWakeup /\ SlotAccounting /\ [Next]_vars => SlotAccounting'
<1>. SUFFICES ASSUME TInv, NoLostWakeup, SlotAccounting, [Next]_vars PROVE SlotAccounting'
  OBVIOUS
<1>1. ASSUME plan' = plan, free' = free, NEW t \in Task, NEW to, pc' = [pc EXCEPT ![t] = to],
             \A s \in Sems : t \in Holders(s)' <=> t \in Holders(s)
      PROVE  SlotAccounting'
  <2>1. TakeSlots({})
    BY <1>1 DEF TakeSlots, TInv, TypeOK
  <2>. QED  BY <1>1, <2>1, TakeStep
<1>a. \A u : RoleSem(u) # "total" /\ RoleSem(u) \in Sems
  BY DEF RoleSem, Sems
<1>2. ASSUME NEW t \in Task, NEW S \in SUBSET {"total"}, TryRole(t, S), plan' = plan,
             pc[t] = IF "total" \in S THEN "new" ELSE "gotTotal"
      PROVE  SlotAccounting'
  <2>1. \A s \in Sems : t \in Holders(s) <=> s = "total" /\ "total" \notin S
    BY <1>2 DEF Holders, HasTotal, HasRole, InsideTask
  <2>2. CASE TakeSlots(S) /\ pc' = [pc EXCEPT ![t] = "waitRole"]
    <3>1. "waitRole" \in HasTotal /\ "waitRole" \notin HasRole
      BY DEF HasTotal, HasRole, InsideTask
    <3>2. \A s \in Sems : t \in Holders(s)' <=> s = "total"
      BY <1>2, <2>2, <3>1, MoveHolders
    <3>3. /\ S \in SUBSET Sems
          /\ \A s \in Sems : t \in Holders(s)' <=> t \in Holders(s) \/ s \in S
          /\ \A s \in S : t \notin Holders(s)
      BY <1>2, <2>1, <3>2 DEF Sems
    <3>. QED  BY <1>2, <2>2, <3>3, TakeStep
  <2>3. CASE TakeSlots(S \union {RoleSem(t)}) /\ pc' = [pc EXCEPT ![t] = "gotRole"]
    <3>1. \A s \in Sems : t \in Holders(s)' <=> s = "total" \/ s = RoleSem(t)
      BY <1>2, <1>a, <2>3, MoveHolders DEF HasTotal, HasRole, InsideTask
    <3>2. S \union {RoleSem(t)} \in SUBSET Sems
      BY <1>a DEF Sems
    <3>3. /\ \A s \in Sems : t \in Holders(s)' <=> t \in Holders(s) \/ s \in S \union {RoleSem(t)}
          /\ \A s \in S \union {RoleSem(t)} : t \notin Holders(s)
      BY <1>a, <2>1, <3>1 DEF Sems
    <3>. QED  BY <1>2, <2>3, <3>2, <3>3, TakeStep
  <2>. QED  BY <1>2, <2>2, <2>3 DEF TryRole, Enqueue, Goto
<1>3. ASSUME NEW t \in Task, EnterLimiter(t) PROVE SlotAccounting'
  <2>1. pc[t] = "new" /\ plan' = plan
    BY <1>3 DEF EnterLimiter, Enqueue, IsNext
  <2>2. CASE TryRole(t, {"total"})
    BY <1>2, <2>1, <2>2
  <2>3. CASE pc' = [pc EXCEPT ![t] = "waitTotal"] /\ free' = free
    <3>1. \A s \in Sems : t \in Holders(s)' <=> t \in Holders(s)
      <4>1. \A s \in Sems : t \notin Holders(s)
        BY <2>1 DEF Holders, HasTotal, HasRole, InsideTask
      <4>2. \A s \in Sems : t \notin Holders(s)'
        BY <2>1, <2>3, MoveHolders DEF HasTotal, HasRole, InsideTask
      <4>. QED  BY <4>1, <4>2
    <3>. QED  BY <1>1, <2>1, <2>3, <3>1
  <2>. QED  BY <1>3, <2>2, <2>3 DEF EnterLimiter, Enqueue, Goto
<1>4. ASSUME NEW t \in Task, TotalGranted(t) PROVE SlotAccounting'
  BY <1>2, <1>4 DEF TotalGranted, IsNext
<1>5. ASSUME NEW t \in Task, NEW to \in InsideTask, pc[t] \in {"gotRole"} \union InsideTask,
             plan' = plan, free' = free, pc' = [pc EXCEPT ![t] = to]
      PROVE  SlotAccounting'
  <2>1. \A s \in Sems : t \in Holders(s) <=> s = "total" \/ s = RoleSem(t)
    BY <1>5 DEF Holders, HasTotal, HasRole
  <2>2. \A s \in Sems : t \in Holders(s)' <=> s = "total" \/ s = RoleSem(t)
    BY <1>5, MoveHolders DEF HasTotal, HasRole
  <2>. QED  BY <1>1, <1>5, <2>1, <2>2
<1>6. ASSUME NEW t \in Task, Register(t) \/ LoadFails(t) PROVE SlotAccounting'
  <2>1. /\ pc[t] = "gotRole" /\ plan' = plan /\ free' = free
        /\ \E to \in {"planned", "leaving"} : pc' = [pc EXCEPT ![t] = to]
    BY <1>6 DEF Register, LoadFails, IsNext, Goto, limiterVars
  <2>. QED  BY <1>5, <2>1 DEF InsideTask
<1>7. ASSUME NEW t \in Task, Execute(t), ~Leave(t) PROVE SlotAccounting'
  BY <1>5, <1>7, ExecuteQuiet
<1>8. ASSUME NEW t \in Task, Leave(t) PROVE SlotAccounting'
  BY <1>8, LeaveSlots
<1>9. CASE EvaluateGate \/ UNCHANGED vars
  <2>1. UNCHANGED <<plan, free, pc>>
    BY <1>9 DEF EvaluateGate, vars, limiterVars
  <2>. QED  BY <2>1 DEF SlotAccounting, Holders, RoleSem
<1>. QED  BY <1>3, <1>4, <1>6, <1>7, <1>8, <1>9 DEF Next, Dispatch, RunOver

(* At the start every slot is free.                                          *)
LEMMA SlotsInit == Init => SlotAccounting
<1>. SUFFICES ASSUME Init PROVE SlotAccounting
  OBVIOUS
<1>1. \A s \in Sems : Holders(s) = {} /\ free[s] = Cap[s] /\ Cap[s] \in Nat
  BY DEF Init, Holders, HasTotal, HasRole, InsideTask
<1>. QED  BY <1>1, FS_EmptySet DEF SlotAccounting

(* The limiter never loses or makes up a slot, whatever fails inside it: so  *)
(* at most Cap[s] tasks are ever inside semaphore s.                         *)
THEOREM SlotsAddUp == Spec => []SlotAccounting
<1>1. Init => TInv /\ NoLostWakeup /\ SlotAccounting
  BY TypeInit, WakeupInit, SlotsInit
<1>2. TInv /\ NoLostWakeup /\ SlotAccounting /\ [Next]_vars => (TInv /\ NoLostWakeup /\ SlotAccounting)'
  BY TypeStep, WakeupStep, SlotsStep
<1>. QED  BY <1>1, <1>2, PTL DEF Spec
-------------------------------------------------------------------------------
(* How a project run ends: what the board says of a task against what its  *)
(* coroutine returned, in which order tasks pass the limiter, and that      *)
(* TaskPipeline implements ProjectRun.                                      *)

(* The status of the item while the task goes well, by where the task is.   *)
ItemAt == [planned |-> "PLANNED", polling |-> "WAITING", context |-> "IN_PROGRESS",
           asking |-> "IN_PROGRESS", generating |-> "IN_PROGRESS", delivering |-> "DONE"]

GaveUp == {"missing", "blocked", "timeout"}

(* A task that goes well has the status of its place and no result yet; one *)
(* that returned is DONE.                                                   *)
GoingWell(t) == /\ pc[t] \in DOMAIN ItemAt => status[t] = ItemAt[pc[t]]
                /\ pc[t] \in Outside \union DOMAIN ItemAt => err[t] = "none" /\ result[t] = "none"
Returned(t) == pc[t] \in {"leaving", "left"} /\ err[t] = "none" =>
                 status[t] = "DONE" /\ result[t] \in {"success", "unsuccessful"}
WellInv == \A t \in Task : GoingWell(t) /\ (pc[t] = "failing" => err[t] # "none") /\ Returned(t)

(* When storage does not fail, a task that gave up waiting is WAITING, and  *)
(* one that failed at work is IN_PROGRESS until it is marked.               *)
Failed(t) ==
  /\ pc[t] = "failing" =>
       result[t] = "none" /\ status[t] = IF err[t] \in GaveUp THEN "WAITING" ELSE "IN_PROGRESS"
  /\ pc[t] \in {"leaving", "left"} /\ err[t] # "none" =>
       IF err[t] \in GaveUp THEN status[t] = "WAITING" /\ result[t] = "none"
                            ELSE status[t] = "FAILED" /\ result[t] = "failed"
FailInv == StorageMayFail \/ \A t \in Task : Failed(t)

(* Tasks pass total's semaphore in the order of the plan: they are started  *)
(* in it, wait in it, and before one is granted its slot no later one is.   *)
Runnable == {"new", "gotTotal", "gotRole"}
PassOrder ==
  /\ \A t \in Task : pc[t] \in Runnable => t \in Elems(ready)
  /\ \A i, j \in DOMAIN ready : i < j /\ pc[ready[j]] = "new" => pc[ready[i]] = "new" /\ ready[i] < ready[j]
  /\ \A t, u \in Task : t < u => /\ pc[t] = "new" => pc[u] = "new"
                                 /\ pc[t] = "waitTotal" => pc[u] \in {"new", "waitTotal"}
                                 /\ pc[t] = "gotTotal" => pc[u] = "waitTotal"

(* Nor is a task overtaken by one of its own role.                          *)
RoleOrder == \A t, u \in Task : t < u /\ RoleSem(t) = RoleSem(u) /\ pc[t] = "waitRole" => pc[u] \notin HasRole

EInv == WellInv /\ FailInv
OInv == PassOrder /\ RoleOrder /\ QueuesInPlanOrder

-------------------------------------------------------------------------------
(* At the start no task has an item.                                        *)
LEMMA OutcomeInit == Init => EInv
BY DEF Init, EInv, WellInv, FailInv, GoingWell, Returned, Failed, Outside, ItemAt

(* A step of t keeps what holds of the others: they stay, or are granted a  *)
(* slot.                                                                    *)
LEMMA OutcomeStep ==
  ASSUME EInv, NEW t \in Task,
         \A u \in Task \ {t} : /\ status'[u] = status[u] /\ err'[u] = err[u] /\ result'[u] = result[u]
                               /\ pc'[u] = pc[u] \/ (pc[u] \in Outside /\ pc'[u] \in Outside),
         GoingWell(t)', pc'[t] = "failing" => err'[t] # "none", Returned(t)',
         StorageMayFail \/ Failed(t)'
  PROVE  EInv'
<1>1. ASSUME NEW u \in Task, u # t
      PROVE  GoingWell(u)' /\ (pc'[u] = "failing" => err'[u] # "none") /\ Returned(u)'
  BY <1>1 DEF EInv, WellInv, GoingWell, Returned, Outside, ItemAt
<1>2. ASSUME NEW u \in Task, u # t, ~StorageMayFail PROVE Failed(u)'
  BY <1>2 DEF EInv, FailInv, Failed, Outside
<1>. QED  BY <1>1, <1>2 DEF EInv, WellInv, FailInv

(* set_status succeeds from the status a task has while it goes well, unless *)
(* storage fails.                                                           *)
LEMMA StatusSet ==
  ASSUME TInv, EInv, NEW t \in Task, pc[t] \in DOMAIN ItemAt, NEW new \in Statuses,
         <<ItemAt[pc[t]], new>> \in Allowed, NEW to \in {"context", "polling", "delivering"},
         ItemAt[to] = new, SetStatus(t, new, to), result' = result
  PROVE  EInv'
<1>1. /\ status[t] = ItemAt[pc[t]] /\ err[t] = "none" /\ result[t] = "none"
      /\ pc \in [Task -> PCs] /\ status \in [Task -> Statuses \union {"none"}] /\ err \in [Task -> Errors]
  BY DEF EInv, WellInv, GoingWell, TInv, TypeOK
<1>2. /\ status' = [status EXCEPT ![t] = new]
      /\ \/ pc' = [pc EXCEPT ![t] = to] /\ err' = err
         \/ StorageMayFail /\ pc' = [pc EXCEPT ![t] = "failing"] /\ err' = [err EXCEPT ![t] = "unknown"]
  BY <1>1 DEF SetStatus, Goto, Raise
<1>3. \A u \in Task \ {t} : /\ status'[u] = status[u] /\ err'[u] = err[u] /\ result'[u] = result[u]
                            /\ pc'[u] = pc[u] \/ (pc[u] \in Outside /\ pc'[u] \in Outside)
  BY <1>1, <1>2
<1>4. CASE pc' = [pc EXCEPT ![t] = to] /\ err' = err
  <2>1. pc'[t] = to /\ status'[t] = ItemAt[to] /\ err'[t] = "none" /\ result'[t] = "none"
    BY <1>1, <1>2, <1>4
  <2>2. GoingWell(t)' /\ pc'[t] # "failing" /\ Returned(t)' /\ Failed(t)'
    BY <2>1 DEF GoingWell, Returned, Failed
  <2>. QED  BY <1>3, <2>2, OutcomeStep
<1>5. CASE StorageMayFail /\ pc' = [pc EXCEPT ![t] = "failing"] /\ err' = [err EXCEPT ![t] = "unknown"]
  <2>1. pc'[t] = "failing" /\ err'[t] = "unknown"
    BY <1>1, <1>5
  <2>2. GoingWell(t)' /\ Returned(t)'
    BY <2>1 DEF GoingWell, Returned, Outside, ItemAt
  <2>. QED  BY <1>3, <1>5, <2>1, <2>2, OutcomeStep
<1>. QED  BY <1>2, <1>4, <1>5

(* An exception before the result is delivered.                             *)
LEMMA RaisedAtWork ==
  ASSUME TInv, EInv, NEW t \in Task, pc[t] \in DOMAIN ItemAt, NEW why \in Errors \ {"none"},
         Raise(t, why), status' = status, result' = result,
         StorageMayFail \/ status[t] = IF why \in GaveUp THEN "WAITING" ELSE "IN_PROGRESS"
  PROVE  EInv'
<1>1. pc' = [pc EXCEPT ![t] = "failing"] /\ err' = [err EXCEPT ![t] = why] /\ result[t] = "none"
      /\ pc \in [Task -> PCs] /\ err \in [Task -> Errors]
  BY DEF EInv, WellInv, GoingWell, TInv, TypeOK, Raise, Goto
<1>2. pc'[t] = "failing" /\ err'[t] = why
  BY <1>1
<1>3. GoingWell(t)' /\ Returned(t)' /\ (StorageMayFail \/ Failed(t)')
  BY <1>1, <1>2 DEF GoingWell, Returned, Outside, ItemAt, Failed
<1>. QED  BY <1>1, <1>2, <1>3, OutcomeStep

(* A task that goes on to a place with the same status.                     *)
LEMMA WentOn ==
  ASSUME TInv, EInv, NEW t \in Task, pc[t] \in DOMAIN ItemAt, NEW to \in DOMAIN ItemAt,
         ItemAt[to] = ItemAt[pc[t]], pc' = [pc EXCEPT ![t] = to], UNCHANGED <<status, err, result>>
  PROVE  EInv'
<1>1. /\ status[t] = ItemAt[pc[t]] /\ err[t] = "none" /\ result[t] = "none"
      /\ pc'[t] = to /\ \A u \in Task \ {t} : pc'[u] = pc[u]
  BY DEF EInv, WellInv, GoingWell, TInv, TypeOK
<1>2. GoingWell(t)' /\ pc'[t] # "failing" /\ Returned(t)' /\ Failed(t)'
  BY <1>1 DEF GoingWell, Returned, Failed, ItemAt
<1>. QED  BY <1>1, <1>2, OutcomeStep

(* Nothing that the board or the coroutine shows changes.                   *)
LEMMA OutcomeSame ==
  ASSUME EInv, UNCHANGED <<pc, status, err, result>>
  PROVE  EInv'
BY DEF EInv, WellInv, FailInv, GoingWell, Returned, Failed

(* Who stays outside of execute_task has no item, no error and no result.   *)
LEMMA OutcomeDispatch ==
  ASSUME TInv, EInv, NEW t \in Task, pc[t] \in Outside, NEW to \in Outside,
         pc' = [pc EXCEPT ![t] = to], UNCHANGED <<status, err, result>>
  PROVE  EInv'
<1>1. /\ pc'[t] = to /\ \A u \in Task \ {t} : pc'[u] = pc[u]
      /\ err[t] = "none" /\ result[t] = "none"
  BY DEF EInv, WellInv, GoingWell, TInv, TypeOK
<1>2. GoingWell(t)' /\ pc'[t] # "failing" /\ Returned(t)' /\ Failed(t)'
  BY <1>1 DEF GoingWell, Returned, Failed, Outside, ItemAt
<1>. QED  BY <1>1, <1>2, OutcomeStep

(* register() gives the task an item that is PLANNED; if the write fails,    *)
(* the task leaves with an error.                                            *)
LEMMA OutcomeRegister ==
  ASSUME TInv, EInv, NEW t \in Task, Register(t)
  PROVE  EInv'
<1>1. /\ pc[t] = "gotRole" /\ status' = [status EXCEPT ![t] = "PLANNED"] /\ result' = result
      /\ \/ pc' = [pc EXCEPT ![t] = "planned"] /\ err' = err
         \/ StorageMayFail /\ pc' = [pc EXCEPT ![t] = "leaving"] /\ err' = [err EXCEPT ![t] = "unknown"]
      /\ pc \in [Task -> PCs] /\ status \in [Task -> Statuses \union {"none"}] /\ err \in [Task -> Errors]
  BY DEF Register, IsNext, Goto, TInv, TypeOK
<1>2. err[t] = "none" /\ result[t] = "none"
  BY <1>1 DEF EInv, WellInv, GoingWell, Outside
<1>3. \A u \in Task \ {t} : pc'[u] = pc[u] /\ status'[u] = status[u] /\ err'[u] = err[u]
  BY <1>1
<1>4. CASE pc' = [pc EXCEPT ![t] = "planned"] /\ err' = err
  <2>1. pc'[t] = "planned" /\ status'[t] = "PLANNED" /\ err'[t] = "none" /\ result'[t] = "none"
    BY <1>1, <1>2, <1>4
  <2>2. GoingWell(t)' /\ pc'[t] # "failing" /\ Returned(t)' /\ Failed(t)'
    BY <2>1 DEF GoingWell, Returned, Failed, ItemAt
  <2>. QED  BY <1>1, <1>3, <2>2, OutcomeStep
<1>5. CASE StorageMayFail /\ pc' = [pc EXCEPT ![t] = "leaving"] /\ err' = [err EXCEPT ![t] = "unknown"]
  <2>1. pc'[t] = "leaving" /\ err'[t] = "unknown"
    BY <1>1, <1>5
  <2>2. GoingWell(t)' /\ Returned(t)'
    BY <2>1 DEF GoingWell, Returned, Outside, ItemAt
  <2>. QED  BY <1>1, <1>3, <1>5, <2>1, <2>2, OutcomeStep
<1>. QED  BY <1>1, <1>4, <1>5

(* A task whose agent's DNA cannot be read leaves with an error.             *)
LEMMA OutcomeUnloaded ==
  ASSUME TInv, EInv, NEW t \in Task, LoadFails(t)
  PROVE  EInv'
<1>1. /\ pc[t] = "gotRole" /\ status' = status /\ result' = result /\ StorageMayFail
      /\ pc' = [pc EXCEPT ![t] = "leaving"] /\ err' = [err EXCEPT ![t] = "unknown"]
      /\ pc \in [Task -> PCs] /\ err \in [Task -> Errors]
  BY DEF LoadFails, IsNext, Goto, itemVars, TInv, TypeOK
<1>2. \A u \in Task \ {t} : pc'[u] = pc[u] /\ status'[u] = status[u] /\ err'[u] = err[u]
  BY <1>1
<1>3. pc'[t] = "leaving" /\ err'[t] = "unknown"
  BY <1>1
<1>4. GoingWell(t)' /\ Returned(t)'
  BY <1>3 DEF GoingWell, Returned, Outside, ItemAt
<1>. QED  BY <1>1, <1>2, <1>3, <1>4, OutcomeStep

(* Polling leaves the item WAITING until the last dependency is DONE or the  *)
(* task gives up.                                                            *)
LEMMA OutcomePoll ==
  ASSUME TInv, EInv, NEW t \in Task, PollDependency(t)
  PROVE  EInv'
<1>1. pc[t] = "polling" /\ result' = result /\ status[t] = "WAITING" /\ pc[t] \in DOMAIN ItemAt
      /\ ItemAt[pc[t]] = "WAITING"
  BY DEF PollDependency, Resumes, EInv, WellInv, GoingWell, ItemAt
<1>2. CASE UNCHANGED <<pc, status, err>>
  BY <1>1, <1>2, OutcomeSame
<1>3. CASE SetStatus(t, "IN_PROGRESS", "context")
  BY <1>1, <1>3, StatusSet DEF ItemAt, Allowed, Statuses
<1>4. CASE \E why \in {"missing", "blocked"} : Raise(t, why) /\ status' = status
  BY <1>1, <1>4, RaisedAtWork DEF GaveUp, Errors
<1>. QED  BY <1>2, <1>3, <1>4 DEF PollDependency, DepDone, DepMissing, DepFailed, DepUnderWay

(* The LLM answers: the item is DONE, or the task fails at work or tries     *)
(* again.                                                                    *)
LEMMA OutcomeGenerate ==
  ASSUME TInv, EInv, NEW t \in Task, Generate(t)
  PROVE  EInv'
<1>1. pc[t] = "generating" /\ result' = result /\ status[t] = "IN_PROGRESS" /\ pc[t] \in DOMAIN ItemAt
      /\ ItemAt[pc[t]] = "IN_PROGRESS"
  BY DEF Generate, Resumes, EInv, WellInv, GoingWell, ItemAt
<1>2. CASE UNCHANGED <<pc, status, err>>
  BY <1>1, <1>2, OutcomeSame
<1>3. CASE SetStatus(t, "DONE", "delivering")
  BY <1>1, <1>3, StatusSet DEF ItemAt, Allowed, Statuses
<1>4. CASE \E why \in {"parse", "unknown"} : Raise(t, why) /\ status' = status
  BY <1>1, <1>4, RaisedAtWork DEF GaveUp, Errors
<1>. QED  BY <1>2, <1>3, <1>4 DEF Generate, Parsed, Unparsable, LlmRaises

(* The result is attached to an item that is DONE.                           *)
LEMMA OutcomeAttach ==
  ASSUME TInv, EInv, NEW t \in Task, AttachResult(t)
  PROVE  EInv'
<1>0. pc[t] = "delivering" /\ status[t] = "DONE" /\ err[t] = "none"
  BY DEF AttachResult, Resumes, EInv, WellInv, GoingWell, ItemAt
<1>1. /\ status' = status
      /\ \E r \in {"success", "unsuccessful"} : result' = [result EXCEPT ![t] = r]
      /\ \/ pc' = [pc EXCEPT ![t] = "leaving"] /\ err' = err
         \/ StorageMayFail /\ pc' = [pc EXCEPT ![t] = "failing"] /\ err' = [err EXCEPT ![t] = "unknown"]
      /\ pc \in [Task -> PCs] /\ result \in [Task -> Results] /\ err \in [Task -> Errors]
  BY DEF AttachResult, Goto, Raise, TInv, TypeOK
<1>2. /\ result'[t] \in {"success", "unsuccessful"}
      /\ \A u \in Task \ {t} : pc'[u] = pc[u] /\ result'[u] = result[u] /\ err'[u] = err[u]
  BY <1>1
<1>3. CASE pc' = [pc EXCEPT ![t] = "leaving"] /\ err' = err
  <2>1. pc'[t] = "leaving" /\ err'[t] = "none" /\ status'[t] = "DONE"
    BY <1>0, <1>1, <1>3
  <2>2. GoingWell(t)' /\ pc'[t] # "failing" /\ Returned(t)' /\ Failed(t)'
    BY <1>2, <2>1 DEF GoingWell, Returned, Failed, Outside, ItemAt
  <2>. QED  BY <1>1, <1>2, <2>2, OutcomeStep
<1>4. CASE StorageMayFail /\ pc' = [pc EXCEPT ![t] = "failing"] /\ err' = [err EXCEPT ![t] = "unknown"]
  <2>1. pc'[t] = "failing" /\ err'[t] = "unknown"
    BY <1>0, <1>1, <1>4
  <2>2. GoingWell(t)' /\ Returned(t)'
    BY <2>1 DEF GoingWell, Returned, Outside, ItemAt
  <2>. QED  BY <1>1, <1>2, <1>4, <2>1, <2>2, OutcomeStep
<1>. QED  BY <1>1, <1>3, <1>4

(* _mark_failed makes FAILED only what was IN_PROGRESS.                      *)
LEMMA OutcomeMarked ==
  ASSUME TInv, EInv, NEW t \in Task, MarkFailed(t)
  PROVE  EInv'
<1>1. /\ pc[t] = "failing" /\ err' = err /\ err[t] # "none"
      /\ pc' = [pc EXCEPT ![t] = "leaving"]
      /\ pc \in [Task -> PCs] /\ status \in [Task -> Statuses \union {"none"}] /\ result \in [Task -> Results]
  BY DEF MarkFailed, Resumes, Goto, agentVars, EInv, WellInv, TInv, TypeOK
<1>2. \/ <<status[t], "FAILED">> \notin Allowed /\ UNCHANGED <<status, result>>
      \/ /\ status[t] = "IN_PROGRESS" /\ status' = [status EXCEPT ![t] = "FAILED"]
         /\ \/ result' = [result EXCEPT ![t] = "failed"]
            \/ StorageMayFail /\ result' = result
  BY DEF MarkFailed, Allowed
<1>3. \A u \in Task \ {t} : pc'[u] = pc[u] /\ status'[u] = status[u] /\ result'[u] = result[u]
  BY <1>1, <1>2
<1>4. pc'[t] = "leaving" /\ err'[t] = err[t]
  BY <1>1
<1>5. GoingWell(t)' /\ pc'[t] # "failing" /\ Returned(t)'
  BY <1>1, <1>4 DEF GoingWell, Returned, Outside, ItemAt
<1>6. ASSUME ~StorageMayFail PROVE Failed(t)'
  <2>1. result[t] = "none" /\ status[t] = IF err[t] \in GaveUp THEN "WAITING" ELSE "IN_PROGRESS"
    BY <1>1, <1>6 DEF EInv, FailInv, Failed
  <2>2. CASE err[t] \in GaveUp
    <3>1. <<status[t], "FAILED">> \notin Allowed
      BY <2>1, <2>2 DEF Allowed
    <3>2. status'[t] = "WAITING" /\ result'[t] = "none"
      BY <1>2, <2>1, <2>2, <3>1
    <3>. QED  BY <1>4, <2>2, <3>2 DEF Failed
  <2>3. CASE err[t] \notin GaveUp
    <3>1. <<status[t], "FAILED">> \in Allowed
      BY <2>1, <2>3 DEF Allowed
    <3>2. status'[t] = "FAILED" /\ result'[t] = "failed"
      BY <1>1, <1>2, <1>6, <3>1
    <3>. QED  BY <1>4, <2>3, <3>2 DEF Failed
  <2>. QED  BY <2>2, <2>3
<1>. QED  BY <1>1, <1>3, <1>5, <1>6, OutcomeStep

(* Who leaves keeps its item, and whom it wakes is outside of execute_task   *)
(* still.                                                                    *)
LEMMA OutcomeLeave ==
  ASSUME TInv, NoLostWakeup, EInv, NEW t \in Task, Leave(t)
  PROVE  EInv'
<1>1. /\ pc[t] = "leaving" /\ UNCHANGED <<status, result>>
      /\ pc' = [u \in Task |-> CASE u = t -> "left"
                                 [] u \in Oldest(RoleSem(t)) -> "gotRole"
                                 [] u \in Oldest("total") -> "gotTotal"
                                 [] OTHER -> pc[u]]
      /\ \/ err' = err
         \/ StorageMayFail /\ err[t] = "none" /\ err' = [err EXCEPT ![t] = "unknown"]
      /\ pc \in [Task -> PCs] /\ err \in [Task -> Errors]
  BY DEF Leave, itemVars, TInv, TypeOK
<1>2. ASSUME NEW u \in Task \ {t}
      PROVE  err'[u] = err[u] /\ (pc'[u] = pc[u] \/ (pc[u] \in Outside /\ pc'[u] \in Outside))
  <2>1. err'[u] = err[u]
    BY <1>1
  <2>2. CASE u \in Oldest(RoleSem(t))
    BY <1>1, <2>1, <2>2, OldestWaits DEF Outside
  <2>3. CASE u \notin Oldest(RoleSem(t)) /\ u \in Oldest("total")
    BY <1>1, <2>1, <2>3, OldestWaits DEF Outside
  <2>4. CASE u \notin Oldest(RoleSem(t)) /\ u \notin Oldest("total")
    BY <1>1, <2>1, <2>4
  <2>. QED  BY <2>2, <2>3, <2>4
<1>3. pc'[t] = "left" /\ status'[t] = status[t] /\ result'[t] = result[t]
  <2>1. t \notin Oldest("total") /\ t \notin Oldest(RoleSem(t))
    BY <1>1, OldestWaits
  <2>. QED  BY <1>1, <2>1
<1>4. GoingWell(t)' /\ pc'[t] # "failing"
  BY <1>3 DEF GoingWell, Outside, ItemAt
<1>5. CASE err' = err
  <2>1. Returned(t)'
    BY <1>1, <1>3, <1>5 DEF EInv, WellInv, Returned
  <2>2. StorageMayFail \/ Failed(t)'
    BY <1>1, <1>3, <1>5 DEF EInv, FailInv, Failed
  <2>. QED  BY <1>1, <1>2, <1>4, <2>1, <2>2, OutcomeStep
<1>6. CASE StorageMayFail /\ err[t] = "none" /\ err' = [err EXCEPT ![t] = "unknown"]
  <2>1. Returned(t)'
    BY <1>1, <1>6 DEF Returned
  <2>. QED  BY <1>1, <1>2, <1>4, <1>6, <2>1, OutcomeStep
<1>. QED  BY <1>1, <1>5, <1>6

(* Every step keeps the board and the coroutines in agreement.              *)
LEMMA OutcomeNext == TInv /\ NoLostWakeup /\ EInv /\ [Next]_vars => EInv'
<1>. SUFFICES ASSUME TInv, NoLostWakeup, EInv, [Next]_vars PROVE EInv'
  OBVIOUS
<1>1. ASSUME NEW t \in Task, EnterLimiter(t) \/ TotalGranted(t) PROVE EInv'
  <2>1. /\ pc[t] \in Outside /\ UNCHANGED <<status, err, result>>
        /\ \E to \in {"waitTotal", "waitRole", "gotRole"} : pc' = [pc EXCEPT ![t] = to]
    BY <1>1 DEF EnterLimiter, TotalGranted, TryRole, IsNext, Goto, itemVars, agentVars, Outside
  <2>. QED  BY <2>1, OutcomeDispatch DEF Outside
<1>2. ASSUME NEW t \in Task, HandleDependencies(t) PROVE EInv'
  <2>1. pc[t] = "planned" /\ result' = result /\ pc[t] \in DOMAIN ItemAt /\ ItemAt[pc[t]] = "PLANNED"
    BY <1>2 DEF HandleDependencies, Resumes, ItemAt
  <2>2. SetStatus(t, "IN_PROGRESS", "context") \/ SetStatus(t, "WAITING", "polling")
    BY <1>2 DEF HandleDependencies
  <2>. QED  BY <2>1, <2>2, StatusSet DEF ItemAt, Allowed, Statuses
<1>3. ASSUME NEW t \in Task, DependencyTimeout(t) PROVE EInv'
  <2>1. /\ pc[t] = "polling" /\ UNCHANGED <<status, result>> /\ Raise(t, "timeout")
        /\ status[t] = "WAITING" /\ pc[t] \in DOMAIN ItemAt
    BY <1>3 DEF DependencyTimeout, Resumes, itemVars, EInv, WellInv, GoingWell, ItemAt
  <2>. QED  BY <2>1, RaisedAtWork DEF GaveUp, Errors
<1>4. ASSUME NEW t \in Task, BuildContext(t) PROVE EInv'
  <2>1. /\ pc[t] = "context" /\ UNCHANGED <<status, result>> /\ pc[t] \in DOMAIN ItemAt
        /\ ItemAt[pc[t]] = "IN_PROGRESS"
        /\ \/ \E to \in {"generating", "asking"} : pc' = [pc EXCEPT ![t] = to] /\ err' = err
           \/ StorageMayFail /\ Raise(t, "unknown")
    BY <1>4 DEF BuildContext, Resumes, Goto, itemVars, ItemAt
  <2>2. CASE \E to \in {"generating", "asking"} : pc' = [pc EXCEPT ![t] = to] /\ err' = err
    <3>1. \A to \in {"generating", "asking"} : to \in DOMAIN ItemAt /\ ItemAt[to] = "IN_PROGRESS"
      BY DEF ItemAt
    <3>. QED  BY <2>1, <2>2, <3>1, WentOn
  <2>3. CASE StorageMayFail /\ Raise(t, "unknown")
    BY <2>1, <2>3, RaisedAtWork DEF Errors
  <2>. QED  BY <2>1, <2>2, <2>3
<1>5. ASSUME NEW t \in Task, AskReturns(t) PROVE EInv'
  <2>1. /\ pc[t] = "asking" /\ UNCHANGED <<status, err, result>> /\ pc' = [pc EXCEPT ![t] = "generating"]
        /\ pc[t] \in DOMAIN ItemAt /\ ItemAt[pc[t]] = "IN_PROGRESS"
    BY <1>5 DEF AskReturns, Resumes, Goto, itemVars, agentVars, ItemAt
  <2>2. "generating" \in DOMAIN ItemAt /\ ItemAt["generating"] = "IN_PROGRESS"
    BY DEF ItemAt
  <2>. QED  BY <2>1, <2>2, WentOn
<1>6. CASE UNCHANGED <<pc, status, err, result>>
  BY <1>6, OutcomeSame
<1>. QED  BY <1>1, <1>2, <1>3, <1>4, <1>5, <1>6, OutcomeRegister, OutcomeUnloaded, OutcomePoll, OutcomeGenerate, OutcomeAttach,
             OutcomeMarked, OutcomeLeave
          DEF Next, Dispatch, Execute, EvaluateGate, RunOver, vars, itemVars, agentVars

(* The invariant about how tasks end, whatever fails.                       *)
THEOREM OutcomeInvariant == Spec => []EInv
<1>1. Init => TInv /\ NoLostWakeup /\ EInv
  BY TypeInit, WakeupInit, OutcomeInit
<1>2. (TInv /\ NoLostWakeup /\ EInv) /\ [Next]_vars => (TInv /\ NoLostWakeup /\ EInv)'
  BY TypeStep, WakeupStep, OutcomeNext
<1>. QED  BY <1>1, <1>2, PTL DEF Spec

(* ReturnedIsDone: a result that gather gets back has a DONE item, even if  *)
(* storage fails (execute_task sets DONE before it attaches the result).    *)
THEOREM ReturnedMeansDone == Spec => []ReturnedIsDone
<1>1. EInv => ReturnedIsDone
  BY DEF EInv, WellInv, Returned, ReturnedIsDone
<1>. QED  BY <1>1, OutcomeInvariant, PTL

(* OutcomeMatchesItem: when no write fails, the board and what gather gets  *)
(* back agree: returned and DONE with that result, failed at work and FAILED. *)
THEOREM BoardTellsTheOutcome ==
  ASSUME ~StorageMayFail
  PROVE  Spec => []OutcomeMatchesItem
<1>1. TInv /\ EInv => OutcomeMatchesItem
  <2>. SUFFICES ASSUME TInv, EInv, NEW t \in Task, pc[t] = "left"
                PROVE  /\ err[t] = "none" <=> status[t] = "DONE"
                       /\ err[t] = "none" <=> result[t] \in {"success", "unsuccessful"}
                       /\ err[t] \in {"parse", "unknown"} => status[t] = "FAILED" /\ result[t] = "failed"
    BY DEF OutcomeMatchesItem
  <2>1. Returned(t) /\ Failed(t) /\ err[t] \in Errors
    BY DEF EInv, WellInv, FailInv, TInv, TypeOK
  <2>2. CASE err[t] = "none"
    BY <2>1, <2>2 DEF Returned
  <2>3. CASE err[t] \in GaveUp
    BY <2>1, <2>3 DEF Failed, GaveUp
  <2>4. CASE err[t] \notin GaveUp /\ err[t] # "none"
    BY <2>1, <2>4 DEF Failed, GaveUp, Errors
  <2>. QED  BY <2>2, <2>3, <2>4
<1>2. Spec => []TInv
  <2>1. Init => TInv /\ NoLostWakeup
    BY TypeInit, WakeupInit
  <2>2. (TInv /\ NoLostWakeup) /\ [Next]_vars => (TInv /\ NoLostWakeup)'
    BY TypeStep, WakeupStep
  <2>. QED  BY <2>1, <2>2, PTL DEF Spec
<1>. QED  BY <1>1, <1>2, OutcomeInvariant, PTL

-------------------------------------------------------------------------------
(* The order of the plan.                                                   *)
Sorted(q) == \A i, j \in DOMAIN q : i < j => q[i] < q[j]

(* QueuesInPlanOrder, one semaphore at a time.                              *)
LEMMA SortedQueues == QueuesInPlanOrder <=> \A s \in Sems : Sorted(queue[s])
BY DEF QueuesInPlanOrder, Sorted

(* A larger task at the end keeps a queue sorted.                           *)
LEMMA SortedAppend ==
  ASSUME NEW q \in Seq(Task), Sorted(q), NEW t \in Task, \A u \in Elems(q) : u < t
  PROVE  Sorted(Append(q, t))
<1>1. /\ DOMAIN q = 1 .. Len(q) /\ Len(q) \in Nat /\ DOMAIN Append(q, t) = 1 .. (Len(q) + 1)
      /\ \A i \in 1 .. Len(q) : Append(q, t)[i] = q[i]
      /\ Append(q, t)[Len(q) + 1] = t
  OBVIOUS
<1>. SUFFICES ASSUME NEW i \in 1 .. (Len(q) + 1), NEW j \in 1 .. (Len(q) + 1), i < j
              PROVE  Append(q, t)[i] < Append(q, t)[j]
  BY <1>1 DEF Sorted
<1>2. i \in 1 .. Len(q)
  BY <1>1
<1>3. CASE j = Len(q) + 1
  BY <1>1, <1>2, <1>3 DEF Elems
<1>4. CASE j \in 1 .. Len(q)
  BY <1>1, <1>2, <1>4 DEF Sorted
<1>. QED  BY <1>1, <1>3, <1>4

(* A sorted queue begins with its smallest task, and its tail is sorted.    *)
LEMMA SortedTail ==
  ASSUME NEW q \in Seq(Task), q # <<>>, Sorted(q)
  PROVE  Sorted(Tail(q)) /\ \A u \in Elems(q) : Head(q) <= u
<1>1. /\ DOMAIN q = 1 .. Len(q) /\ Len(q) \in Nat \ {0} /\ Head(q) = q[1]
      /\ DOMAIN Tail(q) = 1 .. (Len(q) - 1)
      /\ \A i \in 1 .. (Len(q) - 1) : Tail(q)[i] = q[i + 1]
      /\ \A i \in 1 .. Len(q) : q[i] \in Nat
  <2>1. \A i \in 1 .. Len(q) : q[i] \in Nat
    <3>1. \A i \in 1 .. Len(q) : q[i] \in Task
      BY ElementOfSeq
    <3>. QED  BY <3>1 DEF Task
  <2>2. \A i \in 1 .. (Len(q) - 1) : Tail(q)[i] = q[i + 1]
    OBVIOUS
  <2>. QED  BY <2>1, <2>2, LenProperties
<1>2. Sorted(Tail(q))
  <2>. SUFFICES ASSUME NEW i \in 1 .. (Len(q) - 1), NEW j \in 1 .. (Len(q) - 1), i < j
                PROVE  Tail(q)[i] < Tail(q)[j]
    BY <1>1 DEF Sorted
  <2>1. i + 1 \in 1 .. Len(q) /\ j + 1 \in 1 .. Len(q) /\ i + 1 < j + 1
    BY <1>1
  <2>. QED  BY <1>1, <2>1 DEF Sorted
<1>3. ASSUME NEW i \in 1 .. Len(q) PROVE q[1] <= q[i]
  <2>1. CASE i = 1
    BY <1>1, <2>1
  <2>2. CASE 1 < i
    BY <1>1, <2>2 DEF Sorted
  <2>. QED  BY <1>1, <2>1, <2>2
<1>. QED  BY <1>1, <1>2, <1>3 DEF Elems

(* Who waits is in the queue, and the queue holds nobody else.              *)
LEMMA QueuedWait ==
  ASSUME NoLostWakeup, NEW s \in Sems, NEW u \in Task
  PROVE  /\ u \in Elems(queue[s]) => pc[u] \in {"waitTotal", "waitRole"}
         /\ pc[u] = "waitTotal" => u \in Elems(queue["total"])
         /\ pc[u] = "waitRole" => u \in Elems(queue[RoleSem(u)])
         /\ u \in Elems(queue[s]) /\ pc[u] = "waitTotal" => s = "total"
         /\ u \in Elems(queue[s]) /\ pc[u] = "waitRole" => s = RoleSem(u)
<1>1. \A r \in Sems : Waiters(r) = Elems(queue[r])
  BY SemInvs DEF SemInv
<1>2. "total" \in Sems /\ RoleSem(u) \in Sems /\ RoleSem(u) # "total"
  BY DEF Sems, RoleSem
<1>. QED  BY <1>1, <1>2 DEF Waiters

(* The first runnable task runs: the others stay runnable, in their order.  *)
LEMMA RunFirst ==
  ASSUME TInv, PassOrder, NEW t \in Task, ready # <<>>, t = Head(ready), NEW to \in PCs \ {"new"},
         pc' = [pc EXCEPT ![t] = to],
         ready' = Tail(ready) \/ ready' = Append(Tail(ready), t),
         to \in Runnable => ready' = Append(Tail(ready), t)
  PROVE  /\ \A u \in Task : pc'[u] \in Runnable => u \in Elems(ready')
         /\ \A i, j \in DOMAIN ready' :
              i < j /\ pc'[ready'[j]] = "new" => pc'[ready'[i]] = "new" /\ ready'[i] < ready'[j]
<1>1. /\ ready \in Seq(Task) /\ pc \in [Task -> PCs] /\ t = ready[1]
      /\ Len(ready) \in Nat \ {0} /\ DOMAIN ready = 1 .. Len(ready)
      /\ \A i \in 1 .. Len(ready) : ready[i] \in Task
  BY LenProperties, EmptySeq, ElementOfSeq DEF TInv, TypeOK
<1>2. Rotated(ready', ready, t) /\ (ready' = Append(Tail(ready), t) => t \in Elems(ready'))
  BY ONLY <1>1, ready # <<>>, t \in Task, t = Head(ready), ready' = Tail(ready) \/ ready' = Append(Tail(ready), t), Rotate
<1>5. ASSUME NEW u \in Task, pc'[u] \in Runnable PROVE u \in Elems(ready')
  <2>1. CASE u = t
    BY <1>1, <1>2, <1>5, <2>1
  <2>2. CASE u # t
    <3>1. pc[u] \in Runnable
      BY <1>1, <1>5, <2>2
    <3>. QED  BY <1>2, <2>2, <3>1 DEF PassOrder, Rotated
  <2>. QED  BY <2>1, <2>2
<1>6. ASSUME NEW i \in DOMAIN ready', NEW j \in DOMAIN ready', i < j, pc'[ready'[j]] = "new"
      PROVE  pc'[ready'[i]] = "new" /\ ready'[i] < ready'[j]
  <2>1. ready'[j] # t
    BY <1>1, <1>6
  <2>2. j \in 1 .. (Len(ready) - 1) /\ ready'[j] = ready[j + 1]
    BY <1>2, <2>1 DEF Rotated
  <2>3. i \in 1 .. (Len(ready) - 1) /\ ready'[i] = ready[i + 1]
    BY <1>1, <1>2, <1>6, <2>2 DEF Rotated
  <2>4. i + 1 \in DOMAIN ready /\ j + 1 \in DOMAIN ready /\ i + 1 < j + 1 /\ 1 \in DOMAIN ready /\ 1 < i + 1
    BY <1>1, <1>6, <2>2, <2>3
  <2>5. pc[ready[j + 1]] = "new"
    BY <1>1, <1>6, <2>1, <2>2, <2>4
  <2>6. pc[ready[i + 1]] = "new" /\ ready[i + 1] < ready[j + 1]
    BY <2>4, <2>5 DEF PassOrder
  <2>7. ready[1] < ready[i + 1]
    BY <2>4, <2>6 DEF PassOrder
  <2>8. ready[i + 1] # t /\ ready[i + 1] \in Task
    BY <1>1, <2>4, <2>7 DEF Task
  <2>. QED  BY <1>1, <2>2, <2>3, <2>6, <2>8
<1>. QED  BY <1>5, <1>6

(* At the start the tasks are runnable in the order of the plan.            *)
LEMMA OrderInit == Init => OInv
<1>. SUFFICES ASSUME Init PROVE OInv
  OBVIOUS
<1>1. /\ \A t \in Task : pc[t] = "new" /\ ready[t] = t
      /\ DOMAIN ready = Task /\ \A s \in Sems : queue[s] = <<>>
  BY DEF Init, StartOrder
<1>2. PassOrder
  <2>1. \A t \in Task : t \in Elems(ready)
    BY <1>1 DEF Elems
  <2>. QED  BY <1>1, <2>1 DEF PassOrder
<1>3. RoleOrder /\ QueuesInPlanOrder
  BY <1>1 DEF RoleOrder, QueuesInPlanOrder
<1>. QED  BY <1>2, <1>3 DEF OInv

(* Where the others are when a new task, or one that got total's slot, runs. *)
LEMMA WhoRuns ==
  ASSUME TInv, PassOrder, NEW t \in Task, ready # <<>>, t = Head(ready), pc[t] \in {"new", "gotTotal"},
         NEW u \in Task
  PROVE  /\ u < t => pc[u] \notin {"new", "gotTotal"}
         /\ t < u => pc[u] \in {"new", "waitTotal"}
         /\ pc[t] = "new" /\ t < u => pc[u] = "new"
         /\ pc[t] = "gotTotal" /\ u < t => pc[u] # "waitTotal"
<1>1. /\ ready \in Seq(Task) /\ t = ready[1] /\ 1 \in DOMAIN ready
      /\ Len(ready) \in Nat \ {0} /\ DOMAIN ready = 1 .. Len(ready)
  BY LenProperties, EmptySeq DEF TInv, TypeOK
<1>2. ASSUME u < t, pc[u] = "new", pc[t] = "new" PROVE FALSE
  <2>1. PICK i \in DOMAIN ready : ready[i] = u
    BY <1>2 DEF PassOrder, Runnable, Elems
  <2>2. i # 1 /\ i \in 1 .. Len(ready) /\ 1 < i
    BY <1>1, <1>2, <2>1 DEF Task
  <2>3. t < u
    BY <1>1, <1>2, <2>1, <2>2 DEF PassOrder
  <2>. QED  BY <1>2, <2>3 DEF Task
<1>. QED  BY <1>2 DEF PassOrder

(* A task that runs on its way through the limiter overtakes nobody.        *)
LEMMA RunOrder ==
  ASSUME TInv, NoLostWakeup, OInv, plan' = plan,
         NEW t \in Task, ready # <<>>, t = Head(ready), pc[t] \in {"new", "gotTotal"},
         NEW to \in {"waitTotal", "waitRole", "gotRole"},
         pc' = [pc EXCEPT ![t] = to],
         ready' = Tail(ready) \/ ready' = Append(Tail(ready), t),
         to = "gotRole" => ready' = Append(Tail(ready), t),
         to = "waitTotal" => pc[t] = "new" /\ queue' = [queue EXCEPT !["total"] = Append(@, t)],
         to = "waitRole" => queue' = [queue EXCEPT ![RoleSem(t)] = Append(@, t)],
         to = "gotRole" => queue' = queue /\ queue[RoleSem(t)] = <<>>,
         to # "waitTotal" /\ pc[t] = "new" => queue["total"] = <<>>
  PROVE  OInv'
<1>0. /\ PassOrder /\ RoleOrder /\ QueuesInPlanOrder
      /\ queue \in [Sems -> Seq(Task)] /\ pc \in [Task -> PCs]
      /\ RoleSem(t) \in Sems /\ "total" \in Sems /\ RoleSem(t) # "total"
  BY DEF OInv, TInv, TypeOK, RoleSem, Sems
<1>1. /\ \A u \in Task : pc'[u] = IF u = t THEN to ELSE pc[u]
      /\ \A u : RoleSem(u)' = RoleSem(u)
  BY <1>0 DEF RoleSem
<1>2. \A u \in Task : /\ u < t => pc[u] \notin {"new", "gotTotal"}
                      /\ t < u => pc[u] \in {"new", "waitTotal"}
                      /\ pc[t] = "new" /\ t < u => pc[u] = "new"
                      /\ pc[t] = "gotTotal" /\ u < t => pc[u] # "waitTotal"
  BY <1>0, WhoRuns
<1>3. /\ \A u \in Task : pc[u] = "waitTotal" => u \in Elems(queue["total"])
      /\ \A u \in Task : pc[u] = "waitRole" => u \in Elems(queue[RoleSem(u)])
  BY <1>0, QueuedWait
<1>4. /\ \A u \in Task : pc'[u] \in Runnable => u \in Elems(ready')
      /\ \A i, j \in DOMAIN ready' :
           i < j /\ pc'[ready'[j]] = "new" => pc'[ready'[i]] = "new" /\ ready'[i] < ready'[j]
  <2>1. to \in PCs \ {"new"} /\ (to \in Runnable => to = "gotRole")
    BY DEF PCs, HasTotal, HasRole, Runnable
  <2>. QED  BY <1>0, <2>1, RunFirst
<1>5. ASSUME NEW a \in Task, NEW b \in Task, a < b
      PROVE  /\ pc'[a] = "new" => pc'[b] = "new"
             /\ pc'[a] = "waitTotal" => pc'[b] \in {"new", "waitTotal"}
             /\ pc'[a] = "gotTotal" => pc'[b] = "waitTotal"
  <2>1. CASE a = t
    <3>1. b # t /\ pc[b] \in {"new", "waitTotal"}
      BY <1>2, <1>5, <2>1 DEF Task
    <3>. QED  BY <1>1, <2>1, <3>1
  <2>2. CASE b = t
    <3>1. a # t /\ pc[a] \notin {"new", "gotTotal"}
      BY <1>2, <1>5, <2>2 DEF Task
    <3>2. ASSUME pc[a] = "waitTotal" PROVE to = "waitTotal"
      <4>1. a \in Elems(queue["total"]) /\ queue["total"] # <<>>
        BY <1>3, <3>2 DEF Elems
      <4>. QED  BY <1>2, <1>5, <2>2, <3>2, <4>1
    <3>. QED  BY <1>1, <2>2, <3>1, <3>2
  <2>3. CASE a # t /\ b # t
    BY <1>0, <1>1, <1>5, <2>3 DEF PassOrder
  <2>. QED  BY <2>1, <2>2, <2>3
<1>6. PassOrder'
  BY <1>4, <1>5 DEF PassOrder
<1>7. RoleOrder'
  <2>. SUFFICES ASSUME NEW a \in Task, NEW b \in Task, a < b, RoleSem(a) = RoleSem(b), pc'[a] = "waitRole"
                PROVE  pc'[b] \notin HasRole
    BY <1>1 DEF RoleOrder
  <2>1. CASE a = t
    <3>1. b # t /\ pc[b] \in {"new", "waitTotal"}
      BY <1>2, <2>1 DEF Task
    <3>. QED  BY <1>1, <3>1 DEF HasRole, InsideTask
  <2>2. CASE b = t
    <3>1. pc[a] = "waitRole"
      BY <1>1, <2>2 DEF Task
    <3>2. queue[RoleSem(t)] # <<>>
      BY <1>3, <2>2, <3>1 DEF Elems
    <3>. QED  BY <1>1, <2>2, <3>2 DEF HasRole, InsideTask
  <2>3. CASE a # t /\ b # t
    BY <1>0, <1>1, <2>3 DEF RoleOrder
  <2>. QED  BY <2>1, <2>2, <2>3
<1>8. ASSUME NEW s \in Sems, queue' = [queue EXCEPT ![s] = Append(@, t)],
             \A u \in Elems(queue[s]) : u \in Task /\ u < t
      PROVE  QueuesInPlanOrder'
  <2>1. \A r \in Sems : queue[r] \in Seq(Task) /\ Sorted(queue[r])
    BY <1>0, SortedQueues
  <2>2. Sorted(Append(queue[s], t))
    BY <1>8, <2>1, SortedAppend
  <2>3. ASSUME NEW r \in Sems PROVE Sorted(queue'[r])
    BY <1>0, <1>8, <2>1, <2>2
  <2>. QED  BY <2>3 DEF QueuesInPlanOrder, Sorted
<1>9. QueuesInPlanOrder'
  <2>1. \A s \in Sems : \A u \in Elems(queue[s]) : u \in Task /\ pc[u] \in {"waitTotal", "waitRole"}
    <3>1. \A s \in Sems : \A u \in Elems(queue[s]) : u \in Task
      BY <1>0, ElementOfSeq, LenProperties DEF Elems
    <3>. QED  BY <3>1, QueuedWait
  <2>2. CASE to = "waitTotal"
    <3>1. \A u \in Elems(queue["total"]) : u \in Task /\ u < t
      <4>. SUFFICES ASSUME NEW u \in Elems(queue["total"]) PROVE u \in Task /\ u < t
        OBVIOUS
      <4>1. u \in Task /\ pc[u] \in {"waitTotal", "waitRole"} /\ pc[t] = "new"
        BY <1>0, <2>1, <2>2
      <4>2. u # t /\ ~(t < u)
        BY <1>2, <4>1
      <4>. QED  BY <4>1, <4>2 DEF Task
    <3>. QED  BY <1>0, <1>8, <2>2, <3>1
  <2>3. CASE to = "waitRole"
    <3>1. \A u \in Elems(queue[RoleSem(t)]) : u \in Task /\ pc[u] = "waitRole"
      BY <1>0, <2>1, QueuedWait
    <3>2. \A u \in Elems(queue[RoleSem(t)]) : u \in Task /\ u < t
      <4>. SUFFICES ASSUME NEW u \in Elems(queue[RoleSem(t)]) PROVE u \in Task /\ u < t
        OBVIOUS
      <4>1. u \in Task /\ pc[u] = "waitRole"
        BY <3>1
      <4>2. u # t /\ ~(t < u)
        BY <1>2, <4>1
      <4>. QED  BY <4>1, <4>2 DEF Task
    <3>. QED  BY <1>0, <1>8, <2>3, <3>2
  <2>4. CASE to = "gotRole"
    BY <1>0, <2>4 DEF QueuesInPlanOrder
  <2>. QED  BY <2>2, <2>3, <2>4
<1>. QED  BY <1>6, <1>7, <1>9 DEF OInv

(* A task that goes on inside execute_task overtakes nobody.                *)
LEMMA InsideOrder ==
  ASSUME TInv, OInv, plan' = plan, queue' = queue,
         NEW t \in Task, pc[t] \in HasRole, NEW to \in InsideTask, pc' = [pc EXCEPT ![t] = to],
         \/ ready' = ready
         \/ ready # <<>> /\ t = Head(ready) /\ ready' = Tail(ready)
  PROVE  OInv'
<1>0. /\ PassOrder /\ RoleOrder /\ QueuesInPlanOrder /\ pc \in [Task -> PCs]
      /\ to \in PCs \ {"new"} /\ to \notin Runnable /\ to # "waitTotal" /\ to # "waitRole" /\ to \in HasRole
      /\ pc[t] \notin {"new", "waitTotal", "gotTotal", "waitRole"}
  BY DEF OInv, TInv, TypeOK, InsideTask, HasRole, HasTotal, PCs, Runnable
<1>1. /\ \A u \in Task : pc'[u] = IF u = t THEN to ELSE pc[u]
      /\ \A u : RoleSem(u)' = RoleSem(u)
  BY <1>0 DEF RoleSem
<1>2. /\ \A u \in Task : pc'[u] \in Runnable => u \in Elems(ready')
      /\ \A i, j \in DOMAIN ready' :
           i < j /\ pc'[ready'[j]] = "new" => pc'[ready'[i]] = "new" /\ ready'[i] < ready'[j]
  <2>1. CASE ready # <<>> /\ t = Head(ready) /\ ready' = Tail(ready)
    BY <1>0, <2>1, RunFirst
  <2>2. CASE ready' = ready
    <3>1. \A i \in DOMAIN ready : ready[i] \in Task
      BY LenProperties, ElementOfSeq DEF TInv, TypeOK
    <3>2. ASSUME NEW i \in DOMAIN ready, NEW j \in DOMAIN ready, i < j, pc'[ready[j]] = "new"
          PROVE  pc'[ready[i]] = "new" /\ ready[i] < ready[j]
      <4>1. pc[ready[j]] = "new"
        BY <1>0, <1>1, <3>1, <3>2
      <4>2. pc[ready[i]] = "new" /\ ready[i] < ready[j]
        BY <1>0, <3>2, <4>1 DEF PassOrder
      <4>. QED  BY <1>0, <1>1, <3>1, <4>2
    <3>. QED  BY <1>0, <1>1, <2>2, <3>2 DEF PassOrder
  <2>. QED  BY <2>1, <2>2
<1>3. PassOrder'
  <2>1. ASSUME NEW a \in Task, NEW b \in Task, a < b
        PROVE  /\ pc'[a] = "new" => pc'[b] = "new"
               /\ pc'[a] = "waitTotal" => pc'[b] \in {"new", "waitTotal"}
               /\ pc'[a] = "gotTotal" => pc'[b] = "waitTotal"
    <3>1. /\ pc[a] = "new" => pc[b] = "new"
          /\ pc[a] = "waitTotal" => pc[b] \in {"new", "waitTotal"}
          /\ pc[a] = "gotTotal" => pc[b] = "waitTotal"
      BY <1>0, <2>1 DEF PassOrder
    <3>. QED  BY <1>0, <1>1, <3>1 DEF Runnable
  <2>. QED  BY <1>2, <2>1 DEF PassOrder
<1>4. RoleOrder'
  BY <1>0, <1>1 DEF RoleOrder
<1>. QED  BY <1>0, <1>3, <1>4 DEF OInv, QueuesInPlanOrder

(* A task that leaves hands its slots to the first waiters in plan order.   *)
LEMMA LeaveOrder ==
  ASSUME TInv, NoLostWakeup, OInv, NEW t \in Task, Leave(t)
  PROVE  OInv'
<1>0. /\ PassOrder /\ RoleOrder /\ QueuesInPlanOrder
      /\ queue \in [Sems -> Seq(Task)] /\ pc \in [Task -> PCs]
      /\ RoleSem(t) \in Sems /\ "total" \in Sems /\ RoleSem(t) # "total"
      /\ ready = <<>> /\ pc[t] = "leaving" /\ plan' = plan
  BY DEF OInv, TInv, TypeOK, RoleSem, Sems, Leave
<1>1. /\ \A u \in Task : pc'[u] = CASE u = t -> "left"
                                    [] u \in Oldest(RoleSem(t)) -> "gotRole"
                                    [] u \in Oldest("total") -> "gotTotal"
                                    [] OTHER -> pc[u]
      /\ \A u : RoleSem(u)' = RoleSem(u)
  BY <1>0 DEF Leave, RoleSem
<1>2. \A u \in Task : /\ u \in Oldest("total") => pc[u] = "waitTotal"
                      /\ u \in Oldest(RoleSem(t)) => pc[u] = "waitRole" /\ RoleSem(u) = RoleSem(t)
  BY OldestWaits
<1>3. \A u \in Task :
        /\ u = t => pc'[u] = "left"
        /\ u \in Oldest(RoleSem(t)) => pc'[u] = "gotRole" /\ pc[u] = "waitRole" /\ RoleSem(u) = RoleSem(t)
        /\ u \in Oldest("total") => pc'[u] = "gotTotal" /\ pc[u] = "waitTotal"
        /\ u # t /\ u \notin Oldest(RoleSem(t)) /\ u \notin Oldest("total") => pc'[u] = pc[u]
  BY <1>0, <1>1, <1>2
<1>4. \A u \in Task : pc[u] \notin Runnable
  BY <1>0 DEF PassOrder, Elems
<1>5. \A s \in Sems : /\ queue[s] \in Seq(Task) /\ Sorted(queue[s])
                      /\ \A u \in Oldest(s) : u \in Elems(queue[s]) /\ \A v \in Elems(queue[s]) : u <= v
  <2>1. ASSUME NEW s \in Sems PROVE queue[s] \in Seq(Task) /\ Sorted(queue[s])
    BY <1>0, SortedQueues
  <2>2. ASSUME NEW s \in Sems, NEW u \in Oldest(s)
        PROVE  u \in Elems(queue[s]) /\ \A v \in Elems(queue[s]) : u <= v
    <3>1. 1 \in DOMAIN queue[s] /\ u = queue[s][1]
      BY <2>2 DEF Oldest
    <3>2. queue[s] # <<>> /\ u = Head(queue[s])
      BY <2>1, <3>1
    <3>. QED  BY <2>1, <3>1, <3>2, SortedTail DEF Elems
  <2>. QED  BY <2>1, <2>2
<1>6. /\ \A u \in Task : pc[u] = "waitTotal" => u \in Elems(queue["total"])
      /\ \A u \in Task : pc[u] = "waitRole" => u \in Elems(queue[RoleSem(u)])
  BY <1>0, QueuedWait
<1>7. /\ \A u \in Oldest(RoleSem(t)) : u \in Elems(ready')
      /\ \A u \in Oldest("total") : u \in Elems(ready')
      /\ \A i \in DOMAIN ready' : ready'[i] \in Task
  <2>1. ready' = Woken(RoleSem(t)) \o Woken("total")
    BY DEF Leave
  <2>2. ASSUME NEW s \in Sems
        PROVE  Woken(s) \in Seq(Task) /\ Elems(Woken(s)) = Oldest(s)
    <3>1. queue[s] \in Seq(Task)
      BY <1>0
    <3>2. CASE queue[s] = <<>>
      BY <3>2 DEF Woken, Oldest, Elems
    <3>3. CASE queue[s] # <<>>
      <4>1. 1 \in DOMAIN queue[s] /\ Head(queue[s]) = queue[s][1] /\ Head(queue[s]) \in Task
        BY <3>1, <3>3
      <4>2. Oldest(s) = {Head(queue[s])}
        BY <4>1 DEF Oldest
      <4>3. Woken(s) = <<Head(queue[s])>>
        BY <3>3 DEF Woken
      <4>4. Elems(<<Head(queue[s])>>) = {Head(queue[s])}
        BY DEF Elems
      <4>. QED  BY <4>1, <4>2, <4>3, <4>4
    <3>. QED  BY <3>2, <3>3
  <2>3. \A p, q \in Seq(Task) : p \o q \in Seq(Task) /\ Elems(p) \subseteq Elems(p \o q)
                                /\ Elems(q) \subseteq Elems(p \o q)
    <3>. SUFFICES ASSUME NEW p \in Seq(Task), NEW q \in Seq(Task)
                  PROVE  p \o q \in Seq(Task) /\ Elems(p) \subseteq Elems(p \o q)
                         /\ Elems(q) \subseteq Elems(p \o q)
      OBVIOUS
    <3>1. /\ p \o q \in Seq(Task) /\ Len(p \o q) = Len(p) + Len(q)
          /\ \A i \in 1 .. (Len(p) + Len(q)) : (p \o q)[i] = IF i <= Len(p) THEN p[i] ELSE q[i - Len(p)]
      BY ConcatProperties
    <3>2. Len(p) \in Nat /\ Len(q) \in Nat /\ DOMAIN p = 1 .. Len(p) /\ DOMAIN q = 1 .. Len(q)
          /\ DOMAIN (p \o q) = 1 .. (Len(p) + Len(q))
      BY <3>1, LenProperties
    <3>3. ASSUME NEW i \in 1 .. Len(p) PROVE p[i] \in Elems(p \o q)
      <4>1. i \in 1 .. (Len(p) + Len(q)) /\ i <= Len(p)
        BY <3>2
      <4>2. (p \o q)[i] = p[i]
        BY <3>1, <4>1
      <4>. QED  BY <3>2, <4>1, <4>2 DEF Elems
    <3>4. ASSUME NEW i \in 1 .. Len(q) PROVE q[i] \in Elems(p \o q)
      <4>1. /\ Len(p) + i \in 1 .. (Len(p) + Len(q)) /\ ~(Len(p) + i <= Len(p))
            /\ (Len(p) + i) - Len(p) = i
        BY <3>2
      <4>2. (p \o q)[Len(p) + i] = q[i]
        BY <3>1, <4>1
      <4>. QED  BY <3>2, <4>1, <4>2 DEF Elems
    <3>. QED  BY <3>1, <3>2, <3>3, <3>4 DEF Elems
  <2>4. ready' \in Seq(Task)
    BY <1>0, <2>1, <2>2, <2>3
  <2>5. \A i \in DOMAIN ready' : ready'[i] \in Task
    BY <2>4, ElementOfSeq, LenProperties
  <2>. QED  BY <1>0, <2>1, <2>2, <2>3, <2>5
<1>8. PassOrder'
  <2>1. \A u \in Task : pc'[u] \in Runnable => u \in Elems(ready')
    BY <1>3, <1>4, <1>7 DEF Runnable
  <2>2. \A u \in Task : pc'[u] # "new"
    BY <1>3, <1>4 DEF Runnable
  <2>3. ASSUME NEW a \in Task, NEW b \in Task, a < b
        PROVE  /\ pc'[a] = "waitTotal" => pc'[b] = "waitTotal"
               /\ pc'[a] = "gotTotal" => pc'[b] = "waitTotal"
    <3>1. pc'[a] \in {"waitTotal", "gotTotal"} => pc[a] = "waitTotal"
      BY <1>3, <1>4 DEF Runnable
    <3>2. pc[a] = "waitTotal" => pc[b] = "waitTotal"
      BY <1>0, <1>4, <2>3 DEF PassOrder, Runnable
    <3>3. pc[a] = "waitTotal" => b \notin Oldest("total")
      BY <1>0, <1>5, <1>6, <2>3 DEF Task
    <3>. QED  BY <1>0, <1>3, <3>1, <3>2, <3>3
  <2>. QED  BY <1>7, <2>1, <2>2, <2>3 DEF PassOrder
<1>9. RoleOrder'
  <2>. SUFFICES ASSUME NEW a \in Task, NEW b \in Task, a < b, RoleSem(a) = RoleSem(b), pc'[a] = "waitRole"
                PROVE  pc'[b] \notin HasRole
    BY <1>1 DEF RoleOrder
  <2>1. pc[a] = "waitRole" /\ pc[b] \notin HasRole
    BY <1>0, <1>3 DEF RoleOrder
  <2>2. b \notin Oldest(RoleSem(t))
    BY <1>0, <1>2, <1>5, <1>6, <2>1 DEF Task
  <2>. QED  BY <1>3, <2>1, <2>2 DEF HasRole, InsideTask
<1>10. QueuesInPlanOrder'
  <2>1. ASSUME NEW s \in Sems PROVE Sorted(queue'[s])
    <3>1. queue'[s] = queue[s] \/ (queue[s] # <<>> /\ queue'[s] = Tail(queue[s]))
      BY DEF Leave
    <3>. QED  BY <1>5, <3>1, SortedTail
  <2>. QED  BY <2>1 DEF QueuesInPlanOrder, Sorted
<1>. QED  BY <1>8, <1>9, <1>10 DEF OInv

(* Every step keeps the order of the plan.                                  *)
LEMMA OrderNext == TInv /\ NoLostWakeup /\ OInv /\ [Next]_vars => OInv'
<1>. SUFFICES ASSUME TInv, NoLostWakeup, OInv, [Next]_vars PROVE OInv'
  OBVIOUS
<1>1. ASSUME NEW t \in Task, NEW S \in SUBSET {"total"}, TryRole(t, S), plan' = plan,
             ready # <<>>, t = Head(ready),
             IF "total" \in S THEN pc[t] = "new" /\ queue["total"] = <<>> ELSE pc[t] = "gotTotal"
      PROVE  OInv'
  <2>1. CASE /\ queue' = [queue EXCEPT ![RoleSem(t)] = Append(@, t)]
             /\ pc' = [pc EXCEPT ![t] = "waitRole"] /\ ready' = Tail(ready)
    BY <1>1, <2>1, RunOrder
  <2>2. CASE /\ queue' = queue /\ queue[RoleSem(t)] = <<>>
             /\ pc' = [pc EXCEPT ![t] = "gotRole"] /\ ready' = Append(Tail(ready), t)
    BY <1>1, <2>2, RunOrder
  <2>. QED  BY <1>1, <2>1, <2>2 DEF TryRole, Enqueue, Goto, Open
<1>2. ASSUME NEW t \in Task, EnterLimiter(t) PROVE OInv'
  <2>1. plan' = plan /\ ready # <<>> /\ t = Head(ready) /\ pc[t] = "new"
    BY <1>2 DEF EnterLimiter, IsNext
  <2>2. CASE Open("total") /\ TryRole(t, {"total"})
    BY <1>1, <2>1, <2>2 DEF Open
  <2>3. CASE /\ queue' = [queue EXCEPT !["total"] = Append(@, t)]
             /\ pc' = [pc EXCEPT ![t] = "waitTotal"] /\ ready' = Tail(ready)
    BY <2>1, <2>3, RunOrder
  <2>. QED  BY <1>2, <2>2, <2>3 DEF EnterLimiter, Enqueue, Goto
<1>3. ASSUME NEW t \in Task, TotalGranted(t) PROVE OInv'
  <2>1. plan' = plan /\ ready # <<>> /\ t = Head(ready) /\ pc[t] = "gotTotal" /\ TryRole(t, {})
    BY <1>3 DEF TotalGranted, IsNext
  <2>. QED  BY <1>1, <2>1
<1>4. ASSUME NEW t \in Task, Register(t) \/ LoadFails(t) PROVE OInv'
  <2>1. /\ plan' = plan /\ queue' = queue /\ pc[t] \in HasRole
        /\ ready # <<>> /\ t = Head(ready) /\ ready' = Tail(ready)
        /\ \E to \in InsideTask : pc' = [pc EXCEPT ![t] = to]
    BY <1>4 DEF Register, LoadFails, IsNext, Goto, limiterVars, HasRole, InsideTask
  <2>. QED  BY <2>1, InsideOrder
<1>5. ASSUME NEW t \in Task, Execute(t), ~Leave(t) PROVE OInv'
  <2>1. /\ plan' = plan /\ queue' = queue /\ ready' = ready /\ pc[t] \in HasRole
        /\ \E to \in InsideTask : pc' = [pc EXCEPT ![t] = to]
    BY <1>5, ExecuteQuiet DEF HasRole
  <2>. QED  BY <2>1, InsideOrder
<1>6. CASE UNCHANGED <<plan, ready, queue, pc>>
  BY <1>6 DEF OInv, PassOrder, RoleOrder, QueuesInPlanOrder, RoleSem
<1>. QED  BY <1>2, <1>3, <1>4, <1>5, <1>6, LeaveOrder
          DEF Next, Dispatch, EvaluateGate, RunOver, vars, limiterVars

(* QueuesInPlanOrder: no task is overtaken in a queue of the limiter by one *)
(* that comes later in the plan, for every plan and every setting.          *)
THEOREM QueuesKeepPlanOrder == Spec => []QueuesInPlanOrder
<1>1. Init => TInv /\ NoLostWakeup /\ OInv
  BY TypeInit, WakeupInit, OrderInit
<1>2. (TInv /\ NoLostWakeup /\ OInv) /\ [Next]_vars => (TInv /\ NoLostWakeup /\ OInv)'
  BY TypeStep, WakeupStep, OrderNext
<1>3. OInv => QueuesInPlanOrder
  BY DEF OInv
<1>. QED  BY <1>1, <1>2, <1>3, PTL DEF Spec

-------------------------------------------------------------------------------
(* Dependencies are registered before they are looked up.                   *)

(* A task that holds total's slot and waits for its role leaves no room for *)
(* a later task to run: total admits at most one more than the role does.   *)
RoleHasRoom == \A s \in {"slm", "mlops"} : Cap["total"] <= Cap[s] + 1

(* Two holders of total's slot besides those of a role that is full.        *)
LEMMA RoomForTwo ==
  ASSUME SlotAccounting, TInv, NEW s \in Sems, s # "total", free[s] = 0,
         NEW d \in Task, NEW t \in Task, d # t, pc[d] \in HasTotal, pc[t] \in HasTotal,
         d \notin Holders(s), t \notin Holders(s)
  PROVE  Cap[s] + 2 <= Cap["total"]
<1>. DEFINE H == Holders(s)
            T == Holders("total")
<1>1. /\ IsFiniteSet(H) /\ IsFiniteSet(T) /\ H \subseteq T /\ d \in T /\ t \in T /\ d \notin H /\ t \notin H
      /\ Cardinality(H) = Cap[s]
      /\ free["total"] + Cardinality(T) = Cap["total"]
  <2>1. H \in SUBSET Task /\ T \in SUBSET Task
    BY DEF Holders
  <2>2. H \subseteq T /\ d \in T /\ t \in T
    BY DEF Holders, HasTotal
  <2>3. free[s] + Cardinality(H) = Cap[s] /\ free["total"] + Cardinality(T) = Cap["total"]
    BY DEF SlotAccounting, Sems
  <2>4. Cardinality(H) \in Nat
    BY <2>1, TasksFinite
  <2>. QED  BY <2>1, <2>2, <2>3, <2>4, TasksFinite
<1>. HIDE DEF H, T
<1>2. IsFiniteSet(H \union {d}) /\ Cardinality(H \union {d}) = Cardinality(H) + 1
  BY <1>1, FS_AddElement
<1>3. /\ IsFiniteSet((H \union {d}) \union {t})
      /\ Cardinality((H \union {d}) \union {t}) = Cardinality(H \union {d}) + 1
  <2>1. t \notin H \union {d}
    BY <1>1
  <2>. QED  BY <1>2, <2>1, FS_AddElement
<1>4. Cardinality((H \union {d}) \union {t}) <= Cardinality(T)
  <2>1. (H \union {d}) \union {t} \subseteq T
    BY <1>1
  <2>. QED  BY <1>1, <2>1, FS_Subset
<1>5. Cardinality(H) \in Nat /\ Cardinality(T) \in Nat /\ free["total"] \in Nat
  BY <1>1, FS_CardinalityType DEF TInv, TypeOK, Sems
<1>. QED  BY <1>1, <1>2, <1>3, <1>4, <1>5

(* A task that polls finds an item for the task it depends on.              *)
LEMMA DependencyRegistered ==
  ASSUME RoleHasRoom, ~StorageMayFail, TInv, NoLostWakeup, SlotAccounting, DInv, OInv,
         NEW t \in Task, pc[t] = "polling", ready = <<>>
  PROVE  status[DepOf(t)] # "none"
<1>. DEFINE d == DepOf(t)
<1>1. d \in Task /\ d < t
  <2>1. dep[t] \in DOMAIN plan.deps[t] /\ plan \in Plans
    BY DEF TInv, TypeOK
  <2>2. d \in 1 .. (t - 1)
    BY <2>1, PlanFacts DEF DepOf
  <2>. QED  BY <2>2, PipelineAssumption DEF Task
<1>. HIDE DEF d
<1>. SUFFICES ASSUME status[d] = "none" PROVE FALSE
  BY DEF d
<1>2. /\ PassOrder /\ RoleOrder /\ pc[t] \in HasRole /\ pc[t] \in HasTotal
  BY DEF OInv, HasTotal, HasRole, InsideTask
<1>3. pc[d] \in Outside
  BY <1>1 DEF DInv, RegisteredInv
<1>4. pc[d] \notin Runnable
  BY <1>1, <1>2 DEF PassOrder, Elems
<1>5. pc[d] # "waitTotal"
  BY <1>1, <1>2 DEF PassOrder
<1>6. pc[d] = "waitRole"
  BY <1>3, <1>4, <1>5 DEF Outside, Runnable
<1>7. RoleSem(d) # RoleSem(t)
  BY <1>1, <1>2, <1>6 DEF RoleOrder
<1>8. RoleSem(d) \in Sems \ {"total"} /\ RoleSem(d) \in {"slm", "mlops"}
  BY DEF RoleSem, Sems
<1>9. free[RoleSem(d)] = 0
  <2>1. d \in Waiters(RoleSem(d))
    BY <1>1, <1>6 DEF Waiters
  <2>2. SemInv(RoleSem(d))
    BY <1>8, SemInvs
  <2>. QED  BY <2>1, <2>2 DEF SemInv, Elems
<1>10. d \notin Holders(RoleSem(d)) /\ t \notin Holders(RoleSem(d)) /\ pc[d] \in HasTotal
  BY <1>6, <1>7, <1>8 DEF Holders, HasRole, HasTotal, InsideTask
<1>11. Cap[RoleSem(d)] + 2 <= Cap["total"]
  <2>1. d # t
    BY <1>1 DEF Task
  <2>. QED  BY <1>1, <1>2, <1>8, <1>9, <1>10, <2>1, RoomForTwo
<1>12. Cap["total"] <= Cap[RoleSem(d)] + 1 /\ Cap["total"] \in Nat /\ Cap[RoleSem(d)] \in Nat
  <2>1. Cap["total"] <= Cap[RoleSem(d)] + 1
    BY <1>8 DEF RoleHasRoom
  <2>2. Cap \in [Sems -> Nat \ {0}] /\ "total" \in Sems
    BY PipelineAssumption DEF Sems
  <2>. QED  BY <1>8, <2>1, <2>2
<1>. QED  BY <1>11, <1>12

(* So no step raises E_DEPS_BLOCKED for an item that does not exist.        *)
LEMMA MissingNext ==
  ASSUME RoleHasRoom, ~StorageMayFail, TInv, NoLostWakeup, SlotAccounting, DInv, OInv, NoMissingDependency,
         [Next]_vars
  PROVE  NoMissingDependency'
<1>0. err \in [Task -> Errors]
  BY DEF TInv, TypeOK
<1>1. ASSUME NEW t \in Task, NEW why \in Errors \ {"missing"}, err' = [err EXCEPT ![t] = why]
      PROVE  NoMissingDependency'
  BY <1>0, <1>1 DEF NoMissingDependency
<1>2. CASE err' = err
  BY <1>2 DEF NoMissingDependency
<1>3. {"blocked", "timeout", "parse", "unknown"} \subseteq Errors \ {"missing"}
  BY DEF Errors
<1>4. \A t \in Task : \A new, to : SetStatus(t, new, to) => err' = err \/ err' = [err EXCEPT ![t] = "unknown"]
  BY DEF SetStatus, Raise
<1>5. ASSUME NEW t \in Task, PollDependency(t) PROVE NoMissingDependency'
  <2>1. ~DepMissing(t)
    BY <1>5, DependencyRegistered DEF PollDependency, Resumes, DepMissing
  <2>2. err' = err \/ err' = [err EXCEPT ![t] = "unknown"] \/ err' = [err EXCEPT ![t] = "blocked"]
    BY <1>4, <1>5, <2>1 DEF PollDependency, DepDone, DepFailed, DepUnderWay, Raise
  <2>. QED  BY <1>1, <1>2, <1>3, <2>2
<1>6. ASSUME NEW t \in Task, Dispatch(t) \/ (Execute(t) /\ ~PollDependency(t))
      PROVE  err' = err \/ \E why \in {"timeout", "parse", "unknown"} : err' = [err EXCEPT ![t] = why]
  <2>1. CASE Dispatch(t)
    BY <2>1 DEF Dispatch, EnterLimiter, TotalGranted, LoadFails, Register, agentVars
  <2>2. CASE HandleDependencies(t)
    BY <1>4, <2>2 DEF HandleDependencies
  <2>3. CASE Generate(t)
    BY <1>4, <2>3 DEF Generate, Parsed, Unparsable, LlmRaises, Raise
  <2>4. CASE DependencyTimeout(t) \/ BuildContext(t) \/ AskReturns(t) \/ AttachResult(t) \/ MarkFailed(t) \/ Leave(t)
    BY <2>4 DEF DependencyTimeout, BuildContext, AskReturns, AttachResult, MarkFailed, Leave, Raise, agentVars
  <2>. QED  BY <1>6, <2>1, <2>2, <2>3, <2>4 DEF Execute
<1>7. ASSUME NEW t \in Task, Dispatch(t) \/ Execute(t) PROVE NoMissingDependency'
  BY <1>1, <1>2, <1>3, <1>5, <1>6, <1>7
<1>. QED  BY <1>2, <1>7 DEF Next, EvaluateGate, RunOver, vars, agentVars

(* NoMissingDependency: under limits like the default ones (total at most   *)
(* one above each role) and with a storage that works, the lookup of a      *)
(* dependency never comes before its registration, whatever the plan.       *)
THEOREM DependenciesAreRegistered ==
  ASSUME RoleHasRoom, ~StorageMayFail
  PROVE  Spec => []NoMissingDependency
<1>. DEFINE All == TInv /\ NoLostWakeup /\ SlotAccounting /\ DInv /\ OInv /\ NoMissingDependency
<1>1. Init => All
  <2>1. Init => NoMissingDependency
    BY DEF Init, NoMissingDependency
  <2>. QED  BY <2>1, TypeInit, WakeupInit, SlotsInit, DepsInit, OrderInit
<1>2. All /\ [Next]_vars => All'
  BY TypeStep, WakeupStep, SlotsStep, DepsStep, OrderNext, MissingNext
<1>3. All => NoMissingDependency
  OBVIOUS
<1>. QED  BY <1>1, <1>2, <1>3, PTL DEF Spec

-------------------------------------------------------------------------------
(* TaskPipeline implements ProjectRun.                                      *)

RInv == TInv /\ NoLostWakeup /\ SlotAccounting /\ DInv /\ EInv

(* The instance counts as this module does.                                 *)
LEMMA SameCardinality == \A S : Run!Cardinality(S) = Cardinality(S)
BY DEF Run!Cardinality, Cardinality

(* A step that changes the stage of no task is a stutter of ProjectRun.     *)
LEMMA StageStutter ==
  ASSUME plan' = plan, \A u \in Task : Stage(u)' = Stage(u)
  PROVE  UNCHANGED <<[t \in Task |-> Deps(t)], [t \in Task |-> Stage(t)]>>
<1>1. \A t \in Task : Deps(t)' = Deps(t)
  BY DEF Deps
<1>. QED  BY <1>1

(* A step that changes the stage of one task moves that task.               *)
LEMMA StageMove ==
  ASSUME plan' = plan, NEW t \in Task, \A u \in Task \ {t} : Stage(u)' = Stage(u),
         NEW from, NEW to, Stage(t) \in from, Stage(t)' = to
  PROVE  Run!Move(t, from, to)
<1>1. \A u \in Task : Deps(u)' = Deps(u)
  BY DEF Deps
<1>2. [u \in Task |-> Stage(u)]' = [[u \in Task |-> Stage(u)] EXCEPT ![t] = to]
  OBVIOUS
<1>. QED  BY <1>1, <1>2 DEF Run!Move

(* Work is under way on fewer than total tasks, besides one that holds a    *)
(* slot and has not begun.                                                  *)
LEMMA FewerWorking ==
  ASSUME RInv, NEW t \in Task, pc[t] \in InsideTask, Stage(t) # "working"
  PROVE  Cardinality(Run!Working) < Cap["total"]
<1>. DEFINE W == {u \in Task : Stage(u) = "working"}
            T == Holders("total")
<1>1. Run!Working = W
  BY DEF Run!Working
<1>2. W \subseteq T /\ t \in T /\ t \notin W
  <2>1. ASSUME NEW u \in W PROVE pc[u] \in HasTotal
    <3>1. status[u] = "IN_PROGRESS" /\ err[u] = "none"
      BY <2>1 DEF Stage
    <3>2. pc[u] \notin Outside
      BY <2>1, <3>1 DEF RInv, DInv, RegisteredInv
    <3>3. pc[u] # "left"
      BY <2>1, <3>1 DEF RInv, EInv, WellInv, Returned
    <3>. QED  BY <3>2, <3>3 DEF RInv, TInv, TypeOK, PCs, Outside
  <2>. QED  BY <2>1 DEF Holders, HasTotal, HasRole
<1>3. T \in SUBSET Task
  BY DEF Holders
<1>4. free["total"] + Cardinality(T) = Cap["total"] /\ free["total"] \in Nat /\ Cap["total"] \in Nat
  <2>1. free["total"] + Cardinality(T) = Cap["total"]
    BY DEF RInv, SlotAccounting, Sems
  <2>2. free["total"] \in Nat
    BY DEF RInv, TInv, TypeOK, Sems
  <2>3. Cap \in [Sems -> Nat \ {0}] /\ "total" \in Sems
    BY PipelineAssumption DEF Sems
  <2>. QED  BY <2>1, <2>2, <2>3
<1>. HIDE DEF W, T
<1>5. IsFiniteSet(T) /\ IsFiniteSet(W) /\ Cardinality(T) \in Nat /\ Cardinality(W) \in Nat
  BY <1>2, <1>3, TasksFinite
<1>6. Cardinality(W \union {t}) = Cardinality(W) + 1
  BY <1>2, <1>5, FS_AddElement
<1>7. Cardinality(W \union {t}) <= Cardinality(T)
  <2>1. W \union {t} \subseteq T
    BY <1>2
  <2>. QED  BY <1>5, <2>1, FS_Subset
<1>. QED  BY <1>1, <1>4, <1>5, <1>6, <1>7

(* Work begins with set_status(IN_PROGRESS), after the dependencies.        *)
LEMMA BeginsWork ==
  ASSUME RInv, DInv', plan' = plan, NEW t \in Task, pc[t] \in {"planned", "polling"},
         SetStatus(t, "IN_PROGRESS", "context")
  PROVE  Run!Next
<1>1. /\ pc \in [Task -> PCs] /\ err \in [Task -> Errors] /\ status \in [Task -> Statuses \union {"none"}]
      /\ err[t] = "none" /\ status[t] \in {"PLANNED", "WAITING"}
  BY DEF RInv, TInv, TypeOK, EInv, WellInv, GoingWell, ItemAt
<1>2. /\ status' = [status EXCEPT ![t] = "IN_PROGRESS"]
      /\ \/ pc' = [pc EXCEPT ![t] = "context"] /\ err' = err
         \/ err' = [err EXCEPT ![t] = "unknown"]
  BY <1>1 DEF SetStatus, Allowed, Goto, Raise
<1>3. Stage(t) = "todo" /\ \A u \in Task \ {t} : Stage(u)' = Stage(u)
  BY <1>1, <1>2 DEF Stage
<1>4. CASE err' = [err EXCEPT ![t] = "unknown"]
  <2>1. Stage(t)' = "dropped"
    BY <1>1, <1>2, <1>4 DEF Stage
  <2>2. Run!Move(t, {"todo", "working"}, "dropped")
    BY <1>3, <2>1, StageMove
  <2>. QED  BY <2>2 DEF Run!Next, Run!Drop
<1>5. CASE pc' = [pc EXCEPT ![t] = "context"] /\ err' = err
  <2>1. Stage(t)' = "working"
    BY <1>1, <1>2, <1>5 DEF Stage
  <2>2. Run!Move(t, {"todo"}, "working")
    BY <1>3, <2>1, StageMove
  <2>3. Cardinality(Run!Working) < Cap["total"]
    BY <1>3, FewerWorking DEF InsideTask
  <2>4. \A d \in Deps(t) : d \in Task /\ status[d] = "DONE"
    <3>1. \A d \in Deps(t) : d \in Task
      BY PlanFacts, LenProperties, ElementOfSeq DEF RInv, TInv, TypeOK, Deps
    <3>2. \A d \in Deps(t) : status'[d] = "DONE"
      <4>1. pc'[t] = "context" /\ Deps(t)' = Deps(t)
        BY <1>1, <1>5 DEF Deps
      <4>. QED  BY <4>1 DEF DInv, DependenciesFirst
    <3>. QED  BY <1>1, <1>2, <3>1, <3>2
  <2>5. \A d \in [u \in Task |-> Deps(u)][t] : [u \in Task |-> Stage(u)][d] = "delivered"
    BY <2>4 DEF Stage
  <2>6. Run!Begin(t)
    BY <2>2, <2>3, <2>5, SameCardinality DEF Run!Begin
  <2>. QED  BY <2>6 DEF Run!Next
<1>. QED  BY <1>2, <1>4, <1>5

(* A task raises before its item is DONE: it is dropped.                    *)
LEMMA DropsWork ==
  ASSUME RInv, plan' = plan, NEW t \in Task, pc[t] \in DOMAIN ItemAt,
         NEW why \in Errors \ {"none"}, err' = [err EXCEPT ![t] = why], status' = status
  PROVE  [Run!Next]_<<[u \in Task |-> Deps(u)], [u \in Task |-> Stage(u)]>>
<1>1. err \in [Task -> Errors] /\ err[t] = "none"
  BY DEF RInv, TInv, TypeOK, EInv, WellInv, GoingWell
<1>2. \A u \in Task \ {t} : Stage(u)' = Stage(u)
  BY <1>1 DEF Stage
<1>3. CASE status[t] = "DONE"
  <2>1. Stage(t)' = Stage(t)
    BY <1>3 DEF Stage
  <2>. QED  BY <1>2, <2>1, StageStutter
<1>4. CASE status[t] # "DONE"
  <2>1. Stage(t) \in {"todo", "working"} /\ Stage(t)' = "dropped"
    BY <1>1, <1>4 DEF Stage
  <2>2. Run!Move(t, {"todo", "working"}, "dropped")
    BY <1>2, <2>1, StageMove
  <2>. QED  BY <2>2 DEF Run!Next, Run!Drop
<1>. QED  BY <1>3, <1>4

(* The LLM's answer is accepted: the item is set to DONE.                   *)
LEMMA DeliversWork ==
  ASSUME RInv, plan' = plan, NEW t \in Task, pc[t] = "generating", SetStatus(t, "DONE", "delivering")
  PROVE  Run!Next
<1>1. /\ err \in [Task -> Errors] /\ status \in [Task -> Statuses \union {"none"}]
      /\ err[t] = "none" /\ status[t] = "IN_PROGRESS"
  BY DEF RInv, TInv, TypeOK, EInv, WellInv, GoingWell, ItemAt
<1>2. /\ status' = [status EXCEPT ![t] = "DONE"]
      /\ err' = err \/ err' = [err EXCEPT ![t] = "unknown"]
  BY <1>1 DEF SetStatus, Allowed, Goto, Raise
<1>3. Stage(t) = "working" /\ Stage(t)' = "delivered" /\ \A u \in Task \ {t} : Stage(u)' = Stage(u)
  BY <1>1, <1>2 DEF Stage
<1>4. Run!Move(t, {"working"}, "delivered")
  BY <1>3, StageMove
<1>. QED  BY <1>4 DEF Run!Next, Run!Deliver

(* register() leaves a task to do, or drops it when the write fails.        *)
LEMMA RegistersWork ==
  ASSUME RInv, NEW t \in Task, Register(t)
  PROVE  [Run!Next]_<<[u \in Task |-> Deps(u)], [u \in Task |-> Stage(u)]>>
<1>1. /\ plan' = plan /\ pc[t] = "gotRole" /\ status' = [status EXCEPT ![t] = "PLANNED"]
      /\ err' = err \/ err' = [err EXCEPT ![t] = "unknown"]
  BY DEF Register, IsNext
<1>2. /\ err \in [Task -> Errors] /\ status \in [Task -> Statuses \union {"none"}]
      /\ err[t] = "none" /\ status[t] = "none"
  BY <1>1 DEF RInv, TInv, TypeOK, EInv, WellInv, GoingWell, DInv, RegisteredInv, Outside
<1>3. Stage(t) = "todo" /\ \A u \in Task \ {t} : Stage(u)' = Stage(u)
  BY <1>1, <1>2 DEF Stage
<1>4. CASE err' = err
  <2>1. Stage(t)' = "todo"
    BY <1>1, <1>2, <1>4 DEF Stage
  <2>. QED  BY <1>1, <1>3, <2>1, StageStutter
<1>5. CASE err' = [err EXCEPT ![t] = "unknown"]
  <2>1. Stage(t)' = "dropped"
    BY <1>1, <1>2, <1>5 DEF Stage
  <2>2. Run!Move(t, {"todo", "working"}, "dropped")
    BY <1>1, <1>3, <2>1, StageMove
  <2>. QED  BY <2>2 DEF Run!Next, Run!Drop
<1>. QED  BY <1>1, <1>4, <1>5

(* A task whose agent's DNA cannot be read is dropped.                      *)
LEMMA UnloadedIsDropped ==
  ASSUME RInv, NEW t \in Task, LoadFails(t)
  PROVE  [Run!Next]_<<[u \in Task |-> Deps(u)], [u \in Task |-> Stage(u)]>>
<1>1. /\ plan' = plan /\ pc[t] = "gotRole" /\ status' = status /\ err' = [err EXCEPT ![t] = "unknown"]
      /\ err \in [Task -> Errors] /\ err[t] = "none" /\ status[t] = "none"
  BY DEF LoadFails, IsNext, itemVars, RInv, TInv, TypeOK, EInv, WellInv, GoingWell, DInv, RegisteredInv, Outside
<1>2. Stage(t) = "todo" /\ Stage(t)' = "dropped" /\ \A u \in Task \ {t} : Stage(u)' = Stage(u)
  BY <1>1 DEF Stage
<1>3. Run!Move(t, {"todo", "working"}, "dropped")
  BY <1>1, <1>2, StageMove
<1>. QED  BY <1>3 DEF Run!Next, Run!Drop

(* What comes after a task was delivered or dropped changes no stage.       *)
LEMMA AfterwardsStutter ==
  ASSUME RInv, NEW t \in Task, MarkFailed(t) \/ Leave(t)
  PROVE  UNCHANGED <<[u \in Task |-> Deps(u)], [u \in Task |-> Stage(u)]>>
<1>0. /\ err \in [Task -> Errors] /\ status \in [Task -> Statuses \union {"none"}]
  BY DEF RInv, TInv, TypeOK
<1>1. CASE MarkFailed(t)
  <2>1. /\ plan' = plan /\ err' = err /\ err[t] # "none"
        /\ status' = status \/ (status[t] # "DONE" /\ status' = [status EXCEPT ![t] = "FAILED"])
    BY <1>1 DEF MarkFailed, Resumes, agentVars, Allowed, RInv, EInv, WellInv
  <2>2. \A u \in Task : Stage(u)' = Stage(u)
    BY <1>0, <2>1 DEF Stage
  <2>. QED  BY <2>1, <2>2, StageStutter
<1>2. CASE Leave(t)
  <2>1. /\ plan' = plan /\ status' = status /\ pc[t] = "leaving"
        /\ err' = err \/ (err[t] = "none" /\ err' = [err EXCEPT ![t] = "unknown"])
    BY <1>2 DEF Leave, itemVars
  <2>2. err[t] = "none" => status[t] = "DONE"
    BY <2>1 DEF RInv, EInv, WellInv, Returned
  <2>3. \A u \in Task : Stage(u)' = Stage(u)
    BY <1>0, <2>1, <2>2 DEF Stage
  <2>. QED  BY <2>1, <2>3, StageStutter
<1>. QED  BY <1>1, <1>2

(* Every step of the pipeline is a step of ProjectRun, or a stutter.        *)
LEMMA RunStep ==
  ASSUME RInv, DInv', [Next]_vars
  PROVE  [Run!Next]_<<[t \in Task |-> Deps(t)], [t \in Task |-> Stage(t)]>>
<1>1. CASE UNCHANGED <<plan, status, err>>
  BY <1>1, StageStutter DEF Stage
<1>2. ASSUME NEW t \in Task, HandleDependencies(t) \/ PollDependency(t)
      PROVE  [Run!Next]_<<[u \in Task |-> Deps(u)], [u \in Task |-> Stage(u)]>>
  <2>1. plan' = plan /\ pc[t] \in {"planned", "polling"} /\ pc[t] \in DOMAIN ItemAt
    BY <1>2 DEF HandleDependencies, PollDependency, Resumes, ItemAt
  <2>2. CASE SetStatus(t, "IN_PROGRESS", "context")
    BY <2>1, <2>2, BeginsWork
  <2>3. CASE \E why \in {"missing", "blocked"} : err' = [err EXCEPT ![t] = why] /\ status' = status
    BY <2>1, <2>3, DropsWork DEF Errors
  <2>4. CASE UNCHANGED <<status, err>>
    BY <1>1, <2>1, <2>4
  <2>5. CASE pc[t] = "planned" /\ SetStatus(t, "WAITING", "polling")
    <3>1. /\ err \in [Task -> Errors] /\ status \in [Task -> Statuses \union {"none"}]
          /\ err[t] = "none" /\ status[t] = "PLANNED"
      BY <2>5 DEF RInv, TInv, TypeOK, EInv, WellInv, GoingWell, ItemAt
    <3>2. /\ status' = [status EXCEPT ![t] = "WAITING"]
          /\ err' = err \/ err' = [err EXCEPT ![t] = "unknown"]
      BY <2>5, <3>1 DEF SetStatus, Allowed, Goto, Raise
    <3>3. Stage(t) = "todo" /\ \A u \in Task \ {t} : Stage(u)' = Stage(u)
      BY <3>1, <3>2 DEF Stage
    <3>4. CASE err' = err
      <4>1. Stage(t)' = "todo"
        BY <3>1, <3>2, <3>4 DEF Stage
      <4>. QED  BY <2>1, <3>3, <4>1, StageStutter
    <3>5. CASE err' = [err EXCEPT ![t] = "unknown"]
      <4>1. Stage(t)' = "dropped"
        BY <3>1, <3>2, <3>5 DEF Stage
      <4>2. Run!Move(t, {"todo", "working"}, "dropped")
        BY <2>1, <3>3, <4>1, StageMove
      <4>. QED  BY <4>2 DEF Run!Next, Run!Drop
    <3>. QED  BY <3>2, <3>4, <3>5
  <2>6. CASE HandleDependencies(t)
    BY <2>2, <2>5, <2>6 DEF HandleDependencies, Resumes
  <2>7. CASE PollDependency(t)
    BY <2>2, <2>3, <2>4, <2>7 DEF PollDependency, DepDone, DepMissing, DepFailed, DepUnderWay, Raise
  <2>. QED  BY <1>2, <2>6, <2>7
<1>3. ASSUME NEW t \in Task, Generate(t)
      PROVE  [Run!Next]_<<[u \in Task |-> Deps(u)], [u \in Task |-> Stage(u)]>>
  <2>1. plan' = plan /\ pc[t] = "generating" /\ pc[t] \in DOMAIN ItemAt
    BY <1>3 DEF Generate, Resumes, ItemAt
  <2>2. CASE SetStatus(t, "DONE", "delivering")
    BY <2>1, <2>2, DeliversWork
  <2>3. CASE \E why \in {"parse", "unknown"} : err' = [err EXCEPT ![t] = why] /\ status' = status
    BY <2>1, <2>3, DropsWork DEF Errors
  <2>4. CASE UNCHANGED <<status, err>>
    BY <1>1, <2>1, <2>4
  <2>. QED  BY <1>3, <2>2, <2>3, <2>4 DEF Generate, Parsed, Unparsable, LlmRaises, Raise
<1>4. ASSUME NEW t \in Task, DependencyTimeout(t) \/ BuildContext(t) \/ AskReturns(t) \/ AttachResult(t)
      PROVE  [Run!Next]_<<[u \in Task |-> Deps(u)], [u \in Task |-> Stage(u)]>>
  <2>1. /\ plan' = plan /\ status' = status /\ pc[t] \in DOMAIN ItemAt
        /\ err' = err \/ \E why \in {"timeout", "unknown"} : err' = [err EXCEPT ![t] = why]
    BY <1>4 DEF DependencyTimeout, BuildContext, AskReturns, AttachResult, Resumes, Raise, itemVars, agentVars,
                ItemAt
  <2>2. CASE err' = err
    BY <1>1, <2>1, <2>2
  <2>3. CASE \E why \in {"timeout", "unknown"} : err' = [err EXCEPT ![t] = why]
    BY <2>1, <2>3, DropsWork DEF Errors
  <2>. QED  BY <2>1, <2>2, <2>3
<1>5. ASSUME NEW t \in Task, EnterLimiter(t) \/ TotalGranted(t)
      PROVE  UNCHANGED <<plan, status, err>>
  BY <1>5 DEF EnterLimiter, TotalGranted, itemVars, agentVars
<1>6. CASE EvaluateGate \/ UNCHANGED vars
  BY <1>1, <1>6 DEF EvaluateGate, vars, itemVars, agentVars
<1>. QED  BY <1>1, <1>2, <1>3, <1>4, <1>5, <1>6, RegistersWork, UnloadedIsDropped, AfterwardsStutter
          DEF Next, Dispatch, Execute, RunOver

(* At the start every task is to do.                                        *)
LEMMA RunInit == Init => Run!Init
<1>. SUFFICES ASSUME Init PROVE Run!Init
  OBVIOUS
<1>1. \A t \in Task : Deps(t) \subseteq Task
  BY PlanFacts, LenProperties, ElementOfSeq DEF Init, Deps
<1>2. \A t \in Task : Stage(t) = "todo"
  BY DEF Init, Stage
<1>. QED  BY <1>1, <1>2 DEF Run!Init

(* ImplementsProjectRun: for every plan, every setting of the limiter and   *)
(* whatever fails, work begins after delivery of all it needs, at most      *)
(* total at a time, and what was delivered or dropped stays so.             *)
THEOREM PipelineImplementsRun == Spec => ImplementsProjectRun
<1>1. Init => RInv
  BY TypeInit, WakeupInit, SlotsInit, DepsInit, OutcomeInit DEF RInv
<1>2. RInv /\ [Next]_vars => RInv'
  BY TypeStep, WakeupStep, SlotsStep, DepsStep, OutcomeNext DEF RInv
<1>3. RInv /\ [Next]_vars => [Run!Next]_<<[t \in Task |-> Deps(t)], [t \in Task |-> Stage(t)]>>
  BY RunStep, DepsStep DEF RInv
<1>. QED  BY <1>1, <1>2, <1>3, RunInit, PTL DEF Spec, ImplementsProjectRun, Run!Spec

-------------------------------------------------------------------------------
(* Waiting never goes round in a circle.                                    *)

(* The loop's queue holds exactly the runnable coroutines, each once.       *)
ReadyInv == /\ NoRepeat(ready)
            /\ \A u \in Task : u \in Elems(ready) <=> pc[u] \in Runnable

LEMMA ReadyInit == Init => ReadyInv
<1>. SUFFICES ASSUME Init PROVE ReadyInv
  OBVIOUS
<1>1. DOMAIN ready = Task /\ \A t \in Task : ready[t] = t /\ pc[t] = "new"
  BY DEF Init, StartOrder
<1>. QED  BY <1>1 DEF ReadyInv, NoRepeat, Elems, Runnable

(* A step that leaves the queue alone makes nobody runnable.                 *)
LEMMA ReadyAlike ==
  ASSUME TInv, ReadyInv, ready' = ready, NEW t \in Task, pc[t] \in InsideTask,
         NEW to \in InsideTask, pc' = [pc EXCEPT ![t] = to]
  PROVE  ReadyInv'
BY DEF TInv, TypeOK, ReadyInv, Runnable, InsideTask

(* The first runnable coroutine runs, and goes to the end of the queue if it *)
(* stays runnable.                                                           *)
LEMMA ReadyFirst ==
  ASSUME TInv, ReadyInv, NEW t \in Task, ready # <<>>, t = Head(ready), NEW to \in PCs,
         pc' = [pc EXCEPT ![t] = to],
         \/ ready' = Tail(ready) /\ to \notin Runnable
         \/ ready' = Append(Tail(ready), t) /\ to \in Runnable
  PROVE  ReadyInv'
<1>1. ready \in Seq(Task) /\ pc'[t] = to /\ \A u \in Task \ {t} : pc'[u] = pc[u]
  BY DEF TInv, TypeOK
<1>2. PICK r : r = Tail(ready)
  OBVIOUS
<1>3. r \in Seq(Task)
  BY <1>1, <1>2
<1>4. NoRepeat(r) /\ Elems(r) = Elems(ready) \ {t}
  BY <1>1, <1>2, TailElems DEF ReadyInv
<1>5. /\ Elems(Append(r, t)) = Elems(r) \union {t}
      /\ NoRepeat(Append(r, t))
  BY <1>3, <1>4, AppendElems
<1>6. CASE ready' = r /\ to \notin Runnable
  BY <1>1, <1>4, <1>6 DEF ReadyInv
<1>7. CASE ready' = Append(r, t) /\ to \in Runnable
  BY <1>1, <1>4, <1>5, <1>7 DEF ReadyInv
<1>. QED  BY <1>2, <1>6, <1>7

(* Two slots that are handed over make two others runnable, or one.          *)
LEMMA ReadyLeave ==
  ASSUME TInv, NoLostWakeup, ReadyInv, NEW t \in Task, Leave(t)
  PROVE  ReadyInv'
<1>1. /\ "total" \in Sems /\ RoleSem(t) \in Sems
      /\ \A s \in Sems : queue[s] \in Seq(Task)
  BY DEF TInv, TypeOK, RoleSem, Sems
<1>2. ASSUME NEW u \in Task PROVE pc[u] \notin Runnable
  <2>1. ready = <<>>
    BY DEF Leave
  <2>. QED  BY <2>1 DEF ReadyInv, Elems
<1>3. ASSUME NEW u \in Task
      PROVE  pc'[u] \in Runnable <=> u \in Oldest(RoleSem(t)) \union Oldest("total")
  <2>1. pc[t] = "leaving" /\ t \notin Oldest(RoleSem(t)) \union Oldest("total")
    BY OldestWaits DEF Leave
  <2>. QED  BY <1>2, <2>1 DEF Leave, Runnable
<1>4. Oldest(RoleSem(t)) \union Oldest("total") \subseteq Task /\ Oldest(RoleSem(t)) \cap Oldest("total") = {}
  BY OldestWaits
<1>5. ASSUME NEW s \in Sems
      PROVE  \/ Woken(s) = <<>> /\ Oldest(s) = {}
             \/ \E h \in Task : Woken(s) = <<h>> /\ Oldest(s) = {h}
  <2>1. PICK q \in Seq(Task) : q = queue[s]
    BY <1>1
  <2>2. CASE q = <<>>
    BY <2>1, <2>2 DEF Woken, Oldest
  <2>3. CASE q # <<>>
    <3>1. 1 \in DOMAIN q /\ Head(q) = q[1] /\ q[1] \in Task
      BY <2>3
    <3>. QED  BY <2>1, <2>3, <3>1 DEF Woken, Oldest
  <2>. QED  BY <2>2, <2>3
<1>6. PICK a, b : a = Woken(RoleSem(t)) /\ b = Woken("total")
  OBVIOUS
<1>7. PICK A, B : A = Oldest(RoleSem(t)) /\ B = Oldest("total")
  OBVIOUS
<1>8. /\ (a = <<>> /\ A = {}) \/ \E h \in Task : a = <<h>> /\ A = {h}
      /\ (b = <<>> /\ B = {}) \/ \E h \in Task : b = <<h>> /\ B = {h}
  BY <1>1, <1>5, <1>6, <1>7
<1>9. NoRepeat(a \o b) /\ Elems(a \o b) = A \union B
  <2>1. A \cap B = {}
    BY <1>4, <1>7
  <2>2. CASE a = <<>> /\ A = {} /\ b = <<>> /\ B = {}
    BY <2>2 DEF NoRepeat, Elems
  <2>3. ASSUME NEW h \in Task, a = <<h>>, A = {h}, b = <<>>, B = {} PROVE NoRepeat(a \o b) /\ Elems(a \o b) = A \union B
    <3>1. DOMAIN (a \o b) = {1} /\ (a \o b)[1] = h
      BY <2>3
    <3>. QED  BY <2>3, <3>1 DEF NoRepeat, Elems
  <2>4. ASSUME NEW h \in Task, b = <<h>>, B = {h}, a = <<>>, A = {} PROVE NoRepeat(a \o b) /\ Elems(a \o b) = A \union B
    <3>1. DOMAIN (a \o b) = {1} /\ (a \o b)[1] = h
      BY <2>4
    <3>. QED  BY <2>4, <3>1 DEF NoRepeat, Elems
  <2>5. ASSUME NEW h \in Task, NEW g \in Task, a = <<h>>, A = {h}, b = <<g>>, B = {g}
        PROVE  NoRepeat(a \o b) /\ Elems(a \o b) = A \union B
    <3>1. h # g
      BY <2>1, <2>5
    <3>2. PICK w : w = a \o b
      OBVIOUS
    <3>3. a \in Seq(Task) /\ b \in Seq(Task) /\ Len(a) = 1 /\ Len(b) = 1 /\ a[1] = h /\ b[1] = g
      BY <2>5
    <3>4. DOMAIN w = {1, 2} /\ w[1] = h /\ w[2] = g
      <4>1. /\ w \in Seq(Task) /\ Len(w) = Len(a) + Len(b)
            /\ \A i \in 1 .. Len(a) + Len(b) : w[i] = IF i <= Len(a) THEN a[i] ELSE b[i - Len(a)]
        BY ONLY <3>2, <3>3, ConcatProperties
      <4>2. Len(w) = 2
        BY <3>3, <4>1
      <4>3. w[1] = a[1] /\ w[2] = b[1]
        BY <3>3, <4>1
      <4>4. DOMAIN w = 1 .. 2
        BY ONLY <4>1, <4>2, LenProperties
      <4>. QED  BY <3>3, <4>3, <4>4
    <3>5. NoRepeat(w) /\ Elems(w) = {h, g}
      BY ONLY <3>1, <3>4 DEF NoRepeat, Elems
    <3>. QED  BY <2>5, <3>2, <3>5
  <2>. QED  BY <1>8, <2>2, <2>3, <2>4, <2>5
<1>10. ready' = a \o b
  BY <1>6 DEF Leave
<1>. QED  BY <1>3, <1>4, <1>7, <1>9, <1>10 DEF ReadyInv

LEMMA ReadyNext == TInv /\ NoLostWakeup /\ ReadyInv /\ [Next]_vars => ReadyInv'
<1>. SUFFICES ASSUME TInv, NoLostWakeup, ReadyInv, [Next]_vars PROVE ReadyInv'
  OBVIOUS
<1>. USE DEF IsNext, Goto
<1>0. {"waitTotal", "waitRole", "planned", "leaving"} \subseteq PCs \ Runnable /\ "gotRole" \in PCs \cap Runnable
  BY DEF PCs, HasTotal, HasRole, InsideTask, Runnable
<1>1. ASSUME NEW t \in Task, NEW S, TryRole(t, S), ready # <<>>, t = Head(ready) PROVE ReadyInv'
  BY <1>0, <1>1, ReadyFirst DEF TryRole
<1>2. ASSUME NEW t \in Task, EnterLimiter(t) PROVE ReadyInv'
  BY <1>0, <1>1, <1>2, ReadyFirst DEF EnterLimiter
<1>3. ASSUME NEW t \in Task, TotalGranted(t) PROVE ReadyInv'
  BY <1>1, <1>3 DEF TotalGranted
<1>4. ASSUME NEW t \in Task, Register(t) \/ LoadFails(t) PROVE ReadyInv'
  BY <1>0, <1>4, ReadyFirst DEF Register, LoadFails
<1>5. ASSUME NEW t \in Task, Execute(t), ~Leave(t) PROVE ReadyInv'
  BY <1>5, ExecuteQuiet, ReadyAlike
<1>6. CASE UNCHANGED <<ready, pc>>
  BY <1>6 DEF ReadyInv
<1>. QED  BY <1>2, <1>3, <1>4, <1>5, <1>6, ReadyLeave
          DEF Next, Dispatch, EvaluateGate, RunOver, vars, limiterVars

(* Somebody holds a slot of a semaphore for which somebody waits.            *)
LEMMA SlotHeld ==
  ASSUME TInv, NoLostWakeup, SlotAccounting, NEW s \in Sems, NEW t \in Waiters(s)
  PROVE  Holders(s) # {}
<1>1. queue[s] # <<>>
  BY DEF NoLostWakeup
<1>2. free[s] = 0
  BY <1>1 DEF NoLostWakeup
<1>3. Cap[s] \in Nat \ {0}
  BY PipelineAssumption
<1>4. Cardinality(Holders(s)) # 0
  BY <1>2, <1>3 DEF SlotAccounting
<1>. QED  BY <1>4, FS_EmptySet

(* While nobody is runnable and not all have left, somebody is inside a task. *)
LEMMA SomebodyInside ==
  ASSUME TInv, NoLostWakeup, SlotAccounting, \A u \in Task : pc[u] \notin Runnable, ~Gathered
  PROVE  \E u \in Task : pc[u] \in InsideTask
<1>1. \A u \in Task : pc[u] \in {"waitTotal", "waitRole", "left"} \union InsideTask
  BY DEF TInv, TypeOK, PCs, HasTotal, HasRole, Runnable
<1>2. PICK t \in Task : pc[t] # "left"
  BY DEF Gathered
<1>3. ASSUME NEW u \in Task, pc[u] = "waitRole" PROVE \E v \in Task : pc[v] \in InsideTask
  <2>1. RoleSem(u) \in Sems /\ u \in Waiters(RoleSem(u)) /\ RoleSem(u) # "total"
    BY <1>3 DEF Waiters, RoleSem, Sems
  <2>2. PICK v \in Holders(RoleSem(u)) : TRUE
    BY <2>1, SlotHeld
  <2>3. v \in Task /\ pc[v] \in HasRole
    BY <2>1, <2>2 DEF Holders
  <2>. QED  BY <1>1, <2>3 DEF HasRole
<1>4. CASE pc[t] = "waitTotal"
  <2>1. "total" \in Sems /\ t \in Waiters("total")
    BY <1>4 DEF Waiters, Sems
  <2>2. PICK v \in Holders("total") : TRUE
    BY <2>1, SlotHeld
  <2>3. v \in Task /\ pc[v] \in HasTotal
    BY <2>2 DEF Holders, HasTotal, RoleSem
  <2>4. pc[v] = "waitRole" \/ pc[v] \in InsideTask
    BY <1>1, <2>3 DEF HasTotal, HasRole
  <2>. QED  BY <1>3, <2>3, <2>4
<1>. QED  BY <1>1, <1>2, <1>3, <1>4

(* Every set of tasks but the empty one has a first in the order of the plan. *)
LEMMA FirstOf ==
  ASSUME NEW T, T \subseteq Task, T # {}
  PROVE  \E x \in T : \A y \in T : x <= y
<1>1. PICK R : IsWellFoundedOn(R, Nat) /\ \A m, n \in Nat : m < n => <<m, n>> \in R
  <2>1. \A m, n \in Nat : m < n => <<m, n>> \in OpToRel(<, Nat)
    BY DEF OpToRel
  <2>. QED  BY <2>1, NatLessThanWellFounded, Zenon
<1>2. T \subseteq Nat
  BY DEF Task
<1>3. ASSUME NEW S, S = Nat PROVE \E x \in T : \A y \in T : ~(<<y, x>> \in R)
  <2>1. IsWellFoundedOn(R, S) /\ T \subseteq S
    BY <1>1, <1>2, <1>3, Zenon
  <2>. QED  BY <2>1, WFMin
<1>4. PICK x \in T : \A y \in T : ~(<<y, x>> \in R)
  BY <1>3, Zenon
<1>5. ASSUME NEW y \in T PROVE x <= y
  <2>1. x \in Nat /\ y \in Nat /\ (y < x => <<y, x>> \in R)
    BY <1>1, <1>2
  <2>. QED  BY <1>4, <2>1
<1>. QED  BY <1>5

(* Until all have left, a coroutine goes on that is neither queued for a     *)
(* slot nor polls a task that is under way: slots held while polling never   *)
(* close a circle, for any plan and limits and whatever fails (limit(),      *)
(* _wait_dependencies, _topological_sort).                                   *)
THEOREM NobodyWaitsInACircle == Spec => []NoCircularWait
<1>1. TInv /\ NoLostWakeup /\ SlotAccounting /\ DInv /\ ReadyInv => NoCircularWait
  <2>. SUFFICES ASSUME TInv, NoLostWakeup, SlotAccounting, DInv, ReadyInv, ~Gathered
                PROVE  \E t \in Task : GoesOn(t)
    BY DEF NoCircularWait
  <2>1. ready \in Seq(Task)
    BY DEF TInv, TypeOK
  <2>2. CASE ready # <<>>
    <3>1. Head(ready) \in Elems(ready) /\ Head(ready) \in Task
      BY <2>1, <2>2, TailElems DEF ReadyInv
    <3>. QED  BY <2>2, <3>1 DEF ReadyInv, Runnable, GoesOn
  <2>3. CASE ready = <<>>
    <3>1. \A u \in Task : pc[u] \notin Runnable
      BY <2>3 DEF ReadyInv, Elems
    <3>2. PICK t \in {u \in Task : pc[u] \in InsideTask} : \A u \in Task : pc[u] \in InsideTask => t <= u
      <4>1. {u \in Task : pc[u] \in InsideTask} # {}
        BY <3>1, SomebodyInside
      <4>. QED  BY <4>1, FirstOf
    <3>3. ASSUME Idle(t) PROVE FALSE
      <4>1. dep[t] \in DOMAIN plan.deps[t]
        BY <3>2, <3>3 DEF Idle, TInv, TypeOK
      <4>2. DepOf(t) \in Task /\ DepOf(t) < t
        <5>1. plan \in Plans /\ t \in Task
          BY <3>2 DEF TInv, TypeOK
        <5>2. plan.deps[t][dep[t]] \in 1 .. (t - 1)
          BY <4>1, <5>1, PlanFacts
        <5>3. PICK d : d = plan.deps[t][dep[t]]
          OBVIOUS
        <5>4. d \in 1 .. (t - 1) /\ t \in 1 .. N /\ N \in Nat
          BY <5>1, <5>2, <5>3, PipelineAssumption DEF Task
        <5>5. d \in 1 .. N /\ d < t
          BY <5>4
        <5>. QED  BY <5>3, <5>5 DEF DepOf, Task
      <4>3. pc[DepOf(t)] \notin Outside /\ pc[DepOf(t)] # "left"
        BY <3>3, <4>2 DEF Idle, DInv, RegisteredInv
      <4>4. pc[DepOf(t)] \in InsideTask
        BY <4>2, <4>3 DEF TInv, TypeOK, PCs, HasTotal, HasRole, Outside
      <4>5. t <= DepOf(t)
        BY <3>2, <4>2, <4>4
      <4>. QED  BY <3>2, <4>2, <4>5 DEF Task
    <3>. QED  BY <2>3, <3>2, <3>3 DEF GoesOn
  <2>. QED  BY <2>2, <2>3
<1>2. Init => TInv /\ NoLostWakeup /\ SlotAccounting /\ DInv /\ ReadyInv
  BY TypeInit, WakeupInit, SlotsInit, DepsInit, ReadyInit
<1>3. /\ TInv /\ NoLostWakeup /\ SlotAccounting /\ DInv /\ ReadyInv
      /\ [Next]_vars
      => (TInv /\ NoLostWakeup /\ SlotAccounting /\ DInv /\ ReadyInv)'
  BY TypeStep, WakeupStep, SlotsStep, DepsStep, ReadyNext
<1>. QED  BY <1>1, <1>2, <1>3, PTL DEF Spec
===============================================================================
