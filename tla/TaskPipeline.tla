----------------------------- MODULE TaskPipeline -----------------------------
(***************************************************************************)
(* One run of orchestrate_project (main.py): the tasks the CTO planned are *)
(* gathered as coroutines of one event loop; each enters the concurrency   *)
(* limiter, runs BaseSLMAgent.execute_task inside it (registers a work     *)
(* item, polls its dependencies, may ask the CTO, calls the LLM, stores    *)
(* the result) and leaves; then the stage gate judges the work items and   *)
(* the files are saved.                                                    *)
(*                                                                         *)
(* A step is what runs between two awaits that really suspend.  Coroutines *)
(* the loop has already made runnable (just created, or woken by a         *)
(* semaphore) wait in `ready` and run in that order before any new I/O     *)
(* completion is delivered.                                                *)
(***************************************************************************)
EXTENDS Naturals, Sequences, FiniteSets

CONSTANTS
  N,               \* number of tasks; task i is the i-th of the sorted plan
  Plans,           \* the plans decompose_tasks may return
  Cap,             \* configured limits: Cap["total"], Cap["slm"], Cap["mlops"]
  MaxRetries,      \* SLMConfig.max_retries: LLM attempts per task
  MaxFailPercent,  \* GateConfig.max_failure_rate, in percent
  LlmMayFail,      \* may the LLM raise, or return what cannot be parsed?
  StorageMayFail,  \* may a write to SQLite raise?
  DepsMayTimeOut   \* may the dependency deadline pass before they are done?

Task == 1 .. N
Roles == {"backend", "frontend", "mlops"}
Sems == {"total", "slm", "mlops"}

(* What _validate_dependencies and _topological_sort leave of a plan: every *)
(* dependency is a task that comes earlier in the list.                     *)
IsPlan(p) == /\ p.role \in [Task -> Roles]
             /\ DOMAIN p.deps = Task
             /\ \A t \in Task : p.deps[t] \in Seq(1 .. (t - 1))

ASSUME PipelineAssumption ==
  /\ N \in Nat \ {0}
  /\ \A p \in Plans : IsPlan(p)
  /\ Cap \in [Sems -> Nat \ {0}]
  /\ MaxRetries \in Nat \ {0}
  /\ MaxFailPercent \in 0 .. 100
  /\ {LlmMayFail, StorageMayFail, DepsMayTimeOut} \subseteq BOOLEAN

VARIABLES
  plan,     \* the plan of this run: [role |-> ..., deps |-> ...]
  ready,    \* runnable coroutines, in the order the loop will run them
  free,     \* free[s]: the value of semaphore s
  queue,    \* queue[s]: the waiters of semaphore s, oldest first
  pc,       \* pc[t]: where coroutine t is suspended
  status,   \* status[t]: the cached work item of t ("none": not registered)
  result,   \* result[t]: the result attached to that item
  dep,      \* dep[t]: position in t's dependency list that is polled
  slept,    \* slept[t]: has t slept between two polls?
  attempt,  \* attempt[t]: LLM attempts made
  err,      \* err[t]: why execute_task will raise ("none": it returns)
  verdict   \* the stage gate's verdict, and how the run ended

limiterVars == <<free, queue>>
itemVars == <<status, result>>
agentVars == <<dep, slept, attempt, err>>
vars == <<plan, ready, limiterVars, pc, itemVars, agentVars, verdict>>

Statuses == {"PLANNED", "WAITING", "IN_PROGRESS", "DONE", "FAILED", "BLOCKED"}
Results == {"none", "success", "unsuccessful", "failed"}
Errors == {"none", "missing", "blocked", "timeout", "parse", "unknown"}
Verdicts == {"pending", "PASS", "ABORT", "raised"}

(* Suspended inside `async with limiter.limit(role)`, that is in execute_task *)
InsideTask == {"planned", "polling", "context", "asking", "generating",
               "delivering", "failing", "leaving"}
HasRole == {"gotRole"} \union InsideTask
HasTotal == {"gotTotal", "waitRole"} \union HasRole
PCs == {"new", "waitTotal", "left"} \union HasTotal

(* _ALLOWED_TRANSITIONS of shared_workspace.py *)
Allowed == {<<"PLANNED", "IN_PROGRESS">>, <<"PLANNED", "WAITING">>,
            <<"WAITING", "IN_PROGRESS">>, <<"IN_PROGRESS", "DONE">>,
            <<"IN_PROGRESS", "FAILED">>, <<"IN_PROGRESS", "BLOCKED">>,
            <<"BLOCKED", "IN_PROGRESS">>}

RoleSem(t) == IF plan.role[t] = "mlops" THEN "mlops" ELSE "slm"
Deps(t) == {plan.deps[t][i] : i \in DOMAIN plan.deps[t]}
DepOf(t) == plan.deps[t][dep[t]]

-------------------------------------------------------------------------------

(* gather creates the coroutines in the order of the sorted plan; with a     *)
(* plan left as the LLM wrote it, a task might come before its dependency.   *)
Unsorted == [i \in Task |-> N + 1 - i]
StartOrder == [i \in Task |-> i]

Init == /\ plan \in Plans
        /\ ready = StartOrder
        /\ free = Cap
        /\ queue = [s \in Sems |-> <<>>]
        /\ pc = [t \in Task |-> "new"]
        /\ status = [t \in Task |-> "none"]
        /\ result = [t \in Task |-> "none"]
        /\ dep = [t \in Task |-> 1]
        /\ slept = [t \in Task |-> FALSE]
        /\ attempt = [t \in Task |-> 0]
        /\ err = [t \in Task |-> "none"]
        /\ verdict = "pending"

(* The loop runs the first runnable coroutine.                              *)
IsNext(t, at) == /\ ready # <<>>
                 /\ t = Head(ready)
                 /\ pc[t] = at

(* An I/O completion resumes t: no coroutine is runnable before it.         *)
Resumes(t, at) == /\ ready = <<>>
                  /\ pc[t] = at
                  /\ UNCHANGED <<plan, ready, limiterVars, verdict>>

Goto(t, to) == pc' = [pc EXCEPT ![t] = to]

Raise(t, why) == /\ Goto(t, "failing")
                 /\ err' = [err EXCEPT ![t] = why]

(* asyncio.Semaphore: a waiter is never overtaken.                          *)
Open(s) == free[s] > 0 /\ queue[s] = <<>>

TakeSlots(S) == free' = [s \in Sems |-> IF s \in S THEN free[s] - 1 ELSE free[s]]

(* A new waiter goes to the end of the queue (a bug: to its front).          *)
EnqueueFirst(t, s) == queue' = [queue EXCEPT ![s] = <<t>> \o @]
Enqueue(t, s) == queue' = [queue EXCEPT ![s] = Append(@, t)]

(* `async with per_role`, having just got the slots of S.  An open slot is   *)
(* taken without suspending; then DNAManager.load may read SQLite, whose one *)
(* thread serves reads in order, so t comes up again after those before it.  *)
TryRole(t, S) ==
  \/ /\ ~Open(RoleSem(t))
     /\ TakeSlots(S)
     /\ Enqueue(t, RoleSem(t))
     /\ Goto(t, "waitRole")
     /\ ready' = Tail(ready)
  \/ /\ Open(RoleSem(t))
     /\ TakeSlots(S \union {RoleSem(t)})
     /\ Goto(t, "gotRole")
     /\ ready' = Append(Tail(ready), t)
     /\ UNCHANGED queue

(* _run_task: `async with limiter.limit(agent_key)`, total first.           *)
EnterLimiter(t) ==
  /\ IsNext(t, "new")
  /\ \/ /\ ~Open("total")
        /\ Enqueue(t, "total")
        /\ Goto(t, "waitTotal")
        /\ ready' = Tail(ready)
        /\ UNCHANGED free
     \/ Open("total") /\ TryRole(t, {"total"})
  /\ UNCHANGED <<plan, itemVars, agentVars, verdict>>

TotalGranted(t) ==
  /\ IsNext(t, "gotTotal")
  /\ TryRole(t, {})
  /\ UNCHANGED <<plan, itemVars, agentVars, verdict>>

-------------------------------------------------------------------------------
(* BaseSLMAgent.execute_task.  A write is atomic with its outcome: nothing   *)
(* looks at the outcome before the writer resumes.                           *)

(* DNAManager.load comes before the try: if reading the agent's row raises,   *)
(* or the row is bad, the task leaves the limiter without a work item.  Once  *)
(* another task of that agent has gone on, the cache has a copy of the row.   *)
Cached(t) == \E u \in Task : /\ plan.role[u] = plan.role[t]
                             /\ status[u] # "none"
                             /\ status[u] = "PLANNED" => pc[u] = "left"
LoadFails(t) ==
  /\ StorageMayFail
  /\ IsNext(t, "gotRole")
  /\ ~Cached(t)
  /\ ready' = Tail(ready)
  /\ Goto(t, "leaving")
  /\ err' = [err EXCEPT ![t] = "unknown"]
  /\ UNCHANGED <<plan, limiterVars, itemVars, dep, slept, attempt, verdict>>

(* The item is cached and indexed before the write; if the write raises,     *)
(* work_item_id is still None and _mark_failed does nothing.                 *)
Register(t) ==
  /\ IsNext(t, "gotRole")
  /\ ready' = Tail(ready)
  /\ status' = [status EXCEPT ![t] = "PLANNED"]
  /\ \/ Goto(t, "planned") /\ UNCHANGED err
     \/ /\ StorageMayFail
        /\ Goto(t, "leaving")
        /\ err' = [err EXCEPT ![t] = "unknown"]
  /\ UNCHANGED <<plan, limiterVars, result, dep, slept, attempt, verdict>>

SetStatus(t, new, to) ==
  IF <<status[t], new>> \in Allowed
  THEN /\ status' = [status EXCEPT ![t] = new]
       /\ \/ Goto(t, to) /\ UNCHANGED err
          \/ StorageMayFail /\ Raise(t, "unknown")
  ELSE UNCHANGED status /\ Raise(t, "unknown")

HandleDependencies(t) ==
  /\ Resumes(t, "planned")
  /\ IF plan.deps[t] = <<>> THEN SetStatus(t, "IN_PROGRESS", "context")
                            ELSE SetStatus(t, "WAITING", "polling")
  /\ UNCHANGED <<result, dep, slept, attempt>>

(* One look at the dependency being polled (a bug: one DONE is enough).      *)
DepDoneAny(t) == /\ status[DepOf(t)] = "DONE"
                 /\ SetStatus(t, "IN_PROGRESS", "context")
                 /\ UNCHANGED <<dep, slept>>
DepDone(t) ==
  /\ status[DepOf(t)] = "DONE"
  /\ IF dep[t] < Len(plan.deps[t])
     THEN /\ dep' = [dep EXCEPT ![t] = @ + 1]
          /\ UNCHANGED <<pc, status, err>>
     ELSE SetStatus(t, "IN_PROGRESS", "context") /\ UNCHANGED dep
  /\ UNCHANGED slept

DepMissing(t) == /\ status[DepOf(t)] = "none"
                 /\ Raise(t, "missing")
                 /\ UNCHANGED <<status, dep, slept>>

DepFailed(t) == /\ status[DepOf(t)] \in {"FAILED", "BLOCKED"}
                /\ Raise(t, "blocked")
                /\ UNCHANGED <<status, dep, slept>>

DepUnderWay(t) == /\ status[DepOf(t)] \in {"PLANNED", "WAITING", "IN_PROGRESS"}
                  /\ slept' = [slept EXCEPT ![t] = TRUE]
                  /\ UNCHANGED <<pc, status, dep, err>>

PollDependency(t) ==
  /\ Resumes(t, "polling")
  /\ DepDone(t) \/ DepMissing(t) \/ DepFailed(t) \/ DepUnderWay(t)
  /\ UNCHANGED <<result, attempt>>

(* The deadline is checked before the dependency is looked at again (a bug:  *)
(* no deadline).                                                             *)
NoDeadline(t) == FALSE
DependencyTimeout(t) ==
  /\ DepsMayTimeOut
  /\ Resumes(t, "polling")
  /\ slept[t]
  /\ Raise(t, "timeout")
  /\ UNCHANGED <<itemVars, dep, slept, attempt>>

(* _check_needs_info is true of a task with dependencies; of another it      *)
(* depends on its text.  Asking writes the question to SQLite first.         *)
BuildContext(t) ==
  /\ Resumes(t, "context")
  /\ \/ plan.deps[t] = <<>> /\ Goto(t, "generating") /\ UNCHANGED err
     \/ Goto(t, "asking") /\ UNCHANGED err
     \/ StorageMayFail /\ Raise(t, "unknown")
  /\ UNCHANGED <<itemVars, dep, slept, attempt>>

(* An answer, or qa_timeout_sec without one: the task goes on either way.    *)
AskReturns(t) ==
  /\ Resumes(t, "asking")
  /\ Goto(t, "generating")
  /\ UNCHANGED <<itemVars, agentVars>>

(* One attempt of _generate_result_with_retry returns (bugs: the item is not *)
(* set to DONE; one attempt too many).                                       *)
ParsedUnsaved(t) == Goto(t, "delivering") /\ UNCHANGED <<status, err>>
Parsed(t) == SetStatus(t, "DONE", "delivering")

UnparsableOnceMore(t) == /\ LlmMayFail
                         /\ IF attempt[t] + 1 <= MaxRetries THEN UNCHANGED <<pc, err>>
                                                            ELSE Raise(t, "parse")
                         /\ UNCHANGED status

Unparsable(t) == /\ LlmMayFail
                 /\ IF attempt[t] + 1 < MaxRetries THEN UNCHANGED <<pc, err>>
                                                   ELSE Raise(t, "parse")
                 /\ UNCHANGED status

LlmRaises(t) == LlmMayFail /\ Raise(t, "unknown") /\ UNCHANGED status

Generate(t) ==
  /\ Resumes(t, "generating")
  /\ attempt' = [attempt EXCEPT ![t] = @ + 1]
  /\ Parsed(t) \/ Unparsable(t) \/ LlmRaises(t)
  /\ UNCHANGED <<result, dep, slept>>

(* The model's own `success` flag goes into the result.                      *)
AttachResult(t) ==
  /\ Resumes(t, "delivering")
  /\ \E r \in {"success", "unsuccessful"} : result' = [result EXCEPT ![t] = r]
  /\ \/ Goto(t, "leaving") /\ UNCHANGED err
     \/ StorageMayFail /\ Raise(t, "unknown")
  /\ UNCHANGED <<status, dep, slept, attempt>>

(* The except branches: _mark_failed, which swallows what goes wrong in it.  *)
MarkFailed(t) ==
  /\ Resumes(t, "failing")
  /\ IF <<status[t], "FAILED">> \in Allowed
     THEN /\ status' = [status EXCEPT ![t] = "FAILED"]
          /\ \/ result' = [result EXCEPT ![t] = "failed"]
             \/ StorageMayFail /\ UNCHANGED result
     ELSE UNCHANGED <<status, result>>
  /\ Goto(t, "leaving")
  /\ UNCHANGED agentVars

-------------------------------------------------------------------------------
(* DNAManager.update, then out of both `async with`: the role's slot is      *)
(* released first, then total's; a slot goes straight to the oldest waiter.  *)
(* Bugs: a slot is not released when the task raised; nobody is woken.       *)
ReleasedOnSuccess(t) == IF err[t] = "none" THEN {"total", RoleSem(t)} ELSE {}
Released(t) == {"total", RoleSem(t)}

Woken(s) == IF queue[s] = <<>> THEN <<>> ELSE <<Head(queue[s])>>
WakesNobody(s) == {}
Oldest(s) == {queue[s][i] : i \in DOMAIN queue[s] \intersect {1}}

Leave(t) ==
  LET S == Released(t) IN
  /\ ready = <<>>
  /\ pc[t] = "leaving"
  /\ free' = [s \in Sems |-> IF s \in S /\ queue[s] = <<>> THEN free[s] + 1 ELSE free[s]]
  /\ queue' = [s \in Sems |-> IF s \in S /\ queue[s] # <<>> THEN Tail(queue[s]) ELSE queue[s]]
  /\ ready' = Woken(RoleSem(t)) \o Woken("total")
  /\ pc' = [u \in Task |-> CASE u = t -> "left"
                             [] u \in Oldest(RoleSem(t)) -> "gotRole"
                             [] u \in Oldest("total") -> "gotTotal"
                             [] OTHER -> pc[u]]
  /\ \/ UNCHANGED err
     \/ StorageMayFail /\ err[t] = "none" /\ err' = [err EXCEPT ![t] = "unknown"]
  /\ UNCHANGED <<plan, itemVars, dep, slept, attempt, verdict>>

-------------------------------------------------------------------------------
(* gather returned: the stage gate, then the files and the summary.          *)

Gathered == \A t \in Task : pc[t] = "left"
Items(S) == Cardinality({t \in Task : status[t] \in S})
GateFails == 100 * Items({"FAILED", "BLOCKED"}) > MaxFailPercent * Items(Statuses)

(* review_progress of the gate's own CTO, which never made a strategy: its   *)
(* REPLAN raises, and CONTINUE is mapped to ABORT.                           *)
ReviewProgress == \/ verdict' = "ABORT"
                  \/ 2 * Items({"FAILED"}) <= Items(Statuses) /\ verdict' = "raised"

EvaluateGate ==
  /\ Gathered
  /\ verdict = "pending"
  /\ \/ ~GateFails /\ verdict' = "PASS"
     \/ GateFails /\ ReviewProgress
     \/ StorageMayFail /\ verdict' = "raised"
  /\ UNCHANGED <<plan, ready, limiterVars, pc, itemVars, agentVars>>

RunOver == verdict # "pending" /\ UNCHANGED vars

Execute(t) == \/ HandleDependencies(t) \/ PollDependency(t) \/ DependencyTimeout(t)
              \/ BuildContext(t) \/ AskReturns(t) \/ Generate(t)
              \/ AttachResult(t) \/ MarkFailed(t) \/ Leave(t)

Dispatch(t) == EnterLimiter(t) \/ TotalGranted(t) \/ LoadFails(t) \/ Register(t)

Next == \/ \E t \in Task : Dispatch(t) \/ Execute(t)
        \/ EvaluateGate
        \/ RunOver

(* The loop runs what is runnable; reads, writes, sleeps, asks and LLM calls *)
(* all have timeouts, so each of them completes or raises in the end.        *)
Fairness == /\ \A t \in Task : /\ WF_vars(Dispatch(t))
                               /\ WF_vars(Execute(t))
                               /\ WF_vars(DependencyTimeout(t))
            /\ WF_vars(EvaluateGate)

Spec == Init /\ [][Next]_vars
FairSpec == Spec /\ Fairness

-------------------------------------------------------------------------------
(* Properties.                                                              *)

(* Every variable has its type, and a polled position is one of the list.   *)
TypeOK ==
  /\ plan \in Plans
  /\ ready \in Seq(Task)
  /\ free \in [Sems -> Nat]
  /\ queue \in [Sems -> Seq(Task)]
  /\ pc \in [Task -> PCs]
  /\ status \in [Task -> Statuses \union {"none"}]
  /\ result \in [Task -> Results]
  /\ dep \in [Task -> Nat \ {0}]
  /\ slept \in [Task -> BOOLEAN]
  /\ attempt \in [Task -> 0 .. MaxRetries]
  /\ err \in [Task -> Errors]
  /\ verdict \in Verdicts
  /\ \A t \in Task : pc[t] = "polling" => dep[t] \in DOMAIN plan.deps[t]

Holders(s) == {t \in Task : \/ s = "total" /\ pc[t] \in HasTotal
                            \/ s = RoleSem(t) /\ pc[t] \in HasRole}
Waiters(s) == {t \in Task : \/ s = "total" /\ pc[t] = "waitTotal"
                            \/ s = RoleSem(t) /\ pc[t] = "waitRole"}

(* No slot is lost or made up on any path through limit(), the failing ones *)
(* included: what is free and what is held always add up to the limit.      *)
SlotAccounting == \A s \in Sems : free[s] + Cardinality(Holders(s)) = Cap[s]

(* No wake-up is lost: who waits for a semaphore is in its queue, once, and *)
(* nobody waits while a slot is free.                                       *)
NoLostWakeup ==
  \A s \in Sems :
    /\ Waiters(s) = {queue[s][i] : i \in DOMAIN queue[s]}
    /\ \A i, j \in DOMAIN queue[s] : i # j => queue[s][i] # queue[s][j]
    /\ queue[s] # <<>> => free[s] = 0

(* Waiting never goes round in a circle, although tasks hold two slots while *)
(* they poll for others that may be queued for them: until all have left, a  *)
(* coroutine goes on that is neither queued nor polls a task under way.      *)
Idle(t) == /\ pc[t] = "polling" /\ pc[DepOf(t)] # "left"
           /\ status[DepOf(t)] \in {"PLANNED", "WAITING", "IN_PROGRESS"}
GoesOn(t) == \/ ready # <<>> /\ t = Head(ready) /\ pc[t] \in {"new", "gotTotal", "gotRole"}
             \/ ready = <<>> /\ pc[t] \in InsideTask /\ ~Idle(t)
NoCircularWait == Gathered \/ \E t \in Task : GoesOn(t)

(* A task never overtakes one it may depend on: both queues of a task stay  *)
(* in plan order, although tasks reach the role's queue by way of total's.  *)
QueuesInPlanOrder ==
  \A s \in Sems : \A i, j \in DOMAIN queue[s] : i < j => queue[s][i] < queue[s][j]

(* The LLM is called for a task only when all it depends on is DONE, and    *)
(* that stays so until its result is stored (_wait_dependencies reads each  *)
(* dependency once, and relies on DONE being final).                        *)
DependenciesFirst ==
  \A t \in Task : pc[t] \in {"context", "asking", "generating", "delivering"}
                    => \A d \in Deps(t) : status[d] = "DONE"

(* No task fails with "dependency not found": start order and the limiter   *)
(* see to it that a dependency is registered before it is looked up (if the *)
(* storage works: one whose DNA could not be read never is).                *)
NoMissingDependency == \A t \in Task : err[t] # "missing"

(* What gather returns and what the board shows agree: a task returned a    *)
(* result iff its item is DONE with that result, and one that failed at work *)
(* has an item that is FAILED, with a failure as its result.  (Of a task that *)
(* gave up waiting for its dependencies, only that its item is not DONE.)    *)
OutcomeMatchesItem ==
  \A t \in Task : pc[t] = "left" =>
    /\ err[t] = "none" <=> status[t] = "DONE"
    /\ err[t] = "none" <=> result[t] \in {"success", "unsuccessful"}
    /\ err[t] \in {"parse", "unknown"} => status[t] = "FAILED" /\ result[t] = "failed"

(* When storage may fail: an item that is DONE without a returned result is *)
(* possible, a returned result without a DONE item is not.                  *)
ReturnedIsDone ==
  \A t \in Task : pc[t] = "left" /\ err[t] = "none" =>
    status[t] = "DONE" /\ result[t] \in {"success", "unsuccessful"}

(* The run comes to an end whatever fails: no deadlock among tasks that     *)
(* hold slots while they wait for dependencies queued behind them.          *)
RunEnds == <>(verdict # "pending")

(* When nothing fails, no deadline is needed: every task is delivered.      *)
AllDelivered == <>(\A t \in Task : pc[t] = "left" /\ status[t] = "DONE")

(* The abstract run: an item that is DONE was delivered, a task that will   *)
(* raise was dropped, and one between the two is worked on.                 *)
Stage(t) == IF status[t] = "DONE" THEN "delivered"
            ELSE IF err[t] # "none" THEN "dropped"
            ELSE IF status[t] = "IN_PROGRESS" THEN "working"
            ELSE "todo"

Run == INSTANCE ProjectRun WITH MaxWorking <- Cap["total"],
                                needs <- [t \in Task |-> Deps(t)],
                                stage <- [t \in Task |-> Stage(t)]

(* The pipeline is a project run as ProjectRun describes it.                *)
ImplementsProjectRun == Run!Spec
===============================================================================
