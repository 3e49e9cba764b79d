------------------------------ MODULE ReviewLoop ------------------------------
(***************************************************************************)
(* Peer review and rework (peer_review.py, rework_scheduler.py) around the *)
(* work items of SharedWorkspace: an execution that attaches the result of *)
(* a DONE item publishes task.completed; a review of it may publish        *)
(* review.rework_requested; the scheduler reopens the item and has the     *)
(* agent execute the task again, which registers a NEW item, since the     *)
(* context it passes names no work_item_id.                                *)
(*                                                                         *)
(* Every event handler creates a coroutine of its own, so executions,      *)
(* reviews and reworks interleave at every await.  Item i is the i-th that *)
(* was registered; exec[i], review[i] and sched[i] are the execution that  *)
(* registered it, the review of it and the rework of it.                   *)
(***************************************************************************)
EXTENDS Naturals, Sequences, FiniteSets

CONSTANTS
  N,               \* number of tasks
  Deps,            \* Deps[t]: the dependency list of task t
  MaxItems,        \* bound: work items registered in a run
  AttemptLimits,   \* values rework_max_attempts may have
  LlmMayFail,      \* may an LLM call of an agent fail?
  StorageMayFail   \* may a write to SQLite raise?

Task == 1 .. N
Item == 1 .. MaxItems

ASSUME ReviewAssumption ==
  /\ N \in Nat /\ MaxItems \in Nat
  /\ Deps \in [Task -> Seq(Task)]
  /\ AttemptLimits \subseteq Nat
  /\ {LlmMayFail, StorageMayFail} \subseteq BOOLEAN

VARIABLES
  maxAttempts,  \* ReworkConfig.max_attempts of this run
  starting,     \* starting[t]: executions of t that have registered no item yet
  last,         \* items registered so far
  index,        \* _task_index: index[t] is the item of t looked up by task id
  taskOf,       \* taskOf[i]: the task item i belongs to (0: not registered)
  status,       \* status[i]: the cached status of item i
  reworks,      \* reworks[i]: its rework_count
  exec,         \* exec[i]: where its execution is
  dep,          \* dep[i]: position of the dependency it polls
  review,       \* review[i]: where its review is
  sched         \* sched[i]: where its rework is

itemVars == <<last, index, taskOf, reworks>>
execVars == <<starting, exec, dep>>
vars == <<maxAttempts, itemVars, status, execVars, review, sched>>

Statuses == {"none", "PLANNED", "WAITING", "IN_PROGRESS", "DONE", "FAILED"}
ExecPCs == {"none", "planned", "polling", "slept", "generating", "delivering",
           "updating", "left"}
Verdicts == {"approve", "minor", "rework", "reject"}
ReviewPCs == {"none", "reviewing", "settled", "over"} \union Verdicts
SchedPCs == {"none", "asked", "reopened", "over"}

(* _ALLOWED_TRANSITIONS of shared_workspace.py; nothing sets BLOCKED here.  *)
Allowed == {<<"PLANNED", "IN_PROGRESS">>, <<"PLANNED", "WAITING">>,
            <<"WAITING", "IN_PROGRESS">>, <<"IN_PROGRESS", "DONE">>,
            <<"IN_PROGRESS", "FAILED">>}

(* A task rebuilt for rework has no dependencies.                           *)
FirstItem(i) == \A j \in 1 .. (i - 1) : taskOf[j] # taskOf[i]
DepsOf(i) == IF FirstItem(i) THEN Deps[taskOf[i]] ELSE <<>>
Polled(i) == index[DepsOf(i)[dep[i]]]

Init == /\ maxAttempts \in AttemptLimits
        /\ starting = [t \in Task |-> 1]
        /\ last = 0
        /\ index = [t \in Task |-> 0]
        /\ taskOf = [i \in Item |-> 0]
        /\ status = [i \in Item |-> "none"]
        /\ reworks = [i \in Item |-> 0]
        /\ exec = [i \in Item |-> "none"]
        /\ dep = [i \in Item |-> 1]
        /\ review = [i \in Item |-> "none"]
        /\ sched = [i \in Item |-> "none"]

-------------------------------------------------------------------------------
(* execute_task.                                                             *)

(* The index moves to the new item (a bug: it stays with the first).         *)
IndexedOnce(t) == IF index[t] = 0 THEN [index EXCEPT ![t] = last + 1] ELSE index
Indexed(t) == [index EXCEPT ![t] = last + 1]

Register(t) ==
  /\ starting[t] > 0
  /\ last < MaxItems
  /\ starting' = [starting EXCEPT ![t] = @ - 1]
  /\ last' = last + 1
  /\ index' = Indexed(t)
  /\ taskOf' = [taskOf EXCEPT ![last + 1] = t]
  /\ status' = [status EXCEPT ![last + 1] = "PLANNED"]
  /\ \E pc \in IF StorageMayFail THEN {"planned", "left"} ELSE {"planned"} :
       exec' = [exec EXCEPT ![last + 1] = pc]
  /\ UNCHANGED <<maxAttempts, reworks, dep, review, sched>>

(* DNAManager.load raises before anything is registered; once the task has   *)
(* been executed, its agent's DNA is in the cache.                           *)
LoadFails(t) ==
  /\ StorageMayFail
  /\ starting[t] > 0
  /\ index[t] = 0
  /\ starting' = [starting EXCEPT ![t] = @ - 1]
  /\ UNCHANGED <<maxAttempts, itemVars, status, exec, dep, review, sched>>

(* Execution i runs on from one of the places `at`.                          *)
Resumes(i, at) == /\ exec[i] \in at
                  /\ UNCHANGED <<maxAttempts, itemVars, starting, sched>>

ExecGoto(i, to) == exec' = [exec EXCEPT ![i] = to]

(* The except branches; _mark_failed swallows a refused transition.          *)
ExecFails(i) ==
  /\ ExecGoto(i, "left")
  /\ status' = IF <<status[i], "FAILED">> \in Allowed
               THEN [status EXCEPT ![i] = "FAILED"] ELSE status

(* The cache is set before the write; if that raises, _mark_failed follows.  *)
SetStatus(i, new, to) ==
  \/ status' = [status EXCEPT ![i] = new] /\ ExecGoto(i, to)
  \/ /\ StorageMayFail
     /\ ExecGoto(i, "left")
     /\ status' = [status EXCEPT ![i] = IF <<new, "FAILED">> \in Allowed
                                        THEN "FAILED" ELSE new]

HandleDependencies(i) ==
  /\ Resumes(i, {"planned"})
  /\ IF DepsOf(i) = <<>> THEN SetStatus(i, "IN_PROGRESS", "generating")
                         ELSE SetStatus(i, "WAITING", "polling")
  /\ UNCHANGED <<dep, review>>

(* One look at a dependency (bugs: an item under way is good enough; the     *)
(* list is left one position late).                                          *)
UsableUnlessFailed(k) == status[k] # "FAILED"
Usable(k) == status[k] = "DONE"
MorePast(i) == dep[i] <= Len(DepsOf(i))
More(i) == dep[i] < Len(DepsOf(i))

DepDone(i) == /\ Polled(i) # 0
              /\ Usable(Polled(i))
              /\ \/ /\ More(i)
                    /\ dep' = [dep EXCEPT ![i] = @ + 1]
                    /\ UNCHANGED <<status, exec>>
                 \/ /\ ~More(i)
                    /\ SetStatus(i, "IN_PROGRESS", "generating")
                    /\ UNCHANGED dep

DepUnusable(i) == /\ Polled(i) # 0 => status[Polled(i)] = "FAILED"
                  /\ ExecFails(i)
                  /\ UNCHANGED dep

DepUnderWay(i) == /\ Polled(i) # 0
                  /\ status[Polled(i)] \notin {"DONE", "FAILED"}
                  /\ ExecGoto(i, "slept")
                  /\ UNCHANGED <<status, dep>>

PollDependency(i) ==
  /\ Resumes(i, {"polling", "slept"})
  /\ DepDone(i) \/ DepUnusable(i) \/ DepUnderWay(i)
  /\ UNCHANGED review

NoDeadline(i) == FALSE
DependencyTimeout(i) ==
  /\ Resumes(i, {"slept"})
  /\ ExecFails(i)
  /\ UNCHANGED <<dep, review>>

(* The LLM's answer, after all retries.                                      *)
Generate(i) ==
  /\ Resumes(i, {"generating"})
  /\ SetStatus(i, "DONE", "delivering") \/ (LlmMayFail /\ ExecFails(i))
  /\ UNCHANGED <<dep, review>>

(* attach_result, and publish("task.completed") if the item is DONE.         *)
AttachResult(i) ==
  /\ Resumes(i, {"delivering"})
  /\ \/ /\ ExecGoto(i, "updating")
        /\ review' = [review EXCEPT ![i] = IF status[i] = "DONE" THEN "reviewing" ELSE @]
        /\ UNCHANGED status
     \/ StorageMayFail /\ ExecFails(i) /\ UNCHANGED review
  /\ UNCHANGED dep

(* DNAManager.update goes on while the review has begun.  If it raises, the  *)
(* except branch tries to fail an item that may have been reopened meanwhile. *)
UpdateDna(i) ==
  /\ Resumes(i, {"updating"})
  /\ (ExecGoto(i, "left") /\ UNCHANGED status) \/ (StorageMayFail /\ ExecFails(i))
  /\ UNCHANGED <<dep, review>>

Work(i) == \/ HandleDependencies(i) \/ PollDependency(i) \/ DependencyTimeout(i)
           \/ Generate(i) \/ AttachResult(i)
Execute(i) == Work(i) \/ UpdateDna(i)

-------------------------------------------------------------------------------
(* review_task.                                                              *)

ReviewGoto(i, to) == review' = [review EXCEPT ![i] = to]

(* The reviewer's LLM gives a verdict, or none of its attempts does, or no   *)
(* reviewer was found.  REQUEST_CHANGES asks for rework unless it is MINOR.  *)
Judge(i) ==
  /\ review[i] = "reviewing"
  /\ \E v \in Verdicts \union {"over"} : ReviewGoto(i, v)
  /\ UNCHANGED <<maxAttempts, itemVars, status, execVars, sched>>

(* _persist, then _apply_state_transition: a refused one is swallowed, and a *)
(* write that raises after the cache was set as well.                        *)
Conclude(i) ==
  /\ review[i] \in Verdicts
  /\ \/ StorageMayFail /\ ReviewGoto(i, "over") /\ UNCHANGED status
     \/ /\ ReviewGoto(i, IF review[i] = "rework" THEN "settled" ELSE "over")
        /\ status' = IF review[i] = "reject" /\ <<status[i], "FAILED">> \in Allowed
                     THEN [status EXCEPT ![i] = "FAILED"] ELSE status
  /\ UNCHANGED <<maxAttempts, itemVars, execVars, sched>>

(* publish("review.rework_requested"): handle_rework is created.             *)
RequestRework(i) ==
  /\ review[i] = "settled"
  /\ ReviewGoto(i, "over")
  /\ sched' = [sched EXCEPT ![i] = "asked"]
  /\ UNCHANGED <<maxAttempts, itemVars, status, execVars>>

-------------------------------------------------------------------------------
(* handle_rework for the item i that was reviewed.  The count is read from   *)
(* the item the task's index names; it is i that is reopened.                *)

SchedGoto(i, to) == sched' = [sched EXCEPT ![i] = to]

(* The budget is spent: FAILED is tried, and refused of an item that is DONE. *)
OverBudget(i) == reworks[index[taskOf[i]]] >= maxAttempts

GiveUp(i) ==
  /\ sched[i] = "asked"
  /\ OverBudget(i)
  /\ SchedGoto(i, "over")
  /\ status' = IF <<status[i], "FAILED">> \in Allowed
               THEN [status EXCEPT ![i] = "FAILED"] ELSE status
  /\ UNCHANGED <<maxAttempts, itemVars, execVars, review>>

(* reopen raises unless the item is DONE.                                    *)
Reopen(i) ==
  /\ sched[i] = "asked"
  /\ ~OverBudget(i)
  /\ \/ /\ status[i] # "DONE"
        /\ SchedGoto(i, "over")
        /\ UNCHANGED <<status, reworks>>
     \/ /\ status[i] = "DONE"
        /\ status' = [status EXCEPT ![i] = "IN_PROGRESS"]
        /\ reworks' = [reworks EXCEPT ![i] = @ + 1]
        /\ \E to \in IF StorageMayFail THEN {"reopened", "over"} ELSE {"reopened"} :
             SchedGoto(i, to)
  /\ UNCHANGED <<maxAttempts, last, index, taskOf, execVars, review>>

(* create_task(_execute_rework): the task is executed from the beginning (a  *)
(* bug: once more, as the fallback for agents without a context does).       *)
ReexecuteTwice(i) ==
  /\ sched[i] = "reopened"
  /\ SchedGoto(i, "over")
  /\ starting' = [starting EXCEPT ![taskOf[i]] = @ + 2]
  /\ UNCHANGED <<maxAttempts, itemVars, status, exec, dep, review>>

Reexecute(i) ==
  /\ sched[i] = "reopened"
  /\ SchedGoto(i, "over")
  /\ starting' = [starting EXCEPT ![taskOf[i]] = @ + 1]
  /\ UNCHANGED <<maxAttempts, itemVars, status, exec, dep, review>>

Review(i) == Judge(i) \/ Conclude(i) \/ RequestRework(i)
Rework(i) == GiveUp(i) \/ Reopen(i) \/ Reexecute(i)

Next == \/ \E t \in Task : Register(t) \/ LoadFails(t)
        \/ \E i \in Item : Execute(i) \/ Review(i) \/ Rework(i)

(* Every await is an I/O operation with a timeout, or a sleep.               *)
Fairness == /\ \A t \in Task : WF_vars(Register(t))
            /\ \A i \in Item : /\ WF_vars(Execute(i))
                               /\ WF_vars(DependencyTimeout(i))
                               /\ WF_vars(Review(i))
                               /\ WF_vars(Rework(i))

Spec == Init /\ [][Next]_vars
FairSpec == Spec /\ Fairness

-------------------------------------------------------------------------------
(* Properties.                                                               *)

Registered == 1 .. last
Of(t) == {i \in Registered : taskOf[i] = t}

(* Every variable has its type, items are numbered without a gap, and a      *)
(* polled position is one of the dependency list.                            *)
TypeOK ==
  /\ maxAttempts \in AttemptLimits
  /\ starting \in [Task -> Nat]
  /\ last \in 0 .. MaxItems
  /\ index \in [Task -> 0 .. last]
  /\ taskOf \in [Item -> Task \union {0}]
  /\ status \in [Item -> Statuses]
  /\ reworks \in [Item -> Nat]
  /\ exec \in [Item -> ExecPCs]
  /\ dep \in [Item -> Nat \ {0}]
  /\ review \in [Item -> ReviewPCs]
  /\ sched \in [Item -> SchedPCs]
  /\ \A i \in Item : i \in Registered <=> taskOf[i] # 0
  /\ \A i \in Item : exec[i] \in {"polling", "slept"} => dep[i] \in DOMAIN DepsOf(i)

(* Somebody has the work item i in hand.  (An execution that has published   *)
(* its result and still writes its agent's DNA has handed it on.)            *)
Busy(i) == \/ exec[i] \notin {"none", "updating", "left"}
           \/ review[i] \notin {"none", "over"}
           \/ sched[i] \notin {"none", "over"}

(* A task is in the hands of one actor at a time (its execution, the review  *)
(* of its latest item, or the rework of it): no task is ever executed twice  *)
(* at once, although every step of the loop only creates a coroutine.        *)
OneActorPerTask ==
  \A t \in Task : starting[t] + Cardinality({i \in Of(t) : Busy(i)}) <= 1

(* What handle_rework reads by task id is the item it then reopens by id.    *)
ReworkReadsItsItem ==
  \A i \in Registered : review[i] \notin {"none", "over"} \/ sched[i] \in {"asked", "reopened"}
                          => index[taskOf[i]] = i

(* No task is worked on before a result of each dependency was delivered:    *)
(* that item is DONE still, or was reopened since.                           *)
Delivered(t) == \E i \in Of(t) : status[i] = "DONE" \/ reworks[i] > 0
NothingBuiltOnNothing ==
  \A i \in Registered : exec[i] \in {"generating", "delivering"} =>
    \A k \in DOMAIN DepsOf(i) : Delivered(DepsOf(i)[k])

(* All work ends, unless reviewers ask for rework without end.               *)
Quiet == /\ \A t \in Task : starting[t] = 0
         /\ \A i \in Registered : ~Busy(i) /\ exec[i] # "updating"
SettlesOrLoops == <>[](Quiet \/ last = MaxItems)

(* The cap keeps the cycle of review and rework bounded                      *)
(* (rework_scheduler.py:17-18): a task is re-executed max_attempts times.    *)
ReworkBounded ==
  \A t \in Task : starting[t] + Cardinality(Of(t)) <= 1 + maxAttempts
===============================================================================
