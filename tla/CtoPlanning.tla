------------------------------ MODULE CtoPlanning ------------------------------
(***************************************************************************)
(* CTOAgent: a strategy, a plan of tasks and the review of a run are asked *)
(* of the LLM, with retries; the tasks are validated and sorted; a review  *)
(* that says REPLAN has the rest of the project planned again.             *)
(***************************************************************************)
EXTENDS Integers, Sequences, FiniteSets, Functions

CONSTANTS
  Answers,             \* lists of tasks the LLM may answer with
  WorkItems,           \* boards a review may be asked of: status by task id
  MaxRetries,          \* CTOConfig.max_retries: attempts per question
  MinTasks, MaxTasks   \* _validate_task_count: 3 and 15

(* A task of a list: its id, its priority, and the ids it depends on, perhaps *)
(* unknown, repeated, or its own.                                             *)
Task == [id : Nat, priority : 1 .. 5, deps : Seq(Nat)]

ASSUME PlanningAssumption ==
  /\ Answers \subseteq Seq(Task)
  /\ MaxRetries \in Nat \ {0}
  /\ MinTasks \in Nat \ {0} /\ MaxTasks \in Nat

VARIABLES
  call,     \* what the agent is asking the LLM for
  attempt,  \* the attempt under way
  strategy, \* _last_strategy is there
  board,    \* the work items under review
  answer,   \* history: the list of tasks that the outcome is about
  outcome   \* what the last call returned or raised

vars == <<call, attempt, strategy, board, answer, outcome>>

Calls == {"none", "strategy", "tasks", "signal", "replan"}
Codes == {"E_PARSE_JSON", "E_PARSE_SCHEMA", "E_DEPS_DEADLOCK", "E_SYSTEM_CONFIG", "LLM"}
Decisions == {"continue", "replan", "abort"}

Nothing == [kind |-> "none", what |-> "none", tasks |-> <<>>]
Raised(code) == [kind |-> "error", what |-> code, tasks |-> <<>>]
Returned(kind, what, tasks) == [kind |-> kind, what |-> what, tasks |-> tasks]

TypeOK ==
  /\ call \in Calls /\ attempt \in 0 .. MaxRetries /\ strategy \in BOOLEAN
  /\ board \in WorkItems \union {<<>>}
  /\ answer \in Answers \union {<<>>}
  /\ outcome.kind \in {"none", "strategy", "plan", "review", "error"}
  /\ outcome.what \in Codes \union Decisions \union {"none"}
  /\ Range(outcome.tasks) \subseteq Range(answer)

Init == /\ call = "none" /\ attempt = 0 /\ strategy = FALSE
        /\ board = <<>> /\ answer = <<>> /\ outcome = Nothing

-------------------------------------------------------------------------------
(* _topological_sort, on a list with unique ids and known dependencies.       *)

Ids(ts) == {ts[i].id : i \in DOMAIN ts}
TaskOf(ts, id) == ts[CHOOSE i \in DOMAIN ts : ts[i].id = id]
Times(id, deps) == Cardinality({i \in DOMAIN deps : deps[i] = id})

Before(t, u) == \/ t.priority < u.priority
                \/ t.priority = u.priority /\ t.id < u.id
First(ts, ids) ==
  CHOOSE id \in ids : \A o \in ids \ {id} : Before(TaskOf(ts, id), TaskOf(ts, o))

(* One turn of the loop: the first of the heap is next; the in-degree of a    *)
(* dependent falls by one for each time it names that task, and the dependent *)
(* is ready when it reaches zero.  (Bugs: a dependent is ready at the first   *)
(* of its dependencies; dependents are a set, so that a repeated name counts  *)
(* once.)                                                                     *)
ReadyAtFirst(before, after) == after < before
Ready(before, after) == before > 0 /\ after = 0
FallsOnce(id, deps) == IF id \in Range(deps) THEN 1 ELSE 0
Falls(id, deps) == Times(id, deps)

Turn(ts, s) ==
  IF s.heap = {} THEN s
  ELSE LET id == First(ts, s.heap)
           degree == [o \in Ids(ts) |-> s.degree[o] - Falls(id, TaskOf(ts, o).deps)]
       IN  [degree |-> degree,
            heap |-> (s.heap \ {id}) \union {o \in Ids(ts) : Ready(s.degree[o], degree[o])},
            sorted |-> Append(s.sorted, TaskOf(ts, id))]

Start(ts) ==
  LET degree == [id \in Ids(ts) |-> Len(TaskOf(ts, id).deps)]
  IN  [degree |-> degree, heap |-> {id \in Ids(ts) : degree[id] = 0}, sorted |-> <<>>]

(* The state of the loop after each turn: there are no more turns than tasks. *)
Sorting(ts) ==
  LET after[n \in 0 .. Len(ts)] == IF n = 0 THEN Start(ts) ELSE Turn(ts, after[n - 1])
  IN  after

TopologicalSort(ts) == Sorting(ts)[Len(ts)].sorted

(* _validate_task_count and _validate_dependencies.                           *)
SchemaError(ts) == \/ Len(ts) \notin MinTasks .. MaxTasks
                   \/ Cardinality(Ids(ts)) # Len(ts)
                   \/ \E i \in DOMAIN ts : ~(Range(ts[i].deps) \subseteq Ids(ts))

-------------------------------------------------------------------------------
(* The calls: main.py plans a project; a gate that failed has it reviewed.    *)

Begin(what) ==
  /\ call = "none"
  /\ call' = what /\ attempt' = 1
  /\ answer' = <<>> /\ outcome' = Nothing

CreateStrategy == Begin("strategy") /\ board' = <<>> /\ UNCHANGED strategy

DecomposeTasks == strategy /\ Begin("tasks") /\ board' = <<>> /\ UNCHANGED strategy

Finish(result) == call' = "none" /\ attempt' = 0 /\ outcome' = result

Failed(items) == {id \in DOMAIN items : items[id] = "FAILED"}
Done(items) == {id \in DOMAIN items : items[id] = "DONE"}

(* More than half failed: ABORT, and the LLM is not asked.                    *)
ReviewProgress(items) ==
  /\ board' = items
  /\ \/ /\ 2 * Cardinality(Failed(items)) > Cardinality(DOMAIN items)
        /\ call = "none"
        /\ Finish(Returned("review", "abort", <<>>))
        /\ answer' = <<>>
     \/ /\ 2 * Cardinality(Failed(items)) <= Cardinality(DOMAIN items)
        /\ Begin("signal")
  /\ UNCHANGED strategy

-------------------------------------------------------------------------------
(* The LLM's answers.                                                         *)

(* It raises: no loop catches that.                                           *)
LlmRaises == /\ call # "none"
             /\ Finish(Raised("LLM"))
             /\ UNCHANGED <<strategy, board, answer>>

(* An answer that will not do is asked for again, and the last one's error is *)
(* raised.                                                                    *)
Retry(code) ==
  \/ attempt < MaxRetries /\ attempt' = attempt + 1 /\ UNCHANGED <<call, outcome>>
  \/ attempt >= MaxRetries /\ Finish(Raised(code))

Unusable == /\ call # "none"
            /\ \E code \in {"E_PARSE_JSON", "E_PARSE_SCHEMA"} : Retry(code)
            /\ UNCHANGED <<strategy, board, answer>>

Strategy == /\ call = "strategy"
            /\ strategy' = TRUE
            /\ Finish(Returned("strategy", "none", <<>>))
            /\ UNCHANGED <<board, answer>>

Signal(decision) ==
  /\ call = "signal"
  /\ \/ decision # "replan" /\ Finish(Returned("review", decision, <<>>))
     \/ decision = "replan" /\ ~strategy /\ Finish(Raised("E_SYSTEM_CONFIG"))
     \/ /\ decision = "replan" /\ strategy
        /\ call' = "replan" /\ attempt' = 1 /\ UNCHANGED outcome
  /\ UNCHANGED <<strategy, board, answer>>

(* REPLAN keeps what is not done.  (A bug: what is not on the board.)         *)
Without(ts, ids) ==
  LET kept[n \in 0 .. Len(ts)] ==
        IF n = 0 THEN <<>>
        ELSE IF ts[n].id \in ids THEN kept[n - 1] ELSE Append(kept[n - 1], ts[n])
  IN  kept[Len(ts)]

StillUnknown(ts) == Without(ts, DOMAIN board)
StillToDo(ts) == Without(ts, Done(board))

Plan(sorted) ==
  Finish(IF call = "tasks" THEN Returned("plan", "none", sorted)
         ELSE Returned("review", "replan", StillToDo(sorted)))

Tasks(ts) ==
  /\ call \in {"tasks", "replan"}
  /\ LET sorted == TopologicalSort(ts)
     IN  \/ SchemaError(ts) /\ Retry("E_PARSE_SCHEMA")
         \/ ~SchemaError(ts) /\ Len(sorted) # Len(ts) /\ Retry("E_DEPS_DEADLOCK")
         \/ ~SchemaError(ts) /\ Len(sorted) = Len(ts) /\ Plan(sorted)
  /\ answer' = IF call' = "none" THEN ts ELSE <<>>
  /\ UNCHANGED <<strategy, board>>

Next == \/ CreateStrategy \/ DecomposeTasks \/ (\E items \in WorkItems : ReviewProgress(items))
        \/ LlmRaises \/ Unusable \/ Strategy
        \/ (\E decision \in Decisions : Signal(decision)) \/ (\E ts \in Answers : Tasks(ts))

Spec == Init /\ [][Next]_vars

-------------------------------------------------------------------------------
(* The plan holds the tasks of the answer, each once, and its next task is    *)
(* always the one with the least priority number, then the least id, of those *)
(* whose dependencies all came before (_topological_sort).                    *)
PlanIsSchedule ==
  outcome.kind = "plan" =>
    LET plan == outcome.tasks
        Free(i) == {t \in Range(answer) : /\ \A j \in 1 .. i - 1 : plan[j] # t
                                          /\ Range(t.deps) \subseteq {plan[j].id : j \in 1 .. i - 1}}
    IN  /\ Len(plan) = Len(answer)
        /\ \A i \in DOMAIN plan :
             plan[i] \in Free(i) /\ \A t \in Free(i) \ {plan[i]} : Before(plan[i], t)

(* "cyclic dependency detected" is said of cycles only: some of the tasks     *)
(* each depend on another of them (_topological_sort).                        *)
DeadlockIsCycle ==
  outcome.what = "E_DEPS_DEADLOCK" =>
    \E knot \in (SUBSET Range(answer)) \ {{}} :
      \A t \in knot : Range(t.deps) \cap {u.id : u \in knot} # {}

(* What a REPLAN adds can be carried out: a new task depends on tasks that    *)
(* are done or come earlier among the new ones (review_progress).             *)
ReplanFits ==
  outcome.what = "replan" =>
    \A i \in DOMAIN outcome.tasks :
      Range(outcome.tasks[i].deps) \subseteq
        Done(board) \union {outcome.tasks[j].id : j \in 1 .. i - 1}
===============================================================================
