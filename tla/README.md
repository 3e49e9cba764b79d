# compani_ai in TLA+

compani_ai lets a team of language-model agents write a small software project.
A CTO agent makes a strategy and cuts it into tasks; three "SLM" agents (backend,
frontend, mlops) execute the tasks concurrently on one asyncio loop; a stage gate
judges the outcome; around that there are questions to the CTO, peer review and
rework, emergency meetings, an agent "DNA" that learns, a vector memory, metrics
and a dashboard. This directory models the parts of it where order, failure and
shared state matter, checks them with TLC, and proves the core's safety with TLAPS.

Paths below are relative to the repository root. Its Python package is `src/`
(so its files are `src/application/...`), with `main.py` beside it.

## Inventory

| Component | State it keeps | Operations | Talks to |
|---|---|---|---|
| Project run, `main.py` | the gathered coroutines, their results | `orchestrate_project`, `app_main` | everything |
| Concurrency limiter, `concurrency.py` | semaphores `total`, `slm`, `mlops`, `cto` | `limit(role)`, `update_limits` | run, dashboard |
| SLM agents, `base_agent.py` and three roles | DNA temperature and prompt of the agent | `execute_task`: register, wait for dependencies, ask, call the LLM with retries, store | workspace, queue, DNA, LLM, event bus |
| Shared workspace, `shared_workspace.py` | item cache, task index; SQLite behind them | `register`, `set_status`, `attach_result`, `reopen`, `get_by_task_id`, `list_by_status` | event bus, SQLite |
| Stage gate, `stage_gate.py` | none | `evaluate`, `evaluate_emergency` | workspace, CTO, emergency meeting |
| CTO agent, `cto_agent.py` | the last strategy | `create_strategy`, `decompose_tasks`, `review_progress`, `handle_questions` | LLM, queue |
| Peer review, `peer_review.py`, `reviewer_selector.py` | roles seen and reviews done in the run (records go to SQLite) | on `task.completed`: choose a reviewer, judge, persist, ask for rework | event bus, workspace, LLM |
| Rework scheduler, `rework_scheduler.py` | none | on `review.rework_requested`: reopen, execute again | event bus, workspace, agents |
| Event bus, `event_bus.py` | handlers | `publish`, `subscribe` | |
| Message queue, `sqlite_message_queue.py` | one `asyncio.Queue` per agent, messages in SQLite | `send`, `receive`, `ask` | agents, CTO, meetings |
| Emergency meeting, `emergency_meeting.py` | none between meetings | `convene`: ask for votes, tally, CTO decides, retry, fall back | queue, DNA, CTO |
| Agent DNA, `dna_manager.py` | a cached DNA per agent, one row each | `load`, `update`, review and participation feedback | SQLite, agents, reviews |
| Knowledge graph, `knowledge_graph.py`, `qdrant_storage.py` | vectors of results and strategies; a level of expertise per role and topic | `store_*`, `search_*`, `load_expertise` | Qdrant, SQLite |
| Storage and cache, `sqlite_storage.py`, `redis_cache.py`, `file_storage.py` | rows; Redis with SQLite as fall-back | `save`, `load`, `query`, `set`, `get`, `delete` | |
| Dashboard, `dashboard_api/` | connected clients, the config | snapshot, events, `PATCH /config`, read-only routes | event bus, limiter |
| Metrics and logging, `observability/` | lists of records not yet saved | `record_*`, `flush` | SQLite |

What is hard about it:

* Everything runs on one loop, so a data race is always an *await* race: a status
  looked up and used after a suspension, a cache changed before the write that
  may raise, an inbox two tasks wait on, a list cleared after an awaited loop.
* Tasks hold two nested semaphore slots while they poll for other tasks that may
  be queued for those slots. That there is no deadlock or false "dependency not
  found" rests on the start order, on FIFO semaphores and on the limits chosen.
* Failures are swallowed in many places (`_mark_failed`, `_apply_state_transition`,
  `_on_task_completed`): what the board shows and what `gather` returns can differ.
* All rows go through one SQLite connection: a COMMIT makes durable whatever others have
  inserted, and an INSERT without its COMMIT is visible, yet lost with the process.
* Work items are not read back after a crash, so a project is never resumed. DNAs and
  levels of expertise are: a process that could not read a row may replace it later.

What makes each component correct, and where that is stated, is the table of
properties further down; `PROJECT.json` lists each hazard at its line with the
properties that cover it, and the ones no property covers yet.

## Plan

In the order in which it was built:

1. `ProjectRun`, what a run promises; `TaskPipeline`, how the program does it
   (run + limiter + agents + workspace + stage gate), shown to implement it.
2. `TaskPipelineProofs`, theorems about `TaskPipeline` for all its constants, among them that it implements
   `ProjectRun`.
3. `ReviewLoop`, peer review and rework around the workspace.
4. `AsyncQueue`, operators for `asyncio.Queue`; `AgentMailbox`, questions and answers
   over the agents' inboxes.
5. `EmergencyMeeting`, on `AsyncQueue`: votes of several meetings in one inbox, the
   tally, the CTO's retries and the fallback, within the gate's `evaluate_emergency`.
6. `Learning`, which composes `AgentDna` and `KnowledgeLevels` over one `SQLiteStorage`,
   with processes that end and start again.
7. `LimiterReload`, `update_limits` under running holders; `DashboardFeed`, snapshots,
   broadcasts and reconnecting clients.
8. `CtoPlanning`, plan validation and sorting, retries, and REPLAN; `ReviewerChoice`, the
   two reviewer selectors while reviews overlap.
9. Proofs about 3 to 8, each after TLC had checked the inductive invariant: `ReviewLoopProofs` (`ReviewLoop`,
   `ReviewerChoice`), `AgentMailboxProofs`, `EmergencyMeetingProofs`, `LearningProofs`, `DashboardProofs`
   (`LimiterReload`, `DashboardFeed`), `CtoPlanningProofs`; `QueueFacts` has the lemmas about queues and counting
   that they share.

## The modules and the code

### TaskPipeline

State: `pc[t]` is where the coroutine of task t (`main.py:_run_task` around
`BaseSLMAgent.execute_task`) is suspended; `status`, `result` are its cached work
item; `dep`, `slept`, `attempt` are its local variables; `err` is the exception it
is going to raise; `free`, `queue` are the limiter's semaphores; `ready` is the
loop's queue of runnable coroutines; `verdict` is the gate's.

| Action | Code |
|---|---|
| `EnterLimiter`, `TotalGranted`, `TryRole` | `limit()`: `total` first, then the role's semaphore |
| `LoadFails` | `DNAManager.load` raises, before the `try` of `execute_task` |
| `Register` | `workspace.register`: cache, index, then the write |
| `HandleDependencies`, `PollDependency`, `DependencyTimeout` | `_handle_dependencies`, `_wait_dependencies` |
| `BuildContext`, `AskReturns` | `_build_context`, `_ask_question` |
| `Generate` (`Parsed`, `Unparsable`, `LlmRaises`) | `_generate_result_with_retry`, then `set_status(DONE)` |
| `AttachResult`, `MarkFailed` | `attach_result`; the except branches |
| `Leave` | DNA update, out of both `async with` |
| `EvaluateGate` | `StageGateMeeting.evaluate` after `gather`, with the CTO's review |

Granularity. A step is the code between two awaits that really suspend.
`async with semaphore` does not suspend when a slot is open; `get()` of a cached item
does not suspend. Coroutines that are runnable (new, or handed a slot by
`release`) wait in `ready` and run in that order. An I/O completion is delivered
only when `ready` is empty; it touches nothing a runnable coroutine looks at before
its next suspension, so delivering it earlier gives nothing new. Between taking
the role's slot and registering an item an agent may load its DNA; aiosqlite has one thread
per connection and serves reads in order, so that read takes its turn in `ready`. It may raise until some task of that
agent has got past it (`Cached`); the task then leaves without a work item, nothing is marked failed, and tasks that look
it up are told "not found".
A write and its outcome are one step: nobody looks at the cache in a way that
depends on the outcome before the writer resumes. A waiter woken by a semaphore
owns its slot already (CPython hands it over), so it is never overtaken.

Abstractions. Time: a deadline may pass once the task has slept, which is where
the code checks it. LLM text: it parses, it does not, or the call raises. SQLite: a
write succeeds or raises, and the cache was changed before. The knowledge
graph, prompts, logging and file output have no effect on these variables
except to raise, nor has a DNA once it is loaded; a raise after `gather` ends the run (`verdict = "raised"`). `RunOver`
is the end of the run. The verdict `ABORT` is logged and the files are saved
anyway, as the code does. `backend` and `frontend` share the semaphore `slm` in the
code; `Plans` of the three-task runs use one of them. The limiter of a run is never
reloaded here: as `main.py` wires it, the dashboard is another process with a limiter of its own
(`LimiterReload` is about the two in one process). That plans are topologically sorted is
`CtoPlanning`.

### ReviewLoop

State: `index[t]` is the workspace's `_task_index`; per work item there are its
`status`, `reworks` (`rework_count`) and the places of the execution that registered
it (`exec`), of its review (`review`) and of its rework (`sched`). All are coroutines
nobody awaits (the handlers call `create_task`), so they interleave at every
await. The mode is `ALL`. A re-execution registers a *new* item, because the context the scheduler
passes has no `work_item_id`; it has no dependencies, since `_rebuild_task` drops
them. `handle_rework` reads the count and reopens without suspending in between,
which is why `Reopen` is one step. An execution whose result is published goes on with its
agent's DNA (`updating`, `UpdateDna`) while the item is reviewed, reopened and executed anew; it does not have the item in
hand any more (`Busy`), but if the update raises, its except branch tries to fail the item. `LoadFails` is as
in `TaskPipeline`. The limiter is left out: reviews, reworks and
the CTO's answers do not go through it, and first executions in any order include
those it allows. The wiring is the one of `AgentFactory` and the integration
tests; `main.py` does not attach reviewers.

### AgentMailbox, AsyncQueue

State: per question, where its `ask()` is and what it took (`pc`, `got`); per agent its
`inbox` (an `asyncio.Queue`: items, getters, and getters that were woken and have not run
yet); the CTO's inbox `questions` and what its loop is at (`cto`). Questions are numbered in
the order their tasks start to ask. `ask()` saves the question, puts it into the CTO's inbox and gets from the asker's own
inbox without suspending in between (`Asked`); the get returns at once if a
message lies there, whatever it is about. A put wakes the oldest getter but the item stays in the queue until that
getter runs, so another task of the agent may take it first (`Resume` then waits again).
`handle_questions` takes one question at a time; an exception of the LLM or of the save
is logged and the question stays without an answer. `slots` is how many tasks of an agent the limiter
lets in together: 1 under the default limits, 2 for `slm = 2` or when a rework asks beside a task.
`Invite` is a meeting's request, sent to the same inboxes. `TaskPipeline.AskReturns` is this
module seen from the pipeline: answer or none, the task goes on.

### EmergencyMeeting

State: `at[m]` is the place of the coroutine that `_on_blocking_detected` creates for
meeting m (`evaluate_emergency` around `convene`); `invited[m]` counts its saved invitations;
`inbox` is the one queue "emergency_meeting" on which the collectors of all meetings wait;
`taken[m][k]` is what the collector of the k-th participant got; `tries[m]` counts failed calls of the
CTO; `outcome[m]` is its decision and who made it. `overlap` is a history variable.

| Action | Code |
|---|---|
| `Convene`, `Invite` | the handler's task, `_select_participants`, `_send_requests` |
| `SendReply` | a voter (external) |
| `Collect`, `TimeOut`, `Gathered` | `_collect_one` on `queue.receive`, and the `gather` of all of them |
| `AskCto`, `Fallback` | `_invoke_cto_with_retry`, `_resolve_fallback_winner` |
| `Close` | `_persist`, `_update_participation`, the gate's `_persist` |

Nothing under `src/` answers an invitation with a vote: the only loop that answers messages is the CTO's
`handle_questions`, whose text is not a decision. Voters are therefore external: they reply once, when
they like, readably or not, or never. `Ballots` has two decisions and one unreadable reply;
`Rulings` is what the CTO's LLM decides when it answers. Weights are integers, since only sums and comparisons of them
matter here, and positive: collaboration starts at 0.5 and every sample of it is 1 (`dna_manager.py`). A tally is the sum over at
most three seats (`Worth`), as only the owner, the dependency's source and the expert take part. A vote is attributed to
the sender of the message when it can be read, and to the
collector's own participant otherwise; so the abstention that is recorded may carry the name of an agent whose vote
another collector counted, although `emergency_meeting.py:11` says that who does not
respond is recorded as ABSTAIN. Nothing compares `meeting_id`.

### Learning: AgentDna and KnowledgeLevels over SQLiteStorage

State of `SQLiteStorage`: `visible[k]`, what a SELECT of the one connection returns, and
`durable[k]`, what the file holds after a crash. A save is two awaited statements, INSERT OR
REPLACE and COMMIT, and anybody's COMMIT makes all inserts durable; aiosqlite runs statements in the
order in which they are issued, so each takes effect where it is issued and its return, or its
exception, is a later step. Either may raise.

State of `AgentDna`: the manager's `cache`, and per operation on DNAs its place, the visit it is at and
the `copy` of the DNA that it holds. An operation is a list of visits: a task keeps the DNA it loaded until it ends and
then writes it back (`Using`, `Update`); a meeting weighs a vote, then counts the participation; a
review counts in the reviewer's DNA and then in the author's, which it does not reach if the first
raises (`Proceed`). `LoadReturns` puts its row into the cache even if another operation has put something there
meanwhile, as `load` does.

State of `KnowledgeLevels`: the levels in memory, the next result that `orchestrate_project` stores, the
tasks created to save levels, not yet begun (`pending`) and between their two statements
(`committing`). `LevelRestart` is `load_expertise`, which logs a failure and leaves the levels empty.

The keys of DNAs and levels differ by their prefixes ("agent_dna:", "kg_expertise:"), which is the one assumption `Learning`
adds to those of its parts.

What a DNA's averages and a level's exponential mean come to is arithmetic. What can go wrong is which samples are in
them, so a DNA, a level and a row are *sets of samples*. `Restart` ends the process anywhere, which includes the
normal end, where `asyncio.run` cancels the saves nobody awaited.

### LimiterReload

State: the `config`, the limiter's own `limits`, and for every semaphore of every generation
(`Semaphores`: which one, made by which request) its capacity, open slots and queue; per task its place and whose semaphores it
uses. `Enter` looks up both semaphores in one step; `Continue` and `Leave` use those objects.
`UpdateLimits` replaces the semaphores in the code's order and stops at the first limit below 1:
the config has the bad value by then and the request ends as HTTP 500. `PatchProfile`
writes four limits and the limiter is not told: the answer is "next run", and the next request
for a single limit applies them all. A slot is handed over when it is released; a newcomer that finds
no waiter and an open slot does not suspend. The dashboard and a run share a limiter only if a
program passes its own to `DashboardDeps`; `main.py` does not, and then there are no tasks.

### DashboardFeed

State: per connection its endpoint's place (`phase`), whether it still works, and what its snapshot
reflects; the registered `clients` in the order in which the set happens to enumerate them; the
broadcasts, one task per event, each with the clients it still has to send to; per connection the
broadcasts suspended in a send to it. `Run` is the code of a broadcast from one suspension to the next: any number of
sends return at once, one suspends. A client that breaks connects again, while the server may not have
noticed (`Break`, `Notice`, `Unregister`).
A set that grows may be enumerated in another order afterwards (`Register`); one that shrinks keeps the order of the
others (`Remaining`). A slow client delays the clients behind it in every broadcast; the docstring of `websocket.py`
speaks of dropping it, but only a send that raises drops one. The metrics tick is left out: it sends to one
client and reads nothing of this state.

### CtoPlanning

State: what the agent is asking the LLM for, the attempt, whether there is a last strategy, the board under
review, the last outcome. `TopologicalSort` is Kahn's algorithm with the heap as a set of ready tasks; `Sorting` is the function from the
number of turns to the loop's variables, and there are no more turns than tasks. `Without` is REPLAN's filter. `PlanIsSchedule` compares it with the definition of a
priority schedule, which counts nothing. Ids are integers (their order is that of the strings). An answer that does not parse is
`Unusable`; one that breaks a rule is refused by `SchemaError` or for its cycle. An exception of the LLM is outside the
loop's `try` and is not retried. REPLAN asks for tasks with a fresh budget of attempts.

### ReviewerChoice

State: `_in_run_roles` and `_recent_counts`, which all reviews share, and per review its place, the candidates it has
still to score and the scores so far. A score is a product of the DNA's weight, `exp(-count / 5)`
and 0.7 for a role whose work the reviewed task may be built on; the model adds its negative logarithms, in
thousandths (`PerReview`, `Tier2`). Each score is a step, as a DNA that is not in the cache suspends; when it is
cached the code does not, so the model has more interleavings. `written` is `transitive_roles`, in the code every other
role that has written anything in the run so far. Reviews are finitely many, and there are a least and a greatest handicap
(`ChoiceAssumption`), as the genes of a DNA are floats within bounds.
`find_best_responder` is any role or none. A re-execution has no `task_dependencies`, hence
`Sources` may be empty for a task that had some.

## Runs

| Run | Instance | Shows |
|---|---|---|
| `pipeline_normal` | 3 tasks, every plan (all role assignments, all dependency lists in all orders), limits 2/1/1, LLM failures, deadlines, 2 attempts | slots, wake-ups, dependencies first, no false "not found", a result for exactly the items that are DONE, the run ends, it is a `ProjectRun` |
| `pipeline_storage` | 3 tasks, every dependency graph, one role and two roles, limits 3/2/1, every write and the reading of a DNA may raise, deadlines | queues in plan order under the wider limits; a returned result has a DONE item, whichever write fails; slots and polling never wait in a circle |
| `pipeline_healthy` | 4 tasks: chain, diamond, two chains, fan-out; two role assignments; nothing fails and no deadline passes | every task is delivered: polling with slots in hand starves nobody |
| `review_loop` | 2 tasks, the second naming the first twice; 5 items; caps 0 and 2; LLM and storage failures; all verdicts | one actor per task, a rework acts on what it read, no dependent built on nothing, everything settles or the bound of items is reached |
| `mailbox` | two agents, one with three questions (one or two at a time), one with one; one invitation; LLM, saves and timeouts may fail it | one answer per question, only for its agent, late by no more questions than went unanswered, every question ends |
| `meeting` | a meeting of two voters and one of a third, heavier one, at once or in turn; replies late, unreadable or missing; CTO calls and saves fail | no reply counts twice or is lost, votes go astray only for a reason, the fallback follows the votes, meetings end |
| `learning` | a task, a review of it and a meeting on two DNAs, two results on one level, one connection; every statement may raise; two restarts anywhere | samples are lost only to copies held meanwhile; memory and file agree when all is quiet; expertise is forgotten only by a process that could not read it |
| `reload` | two tasks of one role, one of another, one of an unknown role; default limits; two requests among limits 0 and 2, a profile, a refused one, at any moment | slots go back where they came from, a task's pair is of one configuration, "applied" is true, nobody is stranded |
| `feed` | two dashboards, one of which reconnects; two events | no event twice, order while connections are calm, nobody left out on the way, and views that converge |
| `planning` | all lists of three tasks over eight dependency lists and two priorities, 64 of four tasks, lists that must be refused; eleven boards; 2 attempts | plans are the priority schedule, only cycles are called cycles, REPLAN's rest can be carried out |
| `reviewers` | four reviews at once, three of one author; both selectors; two DNA weights; DNAs that cannot be read, reviews that fail | conflicts of interest are a last resort, loads even out |
| `find_rework_unbounded` | 2 tasks, 5 items, a cap of 2, nothing fails | the disagreement under Findings |

Bounds. Three tasks fill both default semaphores, queue one task behind each and
give every shape of a dependency (none, chain, join, fork) with every assignment to semaphores; four are
enough for a join of two chains and for a task queued behind a task that
polls a task that is queued. `MaxRetries = 2` has a retry and a last attempt. The gate's
limit of 30 % (the default) lies between one failed task of four and one of three. In `ReviewLoop`,
`MaxItems = 5` allows more re-executions of a task than the cap of 2, and a dependent that
still polls while its dependency has been re-executed three times; the bound is a guard of `Register`
and is named in `SettlesOrLoops`. Three questions of one agent are enough for an answer that is late by
two; `MaxInvitations` is the guard of `Invite`. Two meetings are enough for a reply that goes to the other one, by
overlap or by lateness; three voters give a tie (two of equal weight) and a majority of weight against number
when the third's vote strays into the first meeting; `MaxTries = 1` has the last call and the
fallback (the retries before it change nothing but the counter). In `learning` a DNA is shared by all three operations and another
is written by a review only; two results are enough for two saves of one row in the wrong order, and two
restarts for a process that cannot read a level and one that inherits what it wrote. In `reload` two requests give a broken one
followed by a good one, and a profile followed by one that applies it. A broadcast of each of two events with three connections
can overlap, be suspended at each position, and meet a client that dies and returns. Four tasks are enough for
a join of a chain, with priorities against and along the dependencies. Four reviews let two be
in flight when the counts of two others come in. `CHECK_DEADLOCK FALSE` is in the cfgs of all but the pipeline and of those only,
because reviews, questions, meetings, saves, requests and events have no last action: they stop when all is quiet, or at the
bound. The pipeline's runs check deadlock, and end in `RunOver`.

Every property of a passing run has a mutant in `PROJECT.json`: a change of one
definition like a plausible bug (a slot not released after a failure, a waiter queued at
the front, one dependency of several waited for) under which TLC must find it violated. The
mutated forms stand before the definitions they replace.

The type invariants of `AgentMailbox` and `EmergencyMeeting` are in their runs, and proved. Those of
`TaskPipeline`, `ReviewLoop`, `ReviewerChoice`, `Learning`, `LimiterReload`, `DashboardFeed` and `CtoPlanning` hold on the same
instances and are proved for all; their runs list the properties beyond them.

### Properties and why they are worth checking

* `SlotAccounting`: no slot of the nested semaphores is lost or made up on any of
  the raising paths. `NoLostWakeup`: nobody waits while a slot is free.
* `QueuesInPlanOrder`: tasks reach a role's queue by way of `total`'s, yet never
  overtake an earlier task, under any limits. `NoMissingDependency` rests on it, and on limits with
  `total` at most one above each role's, as by default.
* `DependenciesFirst`: each dependency is read once, at different times; still all are DONE
  whenever the LLM is called and until the result is stored.
* `OutcomeMatchesItem`: a result is returned for exactly the items that are DONE, and a failure at work is on the board
  too. (Of a task that gave up waiting it only says that its item is not DONE, see Findings.) `ReturnedIsDone`: what is left of it
  when writes fail.
* `RunEnds`, `AllDelivered`: no deadlock of slots and polling. `NoCircularWait` is their safety core: a task holds
  two slots while it polls others that may be queued for one of them, yet at every moment some coroutine goes on
  that waits for no other, so the deadline is never what keeps a run alive.
* `ImplementsProjectRun`: work begins after delivery of all it needs, at most `total` at
  a time, and delivered or dropped is for good.
* `AnswerOnce`, `LateByTimeouts`: nothing matches answers with questions, so what can
  be said is that they stay in step: an agent that asks one thing at a time gets answers in order,
  behind by at most as many questions as it left unanswered. Without a timeout it gets its own.
* `ReplyCountedOnce`: several collectors race for one queue and time out while being woken;
  each reply still counts for one meeting at most and is not lost. `StraysHaveACause`: one meeting's
  votes are exactly its voters' unless meetings overlapped, a collector timed out, or invitations were broken
  off (in *any* meeting before: a late reply stays in the inbox). `FallbackIsBest`: the decision without a CTO against the
  votes that were taken, whoever they came from. `MeetingsEnd`: silence and failures end a meeting too.
* `OneActorPerTask`, `ReworkReadsItsItem`, `NothingBuiltOnNothing`, `SettlesOrLoops`: the same kind of
  questions for coroutines that only start each other.
* `CountedUnlessRaced`: the DNA's read-modify-write spans a whole task. The property says exactly when a sample is
  safe: it was written while no other operation had a copy of that DNA. `MemoryIsSaved`, `SettledIsSaved`: inserts and
  commits of overlapping saves interleave, and still the file is not behind memory once all is quiet.
  `KnowledgeGrows`: saves that nobody awaits replace the row in the right order.
* `SlotsPerReload`, `PairsOfOneReload`, `AllGetThrough`: what `update_limits` says of itself ("no risk of
  under-release", holders "drain naturally"), for old and new semaphores together. `AppliedIsApplied`: an answer that is true
  about all four limits, though earlier requests may have left the config and the limiter apart.
* `InOrderOnce`: one task per event, suspended at different clients, and yet no event overtakes another unless
  clients come or go. `NobodyLeftOut`: at every moment each event is accounted for at whoever works, although
  broadcasts hold lists of clients that have changed since, and failed sends drop clients; only what was broadcast while a snapshot
  was being sent is lost: the gap between `send_json` and `register` is that large and no larger. `ViewsConverge`: what
  was on its way arrives, and broken connections do not stay registered.
* `PlanIsSchedule`, `DeadlockIsCycle`, `ReplanFits`: counting in-degrees of lists with repeated names, and dropping done tasks from a
  sorted plan, are right.
* `ConflictsAreLastResort`, `LoadIsShared`: scores use counts that lag behind the reviews in flight; the
  property bounds by how much a choice may be wrong.

### Fairness

Weak fairness of each coroutine's steps and of the gate. The loop runs what is
runnable, and every suspension ends: LLM calls, asks and Redis have timeouts, sleeps end, and a SQLite
operation returns or raises. A semaphore's waiter is woken by a step of its holder. The timeouts of `ask` and
of the vote collectors are `wait_for`s, so each `TimeOut` is weakly fair; voters, and LLMs within their timeouts, owe nothing. Weak fairness of
`DependencyTimeout` by itself says that a deadline does pass if polling goes on for ever; in
`pipeline_healthy` deadlines are disabled and nothing else relies on them. `LimiterReload` has weak fairness of each
task's steps, as work inside the limiter ends; requests owe nothing. `DashboardFeed` has
weak fairness of everything but `Publish`: sends return or raise, and the server's pings close a dead connection. `Learning`,
`CtoPlanning` and `ReviewerChoice` have safety properties only and state no fairness. No strong fairness is
needed: a step that was enabled stays so until it is taken or another step of its coroutine is (a queue that another
task empties first leaves the getter its timeout).

## Proofs

All theorems hold for every value of the constants that satisfies the named assumption of the component's
module (which TLC evaluates in every run), and for every behaviour of `Spec`: no fairness is used. A theorem
with a further hypothesis is marked. Each rests on an inductive invariant, of which the parts beyond the property are
named here; TLC checked each on the instances of the runs before it was proved.

**`TaskPipelineProofs`**, under `PipelineAssumption` (task counts and limits positive, and
plans topologically sorted: what `_validate_dependencies` and `_topological_sort` leave).

* `Typing`: `TypeOK`. It is not inductive: that `attempt` stays within
  `MaxRetries` and that the polled position exists needs `CountersInv`, which ties the
  counters to the place of the coroutine. `TInv` is the conjunction.
* `LimiterWakesAll`: `NoLostWakeup`, on `TInv`. Queues and the sets of waiting coroutines
  change together in `TryRole` and `Leave`; the case worth reading is `Leave`, which hands
  over slots of two semaphores at once.
* `DependenciesComeFirst`: `DependenciesFirst`. The strengthening says that
  the dependencies *before* the polled position are DONE already (`PolledInv`), that
  coroutines that are inside have registered, unless their DNA could not be read (`RegisteredInv`), and uses that no transition leaves DONE.
* `SlotsAddUp`: `SlotAccounting`, by counting holders: each step moves at most
  the caller and the woken waiters in or out of the holders of each semaphore.

* `ReturnedMeansDone`: `ReturnedIsDone`, whatever writes fail, and `BoardTellsTheOutcome`: `OutcomeMatchesItem` if
  `~StorageMayFail` (with failing writes it is false, and not claimed). `EInv` says which status an item has at each place of its coroutine
  (`ItemAt`), and, without storage failures, what a failing task leaves.
* `QueuesKeepPlanOrder`: `QueuesInPlanOrder`, for any limits. `total`'s queue and the loop's ready queue hold tasks in the plan's
  order (`PassOrder`), from which it follows that none overtakes another of its role (`RoleOrder`).
* `DependenciesAreRegistered`: `NoMissingDependency`, if `~StorageMayFail` and `RoleHasRoom`, `total` being at most one above each
  role's limit. (A task whose DNA cannot be read registers nothing, so without the first it is false.) Under both a
  task that waits for its role with a slot of `total` leaves no room for a later one to run beside those of its role, which come before it.
* `NobodyWaitsInACircle` (`NoCircularWait`), on `ReadyInv`: the loop's queue holds exactly the runnable coroutines. If it is
  empty and not all have left, somebody holds a slot of every semaphore that is waited for, so somebody is inside a task. The first of
  these in plan order does not poll a task under way: that task comes earlier and has a work item, so it is inside too or has left.
* `PipelineImplementsRun`: `Spec => ImplementsProjectRun`. Each action is mapped to the step of `ProjectRun` that it takes in
  one task's `Stage`, or to a stutter; `DependenciesFirst` gives the guard of beginning work, `SlotAccounting` its bound.

**`ReviewLoopProofs`**, first half, under `ReviewAssumption`: `LoopTyping` (`TypeOK`), `NobodyTwice` (`OneActorPerTask`), `CountOfTheItem`
(`ReworkReadsItsItem`), `BuiltOnResults` (`NothingBuiltOnNothing`). The four are one invariant, `LInv`: execution, review and rework of
an item follow each other (`PhaseInv`); whoever is busy has the item the index names (`IndexInv`); an
execution begins only if nobody is busy with the task (`StartInv`), though the tail of an earlier one may still run; the status belongs to the executing place (`StageInv`);
what was polled was delivered (`PolledInv`). None of these is inductive without the others.

Second half, about `ReviewerChoice` under `ChoiceAssumption`, on `ChoiceInv`.

* `ChoiceTypeCorrect`; `ConflictsComeLast` (`ConflictsAreLastResort`). While a review is scored, its candidates are
  those still to score, those scored and those whose DNA could not be read (`PartitionedAt`), so a choice without a score
  has found none of them readable.
* `LoadsAreShared`: the action property `LoadIsShared`. The counts are the reviews that are over (`Counted`, a statement about
  cardinalities); a score counted some load of its role between the review's begin and now (`WeighedAt`), which bounds how stale
  the comparison is.

**`AgentMailboxProofs`**, under `MailboxAssumption`: `MailboxTyping`, `AnsweredOnce` (`AnswerOnce`), `LateOnlyByTimeouts`
(`LateByTimeouts`). `BoxInv` says that a getter is queued or woken, not both. `LateByTimeouts` needs the whole way of a question to
be a pipe: questions of an agent with one slot are asked in turn (`SerialInv`), are never overtaken from the CTO's inbox to
the asker's (`PipeInv`), and what was taken is older than all that is under way (`TakenInv`); the earlier questions that
were answered then map one to one into those older than the answer, which gives the bound.

**`DashboardProofs`**, first half, about `LimiterReload` under `ReloadAssumption`: `ReloadTyping`, `SlotsOfEachReload`
(`SlotsPerReload`), `OneConfiguration` (`PairsOfOneReload`), `AppliedMeansApplied` (`AppliedIsApplied`). Besides counting as above:
the semaphores in place are pairs too unless a request broke off (`CurrentPairs`), a queue holds exactly the tasks whose own
semaphore it is (`QueueInv`), and the limiter's record agrees with the semaphores in place, broken off or not (`RecordInv`).

Second half, about `DashboardFeed` under `FeedAssumption`, for any number of clients, reconnects and events.

* `FeedTypeCorrect` and `EventsInOrderOnce` (`InOrderOnce`), on `FeedInv`. Broadcasts are created and begin in the order of their
  events (`EventInv`). One that is suspended waits in the queue of the client it sends to, behind the earlier ones, unless it was
  disturbed (`DrainInv`). While nothing disturbs it, what it has left is an end of the list of clients (`CalmInv`), and a
  later one has no less left (`OrderInv`): it cannot overtake. A client in what a broadcast still has to send to has not been sent
  to by it (`SentInv`), hence no event twice.
* `NobodyIsLeftOut` (`NobodyLeftOut`), on `ViewInv`. Any connection has the bridge subscribed (`BridgeInv`); whoever works is
  registered (`ListedInv`), which rests on a broadcast dropping only clients that were registered and work no more
  (`PastInv`); and each event up to now is in the snapshot, in the gap, was sent, or is in what a
  broadcast has left (`HeardInv`), also for a client whose snapshot is still on its way. `OneWay` says what
  no step takes back, so that each action has only its own events to account for.

**`EmergencyMeetingProofs`**, under `MeetingAssumption`, for any number of meetings.

* `MeetingTyping` and `VotesDecide` (`FallbackIsBest`), on `MInv`: a meeting that has left the collecting has heard from every seat, and
  a decision by votes is what the votes give now, as they no longer change (`Place`).
* `RepliesCountOnce`: `ReplyCountedOnce`, on `ReplyInv`, by counting a reply in the inbox and among the collectors.
* `HearTheirOwn`: `StraysHaveACause`. While nothing disturbs the meetings, one at most is open and its collectors take replies to it only
  (`OwnInv`). That an earlier meeting left no reply behind is a pigeonhole argument: as many collectors as seats, each took a reply of one of the
  seats, none took another's, so all were taken.

**`LearningProofs`**, under the assumptions of `SQLiteStorage`, `AgentDna`, `KnowledgeLevels` and `Learning`.

* `LearningTyping`; `SettledLevelsAreSaved` (`SettledIsSaved`) and `NoResultIsForgotten` (the action property `KnowledgeGrows`).
  `LevelsAreChained`: from the file over the connection and the saves that wait to memory, values only grow, and the last
  save that waits is memory's value. A crash cuts the chain, but leaves its beginning.
* `CountedOnceWritten` (`CountedUnlessRaced`) and `CacheIsSaved` (`MemoryIsSaved`), on `DnasAreSound`: what a reader was
given is older than all that was
  cached or taken since (`Fresh`), the cache was inserted and inserts are committed while no save has raised (`Behind`), and an
  unraced sample is wherever the DNA is (`Counted`). `Fresh` is what makes `load`'s unguarded write to the cache harmless
  for those samples.

**`CtoPlanningProofs`**, under `PlanningAssumption`, for every list of tasks the LLM may answer with and every board.

* `PlanningTypeCorrect`; `PlansAreSchedules` (`PlanIsSchedule`). `Turned` is the invariant of the sorting loop: what is sorted is
  a schedule, a task's in-degree counts the positions of its dependencies that are not yet placed (so repeated names count as often
  as they stand there), and the heap is the tasks that are not placed and have none missing.
* `DeadlocksAreCycles` (`DeadlockIsCycle`): with an empty heap, each task that is left has one missing, which is left as well.
* `ReplansFit` (`ReplanFits`): the rest of a schedule without done tasks fits behind them (`WithoutKeeps`, `RestFits`).

Here a definition is by recursion over the number of turns, and the library's induction theorem, which has an operator as parameter,
cannot be used. `Induction` is stated about *sets* of numbers instead and proved from the well-foundedness of their
order; each use shows that the set of the turns after which `Turned` holds has all of them.

`QueueFacts` has the lemmas these share: Append and Tail on queues without repetition, how often an element is in a queue, and what
each operation of `AsyncQueue` does to its messages, getters and woken getters.

Only model-checked: the liveness properties (`RunEnds`, `AllDelivered`, `SettlesOrLoops`, `AsksEnd`, `MeetingsEnd`,
`AllGetThrough`, `ViewsConverge`), because liveness under fairness and ENABLED are out of the prover's reach; of `RunEnds` and `AllDelivered` the theorem
`NobodyWaitsInACircle` is the safety part. Every other property of
a passing run is a theorem. What the theorems do not say is that a model is the code: the correspondence above is by reading.

## Findings

A disagreement between the code and what its own text says, shown by a run:

* `find_rework_unbounded`: the count of reworks is kept by work item and each
  re-execution makes a new one: the cap never bites (except a cap of 0).
  The reopened item itself stays IN_PROGRESS for ever.

Observations that follow from the models and have no run of their own:

* With `total = 3, slm = 2`, the values recommended for a desktop in `agent_factory.py:231`, a task can poll a
  dependency that has no work item yet, because it is queued behind another task of its role;
  `_wait_dependencies` raises E_DEPS_BLOCKED at once instead of waiting. So `NoMissingDependency` is
  checked for the default limits, and proved for all in which `total` exceeds no role's limit by more than one.
* WAITING to FAILED is not a transition, so a task that timed out or was blocked by a failed dependency
  stays WAITING and gets no result, and the gate counts only FAILED ones. `tests/unit/test_backend_stage1.py:177-182` asserts the opposite, FAILED
  with a result whose error is E_DEPS_TIMEOUT, against a mock without the transition table. No property takes a side: `OutcomeMatchesItem` leaves the case
  open, and the models have the code's behaviour. In the same way a reviewer's REJECT cannot make a DONE item FAILED.
* The gate's CTO is not the one that made the strategy, so its REPLAN raises E_SYSTEM_CONFIG.
  CONTINUE of the CTO at a failed gate is mapped to ABORT, and ABORT only logs.
* A DNA that cannot be read makes a task end without a work item (`LoadFails`): the board never shows it, the gate does not count it, and
  its dependents fail with "dependency not found".
* A DNA update that raises after the review has reopened the item makes the old execution mark the reopened item FAILED
  (`UpdateDna`). Tasks that poll it before the re-execution registers its own item are told that it is blocked.
* `ask()` takes the first message of the asker's inbox and never looks at `question_id`: after one timeout
  each answer goes to the question after its own. `LateByTimeouts` says by how many.
* A refused limit stays in the config (`PATCH` of 0 ends as HTTP 500), and every later PATCH of a good limit
  may fail because of it; the semaphores before it in `update_limits`' order are replaced already.

## Not modelled

Each in `PROJECT.json` with its reason. In short:

* Never reached by the program: `RedisCache` is connected and closed but nothing is read or written
  through it; `MetricsCollector.flush`, `store_interaction` and `route_question` have no caller; BLOCKED is in the transition
  table but nothing sets it.
* Data and text: contracts, parsers, prompts, providers, logging and trace ids, id generation, the metrics' sums, the files written after a run.
  Vector search is external: what it returns is a choice.
* Views and tools without protocol state: read-only routes, token checks, the CLI, the widgets of the Flutter dashboard, deployment and
  benchmark scripts.
* The end of the loop in the middle of reviews (`asyncio.run` cancelling what is left) is modelled for saves
  (`Restart`), not for reviews and reworks, of which nothing is read back.
