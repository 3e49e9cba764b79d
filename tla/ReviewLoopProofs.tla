---------------------------- MODULE ReviewLoopProofs ----------------------------
(***************************************************************************)
(* Theorems about ReviewLoop, for every number of tasks and of work items, *)
(* every dependency list and every limit of attempts; and, in the second   *)
(* half, about ReviewerChoice, for every set of reviews, every assignment  *)
(* of authors and dependencies and every range of DNA costs.               *)
(***************************************************************************)
EXTENDS Integers, ReviewerChoice, ReviewLoop, FiniteSetTheorems, SequenceTheorems, TLAPS

(* An item is executed, reviewed and reworked in this order, each once.     *)
PhaseInv ==
  \A i \in Item : /\ i \notin Registered => exec[i] = "none"
                  /\ exec[i] \notin {"updating", "left"} => review[i] = "none"
                  /\ review[i] # "over" => sched[i] = "none"

(* Whoever is busy with an item has the one that the index names.           *)
IndexInv ==
  /\ \A t \in Task : index[t] # 0 => taskOf[index[t]] = t
  /\ \A i \in Registered : Busy(i) => index[taskOf[i]] = i

(* An execution begins only when nobody is busy with an item of the task.   *)
StartInv ==
  \A t \in Task : /\ starting[t] <= 1
                  /\ starting[t] = 1 => \A i \in Of(t) : ~Busy(i)

(* While it is executed nobody else changes the status of an item.          *)
StageInv ==
  \A i \in Item :
    /\ exec[i] \in {"none", "planned"} => dep[i] = 1
    /\ exec[i] = "planned" => status[i] = "PLANNED"
    /\ exec[i] \in {"polling", "slept"} => status[i] = "WAITING"
    /\ exec[i] = "generating" => status[i] = "IN_PROGRESS"
    /\ exec[i] = "delivering" => status[i] = "DONE"

(* What has been polled was delivered; all of it before the work begins.    *)
PolledInv ==
  \A i \in Registered : \A k \in DOMAIN DepsOf(i) :
    \/ exec[i] \in {"generating", "delivering"}
    \/ exec[i] \in {"polling", "slept"} /\ k < dep[i]
    => Delivered(DepsOf(i)[k])

LInv == TypeOK /\ PhaseInv /\ IndexInv /\ StartInv /\ StageInv /\ PolledInv

USE ReviewAssumption

(* The lists of the project's tasks are lists of tasks.                     *)
LEMMA DepsType ==
  ASSUME TypeOK, NEW i \in Registered
  PROVE  /\ i \in Item /\ taskOf[i] \in Task
         /\ DepsOf(i) \in Seq(Task)
         /\ DOMAIN DepsOf(i) = 1 .. Len(DepsOf(i)) /\ Len(DepsOf(i)) \in Nat
         /\ \A k \in DOMAIN DepsOf(i) : DepsOf(i)[k] \in Task
<1>1. i \in Item /\ taskOf[i] \in Task
  BY DEF TypeOK, Registered, Item
<1>2. DepsOf(i) \in Seq(Task)
  BY <1>1 DEF DepsOf
<1>. QED  BY <1>1, <1>2, LenProperties, ElementOfSeq

(* A run starts in the invariant.                                           *)
LEMMA LoopInit == Init => LInv
<1>. SUFFICES ASSUME Init PROVE LInv
  OBVIOUS
<1>1. Registered = {} /\ 0 \notin Task
  BY DEF Init, Registered, Task
<1>2. TypeOK
  BY <1>1 DEF Init, TypeOK, Statuses, ExecPCs, ReviewPCs, SchedPCs
<1>3. PhaseInv /\ StageInv
  BY DEF Init, PhaseInv, StageInv
<1>4. IndexInv /\ StartInv /\ PolledInv
  BY <1>1 DEF Init, IndexInv, StartInv, PolledInv, Of
<1>. QED  BY <1>2, <1>3, <1>4 DEF LInv

-------------------------------------------------------------------------------
(* Invariants that only mention who is busy survive a step in which nobody  *)
(* becomes busy and no execution begins.                                    *)
LEMMA NobodyStarts ==
  ASSUME IndexInv, StartInv, UNCHANGED <<index, taskOf, last, starting>>,
         \A j \in Registered : Busy(j)' => Busy(j)
  PROVE  IndexInv' /\ StartInv'
<1>1. Registered' = Registered /\ \A t : Of(t)' = Of(t)
  BY DEF Registered, Of
<1>2. \A t : Of(t) \subseteq Registered
  BY DEF Of
<1>3. IndexInv'
  BY <1>1 DEF IndexInv
<1>4. StartInv'
  BY <1>1, <1>2 DEF StartInv
<1>. QED  BY <1>3, <1>4

(* A result that was delivered stays delivered if no DONE is lost except by *)
(* a reopening that is counted.                                             *)
LEMMA DeliveredStays ==
  ASSUME TypeOK, NEW t \in Task, Delivered(t), last' \in Nat, last' >= last,
         \A i \in Registered : /\ taskOf'[i] = taskOf[i]
                               /\ reworks'[i] \in Nat /\ reworks'[i] >= reworks[i]
                               /\ status[i] = "DONE" => status'[i] = "DONE" \/ reworks'[i] > 0
  PROVE  Delivered(t)'
<1>1. PICK i \in Of(t) : status[i] = "DONE" \/ reworks[i] > 0
  BY DEF Delivered
<1>2. i \in Registered /\ i \in Item /\ reworks[i] \in Nat
  BY DEF Of, TypeOK, Registered, Item
<1>3. i \in Of(t)'
  BY <1>2 DEF Of, Registered, TypeOK
<1>4. status'[i] = "DONE" \/ reworks'[i] > 0
  BY <1>1, <1>2
<1>. QED  BY <1>3, <1>4 DEF Delivered

(* The items' tasks, and so their dependency lists, stay.                   *)
LEMMA SameDeps ==
  ASSUME UNCHANGED <<last, taskOf>>
  PROVE  Registered' = Registered /\ \A i : DepsOf(i)' = DepsOf(i)
BY DEF Registered, DepsOf, FirstItem

-------------------------------------------------------------------------------
(* An execution registers an item: it is the only one busy for its task.    *)
LEMMA RegisterStep ==
  ASSUME LInv, NEW t \in Task, Register(t)
  PROVE  LInv'
<1>. DEFINE n == last + 1
<1>. USE DEF LInv
<1>1. /\ n \in Item /\ last' = n /\ last \in Nat
      /\ Registered' = Registered \union {n} /\ n \notin Registered
      /\ Registered \subseteq Item
  <2>1. last \in Nat /\ last < MaxItems /\ last' = n
    BY DEF Register, TypeOK, Item
  <2>2. n \in Item /\ Registered \subseteq Item
    BY <2>1 DEF Registered, Item
  <2>3. Registered' = Registered \union {n} /\ n \notin Registered
    BY <2>1 DEF Registered
  <2>. QED  BY <2>1, <2>2, <2>3
<1>2. /\ UNCHANGED <<maxAttempts, reworks, dep, review, sched>>
      /\ index' = [index EXCEPT ![t] = n]
      /\ taskOf' = [taskOf EXCEPT ![n] = t]
      /\ status' = [status EXCEPT ![n] = "PLANNED"]
      /\ starting' = [starting EXCEPT ![t] = @ - 1]
  BY DEF Register, Indexed
<1>3. PICK pc \in {"planned", "left"} : exec' = [exec EXCEPT ![n] = pc]
  BY DEF Register
<1>4. /\ exec[n] = "none" /\ review[n] = "none" /\ sched[n] = "none"
      /\ dep[n] = 1 /\ taskOf[n] = 0
  BY <1>1 DEF PhaseInv, StageInv, TypeOK
<1>5. \A i \in Registered : /\ taskOf'[i] = taskOf[i] /\ exec'[i] = exec[i]
                            /\ status'[i] = status[i] /\ DepsOf(i)' = DepsOf(i)
  <2>. SUFFICES ASSUME NEW i \in Registered
                PROVE  /\ taskOf'[i] = taskOf[i] /\ exec'[i] = exec[i]
                       /\ status'[i] = status[i] /\ DepsOf(i)' = DepsOf(i)
    OBVIOUS
  <2>1. i \in Item /\ i # n
    BY <1>1
  <2>2. taskOf'[i] = taskOf[i] /\ exec'[i] = exec[i] /\ status'[i] = status[i]
    BY <1>2, <1>3, <2>1 DEF TypeOK
  <2>3. \A j \in 1 .. (i - 1) : taskOf'[j] = taskOf[j]
    <3>1. \A j \in 1 .. (i - 1) : j \in Registered
      BY <1>1 DEF Registered
    <3>. QED  BY <1>1, <1>2, <3>1 DEF TypeOK
  <2>4. FirstItem(i)' <=> FirstItem(i)
    BY <2>2, <2>3 DEF FirstItem
  <2>. QED  BY <2>2, <2>4 DEF DepsOf
<1>6. starting[t] = 1 /\ \A i \in Of(t) : ~Busy(i)
  BY DEF Register, StartInv, TypeOK
<1>7. TypeOK'
  <2>1. /\ starting' \in [Task -> Nat] /\ last' \in 0 .. MaxItems
        /\ index' \in [Task -> 0 .. last']
    BY <1>1, <1>2, <1>6 DEF TypeOK, Item
  <2>2. /\ taskOf' \in [Item -> Task \union {0}] /\ status' \in [Item -> Statuses]
        /\ exec' \in [Item -> ExecPCs]
    BY <1>1, <1>2, <1>3 DEF TypeOK, Statuses, ExecPCs
  <2>3. \A i \in Item : i \in Registered' <=> taskOf'[i] # 0
    <3>1. taskOf'[n] = t /\ t # 0
      BY <1>1, <1>2 DEF TypeOK, Task
    <3>2. \A i \in Item \ {n} : taskOf'[i] = taskOf[i]
      BY <1>2 DEF TypeOK
    <3>. QED  BY <1>1, <3>1, <3>2 DEF TypeOK
  <2>4. ASSUME NEW i \in Item, exec'[i] \in {"polling", "slept"} PROVE dep'[i] \in DOMAIN DepsOf(i)'
    <3>1. i # n /\ exec[i] = exec'[i]
      BY <1>1, <1>3, <2>4 DEF TypeOK
    <3>2. i \in Registered
      BY <2>4, <3>1 DEF PhaseInv
    <3>. QED  BY <1>2, <1>5, <2>4, <3>1, <3>2 DEF TypeOK
  <2>. QED  BY <1>2, <2>1, <2>2, <2>3, <2>4 DEF TypeOK
<1>8. PhaseInv'
  BY <1>1, <1>2, <1>3, <1>4 DEF PhaseInv, TypeOK
<1>9. StageInv'
  BY <1>1, <1>2, <1>3, <1>4 DEF StageInv, TypeOK
<1>10. \A i \in Registered : Busy(i)' <=> Busy(i)
  BY <1>2, <1>5 DEF Busy
<1>11. IndexInv'
  <2>1. ASSUME NEW u \in Task, index'[u] # 0 PROVE taskOf'[index'[u]] = u
    <3>1. CASE u = t
      BY <1>1, <1>2, <3>1 DEF TypeOK
    <3>2. CASE u # t
      BY <1>1, <1>2, <1>5, <2>1, <3>2 DEF TypeOK, IndexInv, Registered
    <3>. QED  BY <3>1, <3>2
  <2>2. ASSUME NEW i \in Registered', Busy(i)' PROVE index'[taskOf'[i]] = i
    <3>1. CASE i = n
      BY <1>1, <1>2, <3>1 DEF TypeOK
    <3>2. CASE i \in Registered
      <4>1. Busy(i) /\ taskOf[i] # t /\ taskOf[i] \in Task
        BY <1>6, <1>10, <2>2, <3>2, DepsType DEF Of
      <4>. QED  BY <1>2, <1>5, <3>2, <4>1 DEF IndexInv, TypeOK
    <3>. QED  BY <1>1, <3>1, <3>2
  <2>. QED  BY <2>1, <2>2 DEF IndexInv
<1>12. StartInv'
  <2>1. starting'[t] = 0 /\ \A u \in Task \ {t} : starting'[u] = starting[u]
    BY <1>2, <1>6 DEF TypeOK
  <2>2. \A u \in Task \ {t} : \A i \in Of(u)' : i \in Of(u)
    BY <1>1, <1>2, <1>5 DEF Of, TypeOK
  <2>3. \A u \in Task : \A i \in Of(u) : i \in Registered
    BY DEF Of
  <2>4. ASSUME NEW u \in Task, starting'[u] = 1, NEW i \in Of(u)' PROVE ~Busy(i)'
    BY <1>10, <2>1, <2>2, <2>3, <2>4 DEF StartInv
  <2>5. \A u \in Task : starting'[u] <= 1
    BY <2>1 DEF StartInv
  <2>. QED  BY <2>4, <2>5 DEF StartInv
<1>13. PolledInv'
  <2>1. \A u \in Task : Delivered(u) => Delivered(u)'
    <3>1. last' \in Nat /\ last' >= last
      BY <1>1
    <3>2. \A i \in Registered : reworks'[i] \in Nat /\ reworks'[i] >= reworks[i]
      BY <1>1, <1>2 DEF TypeOK
    <3>. QED  BY <1>5, <3>1, <3>2, DeliveredStays
  <2>2. \A i \in Registered : \A k \in DOMAIN DepsOf(i) : DepsOf(i)[k] \in Task
    BY DepsType
  <2>3. exec'[n] \notin {"polling", "slept", "generating", "delivering"}
    BY <1>1, <1>3 DEF TypeOK
  <2>. QED  BY <1>1, <1>2, <1>5, <2>1, <2>2, <2>3 DEF PolledInv
<1>. QED  BY <1>7, <1>8, <1>9, <1>11, <1>12, <1>13

-------------------------------------------------------------------------------
(* The places an execution goes through after its item is registered, with  *)
(* what the item's status and the polled position are on the way.           *)
Active == {"planned", "polling", "slept", "generating", "delivering"}

ExecMove(i) ==
  \/ exec'[i] = "left" /\ dep'[i] = dep[i]
  \/ /\ exec[i] = "planned" /\ dep'[i] = dep[i]
     /\ \/ exec'[i] = "generating" /\ status'[i] = "IN_PROGRESS" /\ DepsOf(i) = <<>>
        \/ exec'[i] = "polling" /\ status'[i] = "WAITING" /\ DepsOf(i) # <<>>
  \/ /\ exec[i] \in {"polling", "slept"} /\ status'[i] = status[i]
     /\ \/ exec'[i] = "slept" /\ dep'[i] = dep[i]
        \/ exec'[i] = exec[i] /\ dep'[i] = dep[i] + 1 /\ DepDone(i) /\ More(i)
  \/ /\ exec[i] \in {"polling", "slept"} /\ status'[i] = "IN_PROGRESS"
     /\ exec'[i] = "generating" /\ dep'[i] = dep[i] /\ DepDone(i) /\ ~More(i)
  \/ /\ exec[i] = "generating" /\ status'[i] = "DONE"
     /\ exec'[i] = "delivering" /\ dep'[i] = dep[i]
  \/ exec[i] = "delivering" /\ exec'[i] = "updating" /\ dep'[i] = dep[i]

(* set_status moves the execution on, or to the except branches.            *)
LEMMA SetStatusShape ==
  ASSUME NEW i, NEW new \in Statuses, NEW to, SetStatus(i, new, to)
  PROVE  \/ status' = [status EXCEPT ![i] = new] /\ exec' = [exec EXCEPT ![i] = to]
         \/ \E end \in Statuses :
              status' = [status EXCEPT ![i] = end] /\ exec' = [exec EXCEPT ![i] = "left"]
<1>. DEFINE end == IF <<new, "FAILED">> \in Allowed THEN "FAILED" ELSE new
<1>1. end \in Statuses
  BY DEF Statuses
<1>. QED  BY <1>1 DEF SetStatus, ExecGoto

(* What an execution changes until its result is published: its item's      *)
(* status, its place, the position it polls and, at the end, the review.    *)
LEMMA ExecShape ==
  ASSUME LInv, NEW i \in Item, Work(i)
  PROVE  /\ UNCHANGED <<maxAttempts, itemVars, starting, sched>>
         /\ exec[i] \in Active
         /\ exec' \in [Item -> ExecPCs] /\ status' \in [Item -> Statuses]
         /\ dep' \in [Item -> Nat \ {0}] /\ review' \in [Item -> ReviewPCs]
         /\ \A j \in Item \ {i} : /\ exec'[j] = exec[j] /\ status'[j] = status[j]
                                 /\ dep'[j] = dep[j] /\ review'[j] = review[j]
         /\ status[i] = "DONE" => status'[i] = "DONE"
         /\ review'[i] = review[i] \/ exec'[i] = "updating"
         /\ ExecMove(i)
<1>. USE DEF LInv
<1>0. /\ exec \in [Item -> ExecPCs] /\ status \in [Item -> Statuses]
      /\ dep \in [Item -> Nat \ {0}] /\ review \in [Item -> ReviewPCs]
  BY DEF TypeOK
<1>1. CASE HandleDependencies(i)
  <2>1. /\ UNCHANGED <<maxAttempts, itemVars, starting, sched, dep, review>>
        /\ exec[i] = "planned" /\ status[i] # "DONE"
    BY <1>1 DEF HandleDependencies, Resumes, StageInv
  <2>2. CASE DepsOf(i) = <<>> /\ SetStatus(i, "IN_PROGRESS", "generating")
    <3>1. CASE status' = [status EXCEPT ![i] = "IN_PROGRESS"] /\ exec' = [exec EXCEPT ![i] = "generating"]
      BY <1>0, <2>1, <2>2, <3>1 DEF ExecMove, Active, Statuses, ExecPCs
    <3>2. CASE \E end \in Statuses :
                 status' = [status EXCEPT ![i] = end] /\ exec' = [exec EXCEPT ![i] = "left"]
      BY <1>0, <2>1, <3>2 DEF ExecMove, Active, ExecPCs
    <3>3. "IN_PROGRESS" \in Statuses
      BY DEF Statuses
    <3>. QED  BY <2>2, <3>1, <3>2, <3>3, SetStatusShape
  <2>3. CASE DepsOf(i) # <<>> /\ SetStatus(i, "WAITING", "polling")
    <3>1. CASE status' = [status EXCEPT ![i] = "WAITING"] /\ exec' = [exec EXCEPT ![i] = "polling"]
      BY <1>0, <2>1, <2>3, <3>1 DEF ExecMove, Active, Statuses, ExecPCs
    <3>2. CASE \E end \in Statuses :
                 status' = [status EXCEPT ![i] = end] /\ exec' = [exec EXCEPT ![i] = "left"]
      BY <1>0, <2>1, <3>2 DEF ExecMove, Active, ExecPCs
    <3>3. "WAITING" \in Statuses
      BY DEF Statuses
    <3>. QED  BY <2>3, <3>1, <3>2, <3>3, SetStatusShape
  <2>. QED  BY <1>1, <2>2, <2>3 DEF HandleDependencies
<1>2. CASE PollDependency(i)
  <2>1. /\ UNCHANGED <<maxAttempts, itemVars, starting, sched, review>>
        /\ exec[i] \in {"polling", "slept"} /\ status[i] = "WAITING"
    BY <1>2 DEF PollDependency, Resumes, StageInv
  <2>2. CASE DepDone(i) /\ More(i)
    <3>1. dep' = [dep EXCEPT ![i] = @ + 1] /\ UNCHANGED <<status, exec>>
      BY <2>2 DEF DepDone
    <3>2. dep' \in [Item -> Nat \ {0}] /\ dep'[i] = dep[i] + 1 /\ \A j \in Item \ {i} : dep'[j] = dep[j]
      BY <1>0, <3>1
    <3>. QED  BY <1>0, <2>1, <2>2, <3>1, <3>2 DEF ExecMove, Active
  <2>3. CASE DepDone(i) /\ ~More(i)
    BY <1>0, <2>1, <2>3 DEF DepDone, SetStatus, ExecGoto, ExecMove, Active, Statuses, ExecPCs
  <2>4. CASE DepUnusable(i)
    BY <1>0, <2>1, <2>4 DEF DepUnusable, ExecFails, ExecGoto, ExecMove, Active, Statuses, ExecPCs
  <2>5. CASE DepUnderWay(i)
    BY <1>0, <2>1, <2>5 DEF DepUnderWay, ExecGoto, ExecMove, Active, ExecPCs
  <2>. QED  BY <1>2, <2>2, <2>3, <2>4, <2>5 DEF PollDependency
<1>3. CASE DependencyTimeout(i)
  <2>1. /\ UNCHANGED <<maxAttempts, itemVars, starting, sched, dep, review>>
        /\ exec[i] = "slept" /\ status[i] = "WAITING"
    BY <1>3 DEF DependencyTimeout, Resumes, StageInv
  <2>. QED  BY <1>0, <1>3, <2>1 DEF DependencyTimeout, ExecFails, ExecGoto, ExecMove, Active, Statuses, ExecPCs
<1>4. CASE Generate(i)
  <2>1. /\ UNCHANGED <<maxAttempts, itemVars, starting, sched, dep, review>>
        /\ exec[i] = "generating" /\ status[i] = "IN_PROGRESS"
    BY <1>4 DEF Generate, Resumes, StageInv
  <2>. QED  BY <1>0, <1>4, <2>1 DEF Generate, SetStatus, ExecFails, ExecGoto, ExecMove, Active, Statuses, ExecPCs
<1>5. CASE AttachResult(i)
  <2>1. /\ UNCHANGED <<maxAttempts, itemVars, starting, sched, dep>>
        /\ exec[i] = "delivering" /\ status[i] = "DONE"
    BY <1>5 DEF AttachResult, Resumes, StageInv
  <2>. QED  BY <1>0, <1>5, <2>1
            DEF AttachResult, ExecFails, ExecGoto, ExecMove, Active, Allowed, Statuses, ExecPCs, ReviewPCs
<1>. QED  BY <1>1, <1>2, <1>3, <1>4, <1>5 DEF Work

(* A step of an execution keeps the invariant.                              *)
LEMMA WorkStep ==
  ASSUME LInv, NEW i \in Item, Work(i)
  PROVE  LInv'
<1>. USE DEF LInv
<1>1. /\ UNCHANGED <<maxAttempts, last, index, taskOf, reworks, starting, sched>>
      /\ exec[i] \in Active /\ i \in Registered
      /\ exec' \in [Item -> ExecPCs] /\ status' \in [Item -> Statuses]
      /\ dep' \in [Item -> Nat \ {0}] /\ review' \in [Item -> ReviewPCs]
      /\ \A j \in Item \ {i} : /\ exec'[j] = exec[j] /\ status'[j] = status[j]
                              /\ dep'[j] = dep[j] /\ review'[j] = review[j]
      /\ status[i] = "DONE" => status'[i] = "DONE"
      /\ review'[i] = review[i] \/ exec'[i] = "updating"
      /\ ExecMove(i)
  <2>1. exec[i] \in Active
    BY ExecShape
  <2>2. i \in Registered
    BY <2>1 DEF PhaseInv, Active
  <2>. QED  BY <2>2, ExecShape DEF itemVars
<1>2. /\ Registered' = Registered /\ Registered \subseteq Item
      /\ \A j : DepsOf(j)' = DepsOf(j)
  BY <1>1, SameDeps, DepsType
<1>3. review[i] = "none" /\ sched[i] = "none" /\ Busy(i)
  BY <1>1 DEF PhaseInv, Active, Busy
<1>4. DOMAIN DepsOf(i) = 1 .. Len(DepsOf(i)) /\ Len(DepsOf(i)) \in Nat /\ dep[i] \in Nat \ {0}
  BY <1>1, DepsType DEF TypeOK
<1>5. exec'[i] \in {"polling", "slept"} => dep'[i] \in DOMAIN DepsOf(i)
  <2>1. CASE exec[i] = "planned" /\ DepsOf(i) # <<>> /\ dep'[i] = dep[i]
    <3>1. dep[i] = 1 /\ Len(DepsOf(i)) # 0
      BY <1>1, <2>1, DepsType, EmptySeq DEF StageInv
    <3>. QED  BY <1>4, <2>1, <3>1
  <2>2. CASE exec[i] \in {"polling", "slept"}
    <3>1. dep[i] \in 1 .. Len(DepsOf(i))
      BY <1>1, <1>4, <2>2 DEF TypeOK
    <3>. QED  BY <1>1, <1>4, <2>2, <3>1 DEF ExecMove, More
  <2>. QED  BY <1>1, <2>1, <2>2 DEF ExecMove
<1>6. TypeOK'
  <2>1. \A j \in Item : exec'[j] \in {"polling", "slept"} => dep'[j] \in DOMAIN DepsOf(j)'
    BY <1>1, <1>2, <1>5 DEF TypeOK
  <2>2. \A j \in Item : j \in Registered' <=> taskOf'[j] # 0
    BY <1>1, <1>2 DEF TypeOK
  <2>. QED  BY <1>1, <2>1, <2>2 DEF TypeOK
<1>7. PhaseInv'
  BY <1>1, <1>2, <1>3 DEF PhaseInv
<1>8. StageInv'
  <2>1. exec'[i] \in {"none", "planned"} => dep'[i] = 1
    BY <1>1 DEF ExecMove, Active
  <2>2. /\ exec'[i] = "planned" => status'[i] = "PLANNED"
        /\ exec'[i] \in {"polling", "slept"} => status'[i] = "WAITING"
        /\ exec'[i] = "generating" => status'[i] = "IN_PROGRESS"
        /\ exec'[i] = "delivering" => status'[i] = "DONE"
    BY <1>1 DEF ExecMove, StageInv
  <2>. QED  BY <1>1, <2>1, <2>2 DEF StageInv
<1>9. IndexInv' /\ StartInv'
  <2>1. \A j \in Registered : Busy(j)' => Busy(j)
    BY <1>1, <1>2, <1>3 DEF Busy
  <2>. QED  BY <1>1, <2>1, NobodyStarts
<1>10. PolledInv'
  <2>1. ASSUME NEW u \in Task, Delivered(u) PROVE Delivered(u)'
    <3>1. last' \in Nat /\ last' >= last
      BY <1>1 DEF TypeOK
    <3>2. \A j \in Registered : /\ taskOf'[j] = taskOf[j]
                                /\ reworks'[j] \in Nat /\ reworks'[j] >= reworks[j]
                                /\ status[j] = "DONE" => status'[j] = "DONE"
      BY <1>1, <1>2 DEF TypeOK
    <3>. QED  BY <2>1, <3>1, <3>2, DeliveredStays
  <2>2. \A j \in Registered : \A k \in DOMAIN DepsOf(j) : DepsOf(j)[k] \in Task
    BY DepsType
  <2>3. ASSUME NEW j \in Registered, j # i, NEW k \in DOMAIN DepsOf(j),
               \/ exec'[j] \in {"generating", "delivering"}
               \/ exec'[j] \in {"polling", "slept"} /\ k < dep'[j]
        PROVE  Delivered(DepsOf(j)[k])'
    BY <1>1, <1>2, <2>1, <2>2, <2>3 DEF PolledInv
  <2>4. ASSUME DepDone(i), exec[i] \in {"polling", "slept"} PROVE Delivered(DepsOf(i)[dep[i]])
    <3>. DEFINE k == Polled(i)
                u == DepsOf(i)[dep[i]]
    <3>1. k = index[u] /\ k # 0 /\ status[k] = "DONE" /\ u \in Task
      BY <1>1, <1>4, <2>2, <2>4 DEF DepDone, Usable, Polled, TypeOK
    <3>2. k \in Of(u)
      BY <3>1 DEF IndexInv, TypeOK, Of, Registered
    <3>. QED  BY <3>1, <3>2 DEF Delivered
  <2>5. ASSUME NEW k \in DOMAIN DepsOf(i),
               \/ exec'[i] \in {"generating", "delivering"}
               \/ exec'[i] \in {"polling", "slept"} /\ k < dep'[i]
        PROVE  Delivered(DepsOf(i)[k])
    <3>1. CASE exec[i] \in {"polling", "slept"}
      <4>1. dep[i] \in DOMAIN DepsOf(i) /\ k \in 1 .. Len(DepsOf(i))
        BY <1>1, <1>4, <3>1 DEF TypeOK
      <4>2. CASE k < dep[i]
        BY <1>1, <3>1, <4>2 DEF PolledInv
      <4>3. CASE k = dep[i] /\ DepDone(i)
        BY <2>4, <3>1, <4>3
      <4>. QED  BY <1>1, <1>4, <2>5, <3>1, <4>1, <4>2, <4>3 DEF ExecMove, More
    <3>2. CASE exec[i] = "planned"
      <4>1. dep[i] = 1 /\ k \in 1 .. Len(DepsOf(i))
        BY <1>1, <1>4, <3>2 DEF StageInv
      <4>2. DepsOf(i) = <<>> => Len(DepsOf(i)) = 0
        OBVIOUS
      <4>. QED  BY <1>1, <1>4, <2>5, <3>2, <4>1, <4>2 DEF ExecMove
    <3>3. CASE exec[i] \in {"generating", "delivering"}
      BY <1>1, <3>3 DEF PolledInv
    <3>. QED  BY <1>1, <3>1, <3>2, <3>3 DEF Active
  <2>. QED  BY <1>2, <2>1, <2>2, <2>3, <2>5 DEF PolledInv
<1>. QED  BY <1>6, <1>7, <1>8, <1>9, <1>10

(* The tail of an execution, which no longer has its item in hand, undoes no *)
(* result that was delivered: it fails the item only if it was reopened.    *)
LEMMA UpdateStep ==
  ASSUME LInv, NEW i \in Item, UpdateDna(i)
  PROVE  LInv'
<1>. USE DEF LInv
<1>1. /\ exec[i] = "updating" /\ exec' = [exec EXCEPT ![i] = "left"]
      /\ UNCHANGED <<maxAttempts, last, index, taskOf, reworks, starting, sched, dep, review>>
  BY DEF UpdateDna, Resumes, ExecFails, ExecGoto, itemVars
<1>2. /\ status' \in [Item -> Statuses]
      /\ \A j \in Item \ {i} : status'[j] = status[j]
      /\ status[i] = "DONE" => status'[i] = "DONE"
  BY DEF UpdateDna, ExecFails, Allowed, TypeOK, Statuses
<1>3. /\ exec'[i] = "left" /\ \A j \in Item \ {i} : exec'[j] = exec[j]
      /\ exec' \in [Item -> ExecPCs]
  BY <1>1 DEF TypeOK, ExecPCs
<1>4. Registered' = Registered /\ Registered \subseteq Item /\ \A j : DepsOf(j)' = DepsOf(j)
  BY <1>1, SameDeps, DepsType
<1>5. TypeOK'
  BY <1>1, <1>2, <1>3, <1>4 DEF TypeOK
<1>6. PhaseInv' /\ StageInv'
  BY <1>1, <1>2, <1>3, <1>4 DEF PhaseInv, StageInv
<1>7. IndexInv' /\ StartInv'
  <2>1. \A j \in Registered : Busy(j)' => Busy(j)
    BY <1>1, <1>3, <1>4 DEF Busy
  <2>. QED  BY <1>1, <2>1, NobodyStarts
<1>8. PolledInv'
  <2>1. ASSUME NEW u \in Task, Delivered(u) PROVE Delivered(u)'
    <3>1. last' \in Nat /\ last' >= last
      BY <1>1 DEF TypeOK
    <3>2. \A j \in Registered : /\ taskOf'[j] = taskOf[j]
                                /\ reworks'[j] \in Nat /\ reworks'[j] >= reworks[j]
                                /\ status[j] = "DONE" => status'[j] = "DONE"
      BY <1>1, <1>2, <1>4 DEF TypeOK
    <3>. QED  BY <2>1, <3>1, <3>2, DeliveredStays
  <2>2. \A j \in Registered : \A k \in DOMAIN DepsOf(j) : DepsOf(j)[k] \in Task
    BY DepsType
  <2>. QED  BY <1>1, <1>3, <1>4, <2>1, <2>2 DEF PolledInv
<1>. QED  BY <1>5, <1>6, <1>7, <1>8

(* An execution that cannot load its agent's DNA leaves no item behind.     *)
LEMMA LoadFailsStep ==
  ASSUME LInv, NEW t \in Task, LoadFails(t)
  PROVE  LInv'
<1>. USE DEF LInv
<1>1. /\ UNCHANGED <<maxAttempts, last, index, taskOf, reworks, status, exec, dep, review, sched>>
      /\ starting' = [starting EXCEPT ![t] = @ - 1] /\ starting[t] > 0
  BY DEF LoadFails, itemVars
<1>2. /\ Registered' = Registered /\ (\A j : DepsOf(j)' = DepsOf(j))
      /\ \A u : Of(u)' = Of(u) /\ (Delivered(u)' <=> Delivered(u))
  BY <1>1, SameDeps DEF Of, Delivered
<1>3. \A j : Busy(j)' <=> Busy(j)
  BY <1>1 DEF Busy
<1>4. starting[t] = 1 /\ starting'[t] = 0 /\ \A u \in Task \ {t} : starting'[u] = starting[u]
  BY <1>1 DEF StartInv, TypeOK
<1>5. starting' \in [Task -> Nat]
  BY <1>1, <1>4 DEF TypeOK
<1>6. TypeOK'
  BY <1>1, <1>2, <1>5 DEF TypeOK
<1>7. PhaseInv' /\ StageInv' /\ PolledInv'
  BY <1>1, <1>2 DEF PhaseInv, StageInv, PolledInv
<1>8. IndexInv'
  BY <1>1, <1>2, <1>3 DEF IndexInv
<1>9. StartInv'
  BY <1>2, <1>3, <1>4 DEF StartInv
<1>. QED  BY <1>6, <1>7, <1>8, <1>9

-------------------------------------------------------------------------------
(* A step of the review or of the rework of item i that makes nobody busy   *)
(* and starts no execution keeps the invariant.                             *)
LEMMA AfterStep ==
  ASSUME LInv, NEW i \in Item,
         exec[i] \in {"updating", "left"},
         UNCHANGED <<maxAttempts, last, index, taskOf, execVars>>,
         status' \in [Item -> Statuses], reworks' \in [Item -> Nat],
         review' \in [Item -> ReviewPCs], sched' \in [Item -> SchedPCs],
         \A j \in Item \ {i} : /\ status'[j] = status[j] /\ reworks'[j] = reworks[j]
                             /\ review'[j] = review[j] /\ sched'[j] = sched[j],
         reworks'[i] >= reworks[i],
         status[i] = "DONE" => status'[i] = "DONE" \/ reworks'[i] > 0,
         review'[i] # "over" => sched'[i] = "none",
         Busy(i)
  PROVE  LInv'
<1>. USE DEF LInv
<1>1. Registered' = Registered /\ Registered \subseteq Item /\ \A j : DepsOf(j)' = DepsOf(j)
  BY SameDeps, DepsType
<1>2. UNCHANGED <<starting, exec, dep>>
  BY DEF execVars
<1>3. TypeOK'
  BY <1>1, <1>2 DEF TypeOK
<1>4. PhaseInv'
  BY <1>1, <1>2 DEF PhaseInv
<1>5. StageInv'
  BY <1>2 DEF StageInv
<1>6. IndexInv' /\ StartInv'
  <2>1. \A j \in Registered : Busy(j)' => Busy(j)
    BY <1>1, <1>2 DEF Busy
  <2>. QED  BY <1>2, <2>1, NobodyStarts
<1>7. PolledInv'
  <2>1. ASSUME NEW u \in Task, Delivered(u) PROVE Delivered(u)'
    <3>1. last' \in Nat /\ last' >= last
      BY DEF TypeOK
    <3>2. \A j \in Registered : /\ taskOf'[j] = taskOf[j]
                                /\ reworks'[j] \in Nat /\ reworks'[j] >= reworks[j]
                                /\ status[j] = "DONE" => status'[j] = "DONE" \/ reworks'[j] > 0
      BY <1>1 DEF TypeOK
    <3>. QED  BY <2>1, <3>1, <3>2, DeliveredStays
  <2>2. \A j \in Registered : \A k \in DOMAIN DepsOf(j) : DepsOf(j)[k] \in Task
    BY DepsType
  <2>. QED  BY <1>1, <1>2, <2>1, <2>2 DEF PolledInv
<1>. QED  BY <1>3, <1>4, <1>5, <1>6, <1>7

(* The steps of a review.                                                   *)
LEMMA ReviewStep ==
  ASSUME LInv, NEW i \in Item, Review(i)
  PROVE  LInv'
<1>. USE DEF LInv
<1>0. /\ status \in [Item -> Statuses] /\ reworks \in [Item -> Nat]
      /\ review \in [Item -> ReviewPCs] /\ sched \in [Item -> SchedPCs]
  BY DEF TypeOK
<1>1. /\ review[i] \in {"reviewing", "settled"} \union Verdicts
      /\ UNCHANGED <<maxAttempts, last, index, taskOf, execVars, reworks>>
  BY DEF Review, Judge, Conclude, RequestRework, itemVars
<1>2. exec[i] \in {"updating", "left"} /\ sched[i] = "none" /\ Busy(i)
  BY <1>1 DEF PhaseInv, Busy, Verdicts
<1>3. /\ status' \in [Item -> Statuses]
      /\ \A j \in Item \ {i} : status'[j] = status[j]
      /\ status[i] = "DONE" => status'[i] = "DONE"
  BY <1>0 DEF Review, Judge, Conclude, RequestRework, Allowed, Statuses
<1>4. /\ review' \in [Item -> ReviewPCs] /\ sched' \in [Item -> SchedPCs]
      /\ \A j \in Item \ {i} : review'[j] = review[j] /\ sched'[j] = sched[j]
      /\ review'[i] # "over" => sched'[i] = "none"
  <2>1. CASE Judge(i)
    BY <1>0, <1>2, <2>1 DEF Judge, ReviewGoto, ReviewPCs, Verdicts
  <2>2. CASE Conclude(i)
    BY <1>0, <1>2, <2>2 DEF Conclude, ReviewGoto, ReviewPCs, Verdicts
  <2>3. CASE RequestRework(i)
    BY <1>0, <1>2, <2>3 DEF RequestRework, ReviewGoto, ReviewPCs, SchedPCs
  <2>. QED  BY <2>1, <2>2, <2>3 DEF Review
<1>5. reworks'[i] >= reworks[i] /\ reworks' = reworks
  BY <1>0, <1>1
<1>. QED  BY <1>0, <1>1, <1>2, <1>3, <1>4, <1>5, AfterStep

(* Reexecute hands the task over to a new execution.                        *)
LEMMA ReexecuteStep ==
  ASSUME LInv, NEW i \in Item, Reexecute(i)
  PROVE  LInv'
<1>. USE DEF LInv
<1>. DEFINE t == taskOf[i]
<1>1. /\ sched[i] = "reopened" /\ sched' = [sched EXCEPT ![i] = "over"]
      /\ starting' = [starting EXCEPT ![t] = @ + 1]
      /\ UNCHANGED <<maxAttempts, last, index, taskOf, reworks, status, exec, dep, review>>
  BY DEF Reexecute, SchedGoto, itemVars
<1>2. /\ exec[i] \in {"updating", "left"} /\ review[i] = "over" /\ Busy(i)
      /\ i \in Registered /\ t \in Task /\ i \in Of(t)
  <2>1. exec[i] \in {"updating", "left"} /\ review[i] = "over" /\ Busy(i) /\ i \in Registered
    BY <1>1 DEF PhaseInv, Busy
  <2>. QED  BY <2>1, DepsType DEF Of
<1>3. starting[t] = 0 /\ starting'[t] = 1 /\ \A u \in Task \ {t} : starting'[u] = starting[u]
  BY <1>1, <1>2 DEF StartInv, TypeOK
<1>4. Registered' = Registered /\ (\A j : DepsOf(j)' = DepsOf(j)) /\ \A u : Of(u)' = Of(u)
  BY <1>1, SameDeps DEF Of
<1>5. TypeOK'
  BY <1>1, <1>3, <1>4 DEF TypeOK, SchedPCs
<1>6. PhaseInv' /\ StageInv'
  BY <1>1, <1>2, <1>4 DEF PhaseInv, StageInv, TypeOK
<1>7. ~Busy(i)' /\ \A j \in Registered : Busy(j)' => Busy(j)
  BY <1>1, <1>2 DEF Busy, TypeOK, Registered, Item
<1>8. IndexInv'
  BY <1>1, <1>4, <1>7 DEF IndexInv
<1>9. StartInv'
  <2>1. ASSUME NEW j \in Of(t) PROVE ~Busy(j)'
    BY <1>2, <1>7, <2>1 DEF IndexInv, Of
  <2>2. \A u \in Task : Of(u) \subseteq Registered
    BY DEF Of
  <2>. QED  BY <1>3, <1>4, <1>7, <2>1, <2>2 DEF StartInv
<1>10. PolledInv'
  BY <1>1, <1>4 DEF PolledInv, Delivered
<1>. QED  BY <1>5, <1>6, <1>8, <1>9, <1>10

(* The steps of the rework scheduler.                                       *)
LEMMA ReworkStep ==
  ASSUME LInv, NEW i \in Item, Rework(i)
  PROVE  LInv'
<1>. USE DEF LInv
<1>0. /\ status \in [Item -> Statuses] /\ reworks \in [Item -> Nat]
      /\ review \in [Item -> ReviewPCs] /\ sched \in [Item -> SchedPCs]
  BY DEF TypeOK
<1>1. CASE GiveUp(i)
  <2>1. exec[i] \in {"updating", "left"} /\ review[i] = "over" /\ Busy(i)
    BY <1>1 DEF GiveUp, PhaseInv, Busy
  <2>2. /\ status' \in [Item -> Statuses]
        /\ \A j \in Item \ {i} : status'[j] = status[j]
        /\ status[i] = "DONE" => status'[i] = "DONE"
    BY <1>0, <1>1 DEF GiveUp, Allowed, Statuses
  <2>3. sched' \in [Item -> SchedPCs] /\ \A j \in Item \ {i} : sched'[j] = sched[j]
    BY <1>0, <1>1 DEF GiveUp, SchedGoto, SchedPCs
  <2>4. UNCHANGED <<maxAttempts, last, index, taskOf, execVars, reworks, review>>
    BY <1>1 DEF GiveUp, itemVars
  <2>5. reworks'[i] >= reworks[i]
    BY <1>0, <2>4
  <2>. QED  BY <1>0, <2>1, <2>2, <2>3, <2>4, <2>5, AfterStep
<1>2. CASE Reopen(i)
  <2>1. exec[i] \in {"updating", "left"} /\ review[i] = "over" /\ Busy(i)
    BY <1>2 DEF Reopen, PhaseInv, Busy
  <2>2. /\ status' \in [Item -> Statuses] /\ reworks' \in [Item -> Nat]
        /\ \A j \in Item \ {i} : status'[j] = status[j] /\ reworks'[j] = reworks[j]
        /\ reworks'[i] >= reworks[i]
        /\ status[i] = "DONE" => reworks'[i] > 0
    BY <1>0, <1>2 DEF Reopen, Statuses
  <2>3. sched' \in [Item -> SchedPCs] /\ \A j \in Item \ {i} : sched'[j] = sched[j]
    BY <1>0, <1>2 DEF Reopen, SchedGoto, SchedPCs
  <2>4. UNCHANGED <<maxAttempts, last, index, taskOf, execVars, review>>
    BY <1>2 DEF Reopen
  <2>. QED  BY <1>0, <2>1, <2>2, <2>3, <2>4, AfterStep
<1>3. CASE Reexecute(i)
  BY <1>3, ReexecuteStep
<1>. QED  BY <1>1, <1>2, <1>3 DEF Rework

(* The loop of execution, review and rework never leaves the invariant.     *)
THEOREM LoopInvariant == Spec => []LInv
<1>1. Init => LInv
  BY LoopInit
<1>2. LInv /\ [Next]_vars => LInv'
  <2>. SUFFICES ASSUME LInv, [Next]_vars PROVE LInv'
    OBVIOUS
  <2>1. CASE UNCHANGED vars
    <3>1. /\ UNCHANGED <<maxAttempts, starting, last, index, taskOf, status, reworks, exec, dep, review, sched>>
          /\ Registered' = Registered /\ (\A j : DepsOf(j)' = DepsOf(j)) /\ (\A u : Of(u)' = Of(u))
      BY <2>1, SameDeps DEF vars, itemVars, execVars, Of
    <3>2. (\A j : Busy(j)' <=> Busy(j)) /\ (\A u : Delivered(u)' <=> Delivered(u))
      BY <3>1 DEF Busy, Delivered
    <3>. QED  BY <3>1, <3>2 DEF LInv, TypeOK, PhaseInv, IndexInv, StartInv, StageInv, PolledInv
  <2>. QED  BY <2>1, RegisterStep, LoadFailsStep, WorkStep, UpdateStep, ReviewStep, ReworkStep
            DEF Next, Execute
<1>. QED  BY <1>1, <1>2, PTL DEF Spec

(* Every variable of the loop has its type.                                 *)
THEOREM LoopTyping == Spec => []TypeOK
<1>1. LInv => TypeOK
  BY DEF LInv
<1>. QED  BY <1>1, LoopInvariant, PTL

(* No task is ever in the hands of two actors (an execution, a review, a    *)
(* rework), although every step of the loop only creates a coroutine.       *)
THEOREM NobodyTwice == Spec => []OneActorPerTask
<1>1. LInv => OneActorPerTask
  <2>. SUFFICES ASSUME LInv, NEW t \in Task
                PROVE  starting[t] + Cardinality({i \in Of(t) : Busy(i)}) <= 1
    BY DEF OneActorPerTask
  <2>. DEFINE B == {i \in Of(t) : Busy(i)}
  <2>1. starting[t] \in {0, 1} /\ (starting[t] = 1 => B = {})
    BY DEF LInv, TypeOK, StartInv
  <2>2. \A i, j \in B : i = j
    BY DEF LInv, IndexInv, Of
  <2>3. B = {} \/ \E x : B = {x}
    BY <2>2
  <2>4. Cardinality(B) = 0 \/ (B # {} /\ Cardinality(B) = 1)
    BY <2>3, FS_EmptySet, FS_Singleton
  <2>. QED  BY <2>1, <2>4, FS_EmptySet
<1>. QED  BY <1>1, LoopInvariant, PTL

(* The count that handle_rework reads by task id is that of the item it     *)
(* reopens by item id.                                                      *)
THEOREM CountOfTheItem == Spec => []ReworkReadsItsItem
<1>1. LInv => ReworkReadsItsItem
  BY DEF LInv, IndexInv, Busy, ReworkReadsItsItem
<1>. QED  BY <1>1, LoopInvariant, PTL

(* No task is worked on before a result of each dependency was delivered.   *)
THEOREM BuiltOnResults == Spec => []NothingBuiltOnNothing
<1>1. LInv => NothingBuiltOnNothing
  BY DEF LInv, PolledInv, NothingBuiltOnNothing
<1>. QED  BY <1>1, LoopInvariant, PTL

-------------------------------------------------------------------------------
(* Who reviews a task: the theorems about ReviewerChoice, for every finite    *)
(* set of reviews, whoever did the tasks and whatever they were built on.     *)

(* Where the choices are: a review is scored, or not chosen yet, or chosen.  *)
TypedAt(r) ==
  /\ at[r] \in {"idle", "scoring", "fallback", "reviewing", "done", "lost"}
  /\ written[r] \subseteq Roles /\ unscored[r] \subseteq Roles /\ unread[r] \subseteq Roles
  /\ DOMAIN cost[r] \subseteq Roles
  /\ \A p \in DOMAIN cost[r] : cost[r][p] \in Nat
  /\ reviewer[r] \in Roles \union {None}
  /\ before[r] \in [Roles -> 0 .. Cardinality(Reviews)]
  /\ reviewer[r] = None <=> at[r] \in {"idle", "scoring", "fallback"}

ChoiceTyping ==
  /\ mode \in Modes /\ inRun \subseteq Roles
  /\ recent \in [Roles -> Nat]
  /\ at = [r \in Reviews |-> at[r]] /\ written = [r \in Reviews |-> written[r]]
  /\ unscored = [r \in Reviews |-> unscored[r]] /\ unread = [r \in Reviews |-> unread[r]]
  /\ cost = [r \in Reviews |-> cost[r]] /\ reviewer = [r \in Reviews |-> reviewer[r]]
  /\ before = [r \in Reviews |-> before[r]]

(* The counts of record_review are the reviews that are over.                *)
Counted == \A role \in Roles : recent[role] = IF mode = "dna_aware" THEN DoneBy(role) ELSE 0

(* While a review is scored, its candidates are scored, unread or to come.   *)
PartitionedAt(r) ==
  /\ at[r] = "scoring" =>
       /\ mode = "dna_aware"
       /\ DOMAIN cost[r] \subseteq Candidates(r)
       /\ unscored[r] \subseteq Candidates(r)
       /\ Candidates(r) \subseteq unscored[r] \union DOMAIN cost[r] \union unread[r]
  /\ at[r] # "scoring" => DOMAIN cost[r] = {}
  /\ at[r] = "fallback" /\ mode = "dna_aware" => Candidates(r) \subseteq unread[r]

(* A score counts its role's load no lower than it was when the scoring      *)
(* began, and no higher than it is now.                                      *)
WeighedAt(r) ==
  at[r] = "scoring" =>
    /\ \A p \in Roles : before[r][p] <= DoneBy(p)
    /\ \A p \in DOMAIN cost[r] :
         /\ Min(Handicaps) + PerReview * before[r][p] <= cost[r][p]
         /\ cost[r][p] <= Max(Handicaps) + PerReview * DoneBy(p) + Tier2

LastResortAt(r) ==
  reviewer[r] # None =>
    /\ reviewer[r] # Author[r]
    /\ mode = "dna_aware" /\ reviewer[r] \in Sources[r] => Candidates(r) \subseteq unread[r]

ChoiceAt(r) == TypedAt(r) /\ PartitionedAt(r) /\ WeighedAt(r) /\ LastResortAt(r)
ChoiceInv == ChoiceTyping /\ Counted /\ \A r \in Reviews : ChoiceAt(r)

HIDE ReviewAssumption
USE ChoiceAssumption

(* Counting the reviews that are over, or given to a role.                   *)
LEMMA DoneCounts ==
  ASSUME NEW role
  PROVE  /\ DoneBy(role) \in 0 .. Cardinality(Reviews)
         /\ Cardinality(GivenTo(role)) \in Nat /\ DoneBy(role) <= Cardinality(GivenTo(role))
<1>. DEFINE D == {r \in Reviews : at[r] = "done" /\ reviewer[r] = role}
<1>1. IsFiniteSet(Reviews) /\ Cardinality(Reviews) \in Nat
  BY FS_CardinalityType DEF ChoiceAssumption
<1>2. IsFiniteSet(GivenTo(role)) /\ Cardinality(GivenTo(role)) \in Nat
  <2>1. GivenTo(role) \in SUBSET Reviews
    BY DEF GivenTo
  <2>. QED  BY <1>1, <2>1, FS_Subset, FS_CardinalityType
<1>3. Cardinality(D) \in Nat /\ Cardinality(D) <= Cardinality(GivenTo(role))
  <2>1. D \in SUBSET GivenTo(role)
    BY DEF GivenTo
  <2>. HIDE DEF D
  <2>. QED  BY <1>2, <2>1, FS_Subset, FS_CardinalityType
<1>4. Cardinality(D) <= Cardinality(Reviews)
  <2>1. D \in SUBSET Reviews
    OBVIOUS
  <2>. HIDE DEF D
  <2>. QED  BY <1>1, <2>1, FS_Subset
<1>5. DoneBy(role) = Cardinality(D)
  BY DEF DoneBy
<1>. QED  BY ONLY <1>1, <1>2, <1>3, <1>4, <1>5

(* Nothing costs less than the least handicap, or more than the greatest.    *)
LEMMA Extremes ==
  /\ Min(Handicaps) \in Nat /\ Max(Handicaps) \in Nat
  /\ \A h \in Handicaps : h \in Nat /\ Min(Handicaps) <= h /\ h <= Max(Handicaps)
<1>1. PICK least \in Handicaps, most \in Handicaps : \A h \in Handicaps : least <= h /\ h <= most
  BY DEF ChoiceAssumption
<1>2. Handicaps \subseteq Nat
  BY DEF ChoiceAssumption
<1>3. Min(Handicaps) \in Handicaps /\ \A h \in Handicaps : Min(Handicaps) <= h
  BY <1>1 DEF Min
<1>4. Max(Handicaps) \in Handicaps /\ \A h \in Handicaps : Max(Handicaps) >= h
  <2>1. \A h \in Handicaps : most >= h
    BY <1>1, <1>2
  <2>. QED  BY <2>1 DEF Max
<1>. QED  BY <1>2, <1>3, <1>4

(* The best of the scores is one of them, and none is lower.                 *)
LEMMA BestIs ==
  ASSUME NEW r, DOMAIN cost[r] \subseteq Roles, DOMAIN cost[r] # {},
         \A p \in DOMAIN cost[r] : cost[r][p] \in Nat
  PROVE  Best(r) \in DOMAIN cost[r] /\ \A q \in DOMAIN cost[r] : cost[r][Best(r)] <= cost[r][q]
<1>1. \E p \in DOMAIN cost[r] : \A q \in DOMAIN cost[r] : Better(r, p, q)
  <2>1. \A p, q \in DOMAIN cost[r] : Better(r, p, q) \/ Better(r, q, p)
    BY DEF Roles, Better, Alphabetical
  <2>2. \A p, q, s \in DOMAIN cost[r] : Better(r, p, q) /\ Better(r, q, s) => Better(r, p, s)
    BY DEF Roles, Better, Alphabetical
  <2>3. PICK D : D = DOMAIN cost[r]
    OBVIOUS
  <2>4. PICK f \in D : TRUE
    BY <2>3
  <2>5. \A q \in D : q \in {"backend", "frontend", "mlops"}
    BY <2>3 DEF Roles
  <2>6. \A p \in D : Better(r, p, p)
    BY <2>1, <2>3
  <2>7. PICK b \in D : /\ "backend" \in D => Better(r, b, "backend")
                       /\ "frontend" \in D => Better(r, b, "frontend")
    BY <2>1, <2>3, <2>4, <2>6
  <2>8. PICK c \in D : /\ Better(r, c, b)
                       /\ "mlops" \in D => Better(r, c, "mlops")
    BY <2>1, <2>3, <2>6, <2>7
  <2>9. \A q \in D : Better(r, c, q)
    <3>. TAKE q \in D
    <3>1. CASE q = "mlops"
      BY <2>8, <3>1
    <3>2. CASE q # "mlops"
      <4>1. Better(r, b, q)
        BY <2>5, <2>7, <3>2
      <4>. QED  BY <2>2, <2>3, <2>8, <4>1
    <3>. QED  BY <3>1, <3>2
  <2>. QED  BY <2>3, <2>9
<1>2. Best(r) \in DOMAIN cost[r] /\ \A q \in DOMAIN cost[r] : Better(r, Best(r), q)
  BY <1>1 DEF Best
<1>. QED  BY <1>2 DEF Better

(* A step of review r leaves every other as it is: the invariant holds of    *)
(* them still, because loads only grow.                                      *)
Elsewhere(r) ==
  \A o \in Reviews \ {r} :
    /\ at'[o] = at[o] /\ written'[o] = written[o] /\ unscored'[o] = unscored[o]
    /\ unread'[o] = unread[o] /\ cost'[o] = cost[o] /\ reviewer'[o] = reviewer[o]
    /\ before'[o] = before[o]

LEMMA OthersKeep ==
  ASSUME ChoiceInv, NEW r \in Reviews, Elsewhere(r), mode' = mode,
         \A role \in Roles : DoneBy(role)' \in Nat /\ DoneBy(role) <= DoneBy(role)',
         ChoiceTyping', Counted', ChoiceAt(r)'
  PROVE  ChoiceInv'
<1>1. ASSUME NEW o \in Reviews \ {r} PROVE ChoiceAt(o)'
  <2>1. /\ at'[o] = at[o] /\ written'[o] = written[o] /\ unscored'[o] = unscored[o]
        /\ unread'[o] = unread[o] /\ cost'[o] = cost[o] /\ reviewer'[o] = reviewer[o]
        /\ before'[o] = before[o]
    BY DEF Elsewhere
  <2>2. TypedAt(o) /\ PartitionedAt(o) /\ WeighedAt(o) /\ LastResortAt(o)
    BY DEF ChoiceInv, ChoiceAt
  <2>3. TypedAt(o)' /\ PartitionedAt(o)' /\ LastResortAt(o)'
    BY <2>1, <2>2 DEF TypedAt, PartitionedAt, LastResortAt, Candidates
  <2>4. WeighedAt(o)'
    <3>. SUFFICES ASSUME at[o] = "scoring"
         PROVE  /\ \A p \in Roles : before[o][p] <= DoneBy(p)'
                /\ \A p \in DOMAIN cost[o] :
                     /\ Min(Handicaps) + PerReview * before[o][p] <= cost[o][p]
                     /\ cost[o][p] <= Max(Handicaps) + PerReview * DoneBy(p)' + Tier2
      BY <2>1 DEF WeighedAt
    <3>1. ASSUME NEW p \in Roles
          PROVE  before[o][p] \in Nat /\ DoneBy(p) \in Nat /\ DoneBy(p)' \in Nat
                 /\ DoneBy(p) <= DoneBy(p)' /\ before[o][p] <= DoneBy(p)
      BY <2>2, DoneCounts DEF TypedAt, WeighedAt
    <3>2. ASSUME NEW p \in DOMAIN cost[o]
          PROVE  /\ Min(Handicaps) + PerReview * before[o][p] <= cost[o][p]
                 /\ cost[o][p] <= Max(Handicaps) + PerReview * DoneBy(p)' + Tier2
      <4>1. p \in Roles /\ cost[o][p] \in Nat
        BY <2>2 DEF TypedAt
      <4>2. /\ Min(Handicaps) + PerReview * before[o][p] <= cost[o][p]
            /\ cost[o][p] <= Max(Handicaps) + PerReview * DoneBy(p) + Tier2
        BY <2>2 DEF WeighedAt
      <4>3. Max(Handicaps) \in Nat
        BY Extremes
      <4>4. \A a, b, c, m \in Nat : a <= b /\ c <= m + 200 * a + 357 => c <= m + 200 * b + 357
        OBVIOUS
      <4>5. DoneBy(p) \in Nat /\ DoneBy(p)' \in Nat /\ DoneBy(p) <= DoneBy(p)'
        BY <3>1, <4>1
      <4>. QED  BY <4>1, <4>2, <4>3, <4>4, <4>5 DEF PerReview, Tier2
    <3>. QED  BY <3>1, <3>2
  <2>. QED  BY <2>3, <2>4 DEF ChoiceAt
<1>. QED  BY <1>1 DEF ChoiceInv

(* A step that ends no review leaves the loads as they are.                  *)
LEMMA SameLoads ==
  ASSUME ChoiceInv, NEW r \in Reviews, Elsewhere(r), mode' = mode,
         recent' = recent, at[r] # "done", at'[r] # "done"
  PROVE  /\ \A role \in Roles : DoneBy(role)' = DoneBy(role) /\ DoneBy(role) \in Nat
         /\ Counted'
<1>1. ASSUME NEW role \in Roles PROVE DoneBy(role)' = DoneBy(role) /\ DoneBy(role) \in Nat
  <2>1. {o \in Reviews : at'[o] = "done" /\ reviewer'[o] = role} =
        {o \in Reviews : at[o] = "done" /\ reviewer[o] = role}
    BY DEF Elsewhere
  <2>2. DoneBy(role)' = DoneBy(role)
    BY <2>1 DEF DoneBy
  <2>3. DoneBy(role) \in Nat
    BY ONLY DoneCounts
  <2>. QED  BY <2>2, <2>3
<1>2. Counted'
  BY <1>1 DEF ChoiceInv, Counted
<1>. QED  BY <1>1, <1>2

(* The first state.                                                          *)
LEMMA ChoiceBegins == ASSUME ChoiceInit PROVE ChoiceInv
<1>1. \A role \in Roles : DoneBy(role) = 0
  <2>1. ASSUME NEW role \in Roles
        PROVE  {r \in Reviews : at[r] = "done" /\ reviewer[r] = role} = {}
    BY DEF ChoiceInit
  <2>. QED  BY <2>1, FS_EmptySet DEF DoneBy
<1>2. Counted
  BY <1>1 DEF ChoiceInit, Counted
<1>3. ChoiceTyping
  BY DEF ChoiceInit, ChoiceTyping
<1>4. ASSUME NEW r \in Reviews PROVE ChoiceAt(r)
  <2>1. Cardinality(Reviews) \in Nat
    BY FS_CardinalityType DEF ChoiceAssumption
  <2>2. /\ at[r] = "idle" /\ written[r] = {} /\ unscored[r] = {} /\ unread[r] = {}
        /\ DOMAIN cost[r] = {} /\ reviewer[r] = None
        /\ before[r] = [role \in Roles |-> 0]
    BY DEF ChoiceInit
  <2>. QED  BY <2>1, <2>2 DEF ChoiceAt, TypedAt, PartitionedAt, WeighedAt, LastResortAt, None
<1>. QED  BY <1>2, <1>3, <1>4 DEF ChoiceInv

(* A review begins, and its candidates are to be scored.                     *)
LEMMA BeginKeeps ==
  ASSUME ChoiceInv, NEW r \in Reviews, Begin(r)
  PROVE  ChoiceInv'
<1>. USE DEF ChoiceInv
<1>1. /\ at[r] = "idle" /\ mode' = mode /\ recent' = recent
      /\ at'[r] = (IF mode = "fixed" THEN "fallback" ELSE "scoring")
      /\ unscored'[r] = (IF mode = "fixed" THEN {} ELSE Candidates(r))
      /\ written'[r] \subseteq Roles /\ inRun' \subseteq Roles
      /\ cost'[r] = cost[r] /\ reviewer'[r] = reviewer[r] /\ unread'[r] = unread[r]
      /\ before'[r] = [role \in Roles |-> DoneBy(role)]
      /\ Elsewhere(r)
  BY DEF Begin, ChoiceTyping, Elsewhere, ChoiceAssumption
<1>2. ChoiceTyping'
  BY <1>1 DEF Begin, ChoiceTyping
<1>3. at'[r] # "done" /\ mode \in Modes
  BY <1>1 DEF ChoiceTyping
<1>4. /\ \A role \in Roles : DoneBy(role)' = DoneBy(role) /\ DoneBy(role) \in Nat
      /\ Counted'
  BY <1>1, <1>3, SameLoads
<1>5. TypedAt(r) /\ PartitionedAt(r) /\ reviewer[r] = None /\ DOMAIN cost[r] = {}
  BY <1>1 DEF ChoiceAt, TypedAt, PartitionedAt
<1>6. before'[r] \in [Roles -> 0 .. Cardinality(Reviews)]
  BY <1>1, DoneCounts
<1>7. Candidates(r) \subseteq Roles
  BY DEF Candidates
<1>8. TypedAt(r)'
  BY <1>1, <1>5, <1>6, <1>7 DEF TypedAt
<1>9. PartitionedAt(r)'
  BY <1>1, <1>3, <1>5 DEF PartitionedAt, Modes, Candidates
<1>10. WeighedAt(r)' /\ LastResortAt(r)'
  BY <1>1, <1>4, <1>5 DEF WeighedAt, LastResortAt
<1>11. ChoiceAt(r)' /\ \A role \in Roles : DoneBy(role)' \in Nat /\ DoneBy(role) <= DoneBy(role)'
  BY <1>4, <1>8, <1>9, <1>10 DEF ChoiceAt
<1>. QED  BY <1>1, <1>2, <1>4, <1>11, OthersKeep

(* One candidate is scored, or its DNA cannot be read.                       *)
LEMMA ScoreKeeps ==
  ASSUME ChoiceInv, NEW r \in Reviews, Score(r)
  PROVE  ChoiceInv'
<1>. USE DEF ChoiceInv
<1>1. PICK role \in unscored[r] :
        /\ unscored' = [unscored EXCEPT ![r] = @ \ {role}]
        /\ \/ /\ \E h \in Handicaps :
                   cost' = [cost EXCEPT ![r] = [q \in DOMAIN @ \union {role} |->
                              IF q = role THEN Cost(r, role, h) ELSE @[q]]]
              /\ UNCHANGED unread
           \/ /\ unread' = [unread EXCEPT ![r] = @ \union {role}]
              /\ UNCHANGED cost
  BY DEF Score
<1>2. /\ at[r] = "scoring" /\ mode' = mode /\ recent' = recent /\ at' = at /\ inRun' = inRun
      /\ written' = written /\ reviewer' = reviewer /\ before' = before
      /\ unscored'[r] = unscored[r] \ {role}
      /\ Elsewhere(r)
  BY <1>1 DEF Score, ChoiceTyping, Elsewhere
<1>3. ChoiceTyping'
  BY <1>1, <1>2 DEF ChoiceTyping
<1>4. /\ \A q \in Roles : DoneBy(q)' = DoneBy(q) /\ DoneBy(q) \in Nat
      /\ Counted'
  BY <1>2, SameLoads
<1>5. TypedAt(r) /\ PartitionedAt(r) /\ WeighedAt(r) /\ LastResortAt(r)
  BY DEF ChoiceAt
<1>6. role \in Candidates(r) /\ role \in Roles /\ mode = "dna_aware" /\ reviewer[r] = None
  BY <1>2, <1>5 DEF PartitionedAt, TypedAt
<1>7. LastResortAt(r)'
  BY <1>2, <1>6 DEF LastResortAt
<1>8. CASE unread' = [unread EXCEPT ![r] = @ \union {role}] /\ UNCHANGED cost
  <2>1. unread'[r] = unread[r] \union {role} /\ cost'[r] = cost[r]
    BY <1>8 DEF ChoiceTyping
  <2>2. TypedAt(r)' /\ PartitionedAt(r)'
    BY <1>2, <1>5, <1>6, <2>1 DEF TypedAt, PartitionedAt, Candidates
  <2>3. WeighedAt(r)'
    BY <1>2, <1>4, <1>5, <2>1 DEF WeighedAt, TypedAt
  <2>4. ChoiceAt(r)'
    BY <1>7, <2>2, <2>3 DEF ChoiceAt
  <2>. QED  BY <1>2, <1>3, <1>4, <2>4, OthersKeep
<1>9. CASE /\ \E h \in Handicaps :
                cost' = [cost EXCEPT ![r] = [q \in DOMAIN @ \union {role} |->
                           IF q = role THEN Cost(r, role, h) ELSE @[q]]]
           /\ UNCHANGED unread
  <2>1. PICK h \in Handicaps :
          cost' = [cost EXCEPT ![r] = [q \in DOMAIN @ \union {role} |->
                     IF q = role THEN Cost(r, role, h) ELSE @[q]]]
    BY <1>9
  <2>2. /\ cost'[r] = [q \in DOMAIN cost[r] \union {role} |->
                         IF q = role THEN Cost(r, role, h) ELSE cost[r][q]]
        /\ unread'[r] = unread[r]
    BY <1>9, <2>1 DEF ChoiceTyping
  <2>3. /\ DOMAIN cost'[r] = DOMAIN cost[r] \union {role}
        /\ cost'[r][role] = Cost(r, role, h)
        /\ \A q \in DOMAIN cost'[r] : q # role => q \in DOMAIN cost[r] /\ cost'[r][q] = cost[r][q]
    BY <2>2
  <2>4. /\ h \in Nat /\ Min(Handicaps) <= h /\ h <= Max(Handicaps)
        /\ Min(Handicaps) \in Nat /\ Max(Handicaps) \in Nat
    BY Extremes
  <2>5. recent[role] = DoneBy(role) /\ DoneBy(role) \in Nat
    BY <1>4, <1>6 DEF Counted
  <2>6. before[r][role] \in Nat /\ before[r][role] <= DoneBy(role)
    BY <1>2, <1>5, <1>6 DEF TypedAt, WeighedAt
  <2>7. /\ Cost(r, role, h) \in Nat
        /\ Min(Handicaps) + PerReview * before[r][role] <= Cost(r, role, h)
        /\ Cost(r, role, h) <= Max(Handicaps) + PerReview * DoneBy(role) + Tier2
    <3>1. PICK b \in Nat : b = before[r][role]
      BY <2>6
    <3>2. PICK d \in Nat : d = DoneBy(role)
      BY <2>5
    <3>3. PICK e \in {0, 357} : e = (IF role \in written[r] THEN Tier2 ELSE 0)
      BY DEF Tier2
    <3>4. Cost(r, role, h) = h + 200 * d + e
      BY <2>5, <3>2, <3>3 DEF Cost, PerReview
    <3>5. h + 200 * d + e \in Nat /\ Min(Handicaps) + 200 * b <= h + 200 * d + e
          /\ h + 200 * d + e <= Max(Handicaps) + 200 * d + 357
      <4>1. PICK least \in Nat, most \in Nat : least = Min(Handicaps) /\ most = Max(Handicaps)
        BY <2>4
      <4>2. h \in Nat /\ least <= h /\ h <= most /\ b <= d
        BY <2>4, <2>6, <3>1, <3>2, <4>1
      <4>3. h + 200 * d + e \in Nat /\ least + 200 * b <= h + 200 * d + e
            /\ h + 200 * d + e <= most + 200 * d + 357
        BY <4>2
      <4>. QED  BY <4>1, <4>3
    <3>. QED  BY <3>1, <3>2, <3>4, <3>5 DEF PerReview, Tier2
  <2>8. TypedAt(r)'
    BY <1>2, <1>5, <1>6, <2>2, <2>3, <2>7 DEF TypedAt
  <2>9. PartitionedAt(r)'
    BY <1>2, <1>5, <1>6, <2>2, <2>3 DEF PartitionedAt, Candidates
  <2>10. WeighedAt(r)'
    <3>1. \A p \in Roles : before'[r][p] <= DoneBy(p)'
      BY <1>2, <1>4, <1>5 DEF WeighedAt
    <3>2. ASSUME NEW p \in DOMAIN cost'[r]
          PROVE  /\ Min(Handicaps) + PerReview * before[r][p] <= cost'[r][p]
                 /\ cost'[r][p] <= Max(Handicaps) + PerReview * DoneBy(p) + Tier2
      <4>1. CASE p = role
        BY <2>3, <2>7, <4>1
      <4>2. CASE p # role
        BY <1>2, <1>5, <2>3, <4>2 DEF WeighedAt
      <4>. QED  BY <4>1, <4>2
    <3>3. \A p \in DOMAIN cost'[r] : DoneBy(p)' = DoneBy(p)
      BY <1>4, <1>5, <1>6, <2>3 DEF TypedAt
    <3>. QED  BY <1>2, <3>1, <3>2, <3>3 DEF WeighedAt
  <2>. QED  BY <1>2, <1>3, <1>4, <1>7, <2>8, <2>9, <2>10, OthersKeep DEF ChoiceAt
<1>. QED  BY <1>1, <1>8, <1>9

(* A reviewer is chosen who is no conflict, or the last resort.              *)
LEMMA ChosenKeeps ==
  ASSUME ChoiceInv, NEW r \in Reviews, NEW role \in Roles,
         at[r] \in {"scoring", "fallback"}, Chosen(r, role),
         UNCHANGED <<mode, inRun, recent, unscored, unread>>, role # Author[r],
         mode = "dna_aware" /\ role \in Sources[r] => Candidates(r) \subseteq unread[r]
  PROVE  ChoiceInv'
<1>. USE DEF ChoiceInv
<1>1. /\ at'[r] = "reviewing" /\ reviewer'[r] = role /\ written'[r] = {} /\ DOMAIN cost'[r] = {}
      /\ before'[r] = [q \in Roles |-> 0] /\ unscored'[r] = unscored[r] /\ unread'[r] = unread[r]
      /\ mode' = mode /\ recent' = recent
      /\ Elsewhere(r)
  BY DEF Chosen, ChoiceTyping, Elsewhere
<1>2. ChoiceTyping'
  BY DEF Chosen, ChoiceTyping
<1>3. at[r] # "done" /\ at'[r] # "done"
  BY <1>1
<1>4. /\ \A q \in Roles : DoneBy(q)' = DoneBy(q) /\ DoneBy(q) \in Nat
      /\ Counted'
  BY <1>1, <1>3, SameLoads
<1>5. role # None
  BY DEF Roles, None
<1>6. Cardinality(Reviews) \in Nat
  BY FS_CardinalityType DEF ChoiceAssumption
<1>7. TypedAt(r)'
  BY <1>1, <1>5, <1>6 DEF ChoiceAt, TypedAt
<1>8. ChoiceAt(r)'
  BY <1>1, <1>7 DEF ChoiceAt, PartitionedAt, WeighedAt, LastResortAt, Candidates
<1>9. \A q \in Roles : DoneBy(q)' \in Nat /\ DoneBy(q) <= DoneBy(q)'
  BY <1>4
<1>. QED  BY <1>1, <1>2, <1>4, <1>8, <1>9, OthersKeep

(* Everybody has been scored: the best is chosen, or there is none.          *)
LEMMA SelectKeeps ==
  ASSUME ChoiceInv, NEW r \in Reviews, Select(r)
  PROVE  ChoiceInv'
<1>. USE DEF ChoiceInv
<1>1. /\ at[r] = "scoring" /\ unscored[r] = {} /\ UNCHANGED <<mode, inRun, recent, unscored, unread>>
  BY DEF Select
<1>2. TypedAt(r) /\ PartitionedAt(r) /\ WeighedAt(r) /\ LastResortAt(r)
  BY DEF ChoiceAt
<1>3. CASE DOMAIN cost[r] # {} /\ Chosen(r, Best(r))
  <2>1. Best(r) \in DOMAIN cost[r]
    BY <1>2, <1>3, BestIs DEF TypedAt
  <2>2. Best(r) \in Roles /\ Best(r) # Author[r] /\ Best(r) \notin Sources[r]
    BY <1>1, <1>2, <2>1 DEF PartitionedAt, Candidates
  <2>. QED  BY <1>1, <1>3, <2>2, ChosenKeeps
<1>4. CASE /\ DOMAIN cost[r] = {} /\ at' = [at EXCEPT ![r] = "fallback"]
           /\ UNCHANGED <<written, cost, reviewer, before>>
  <2>1. at'[r] = "fallback" /\ Elsewhere(r)
    BY <1>1, <1>4 DEF ChoiceTyping, Elsewhere
  <2>2. ChoiceTyping'
    BY <1>1, <1>4 DEF ChoiceTyping
  <2>3. at'[r] # "done" /\ at[r] # "done" /\ mode' = mode /\ recent' = recent
    BY <1>1, <2>1
  <2>4. /\ \A q \in Roles : DoneBy(q)' = DoneBy(q) /\ DoneBy(q) \in Nat
        /\ Counted'
    BY <2>1, <2>3, SameLoads
  <2>5. Candidates(r) \subseteq unread[r]
    BY <1>1, <1>2, <1>4 DEF PartitionedAt
  <2>6. ChoiceAt(r)'
    BY <1>1, <1>2, <1>4, <2>1, <2>5
       DEF ChoiceAt, TypedAt, PartitionedAt, WeighedAt, LastResortAt, Candidates
  <2>7. \A q \in Roles : DoneBy(q)' \in Nat /\ DoneBy(q) <= DoneBy(q)'
    BY <2>4
  <2>. QED  BY <2>1, <2>2, <2>3, <2>4, <2>6, <2>7, OthersKeep
<1>. QED  BY <1>3, <1>4 DEF Select

(* Nobody could be scored: the reviewer is a suggestion, or the fixed one.   *)
LEMMA SelectFallbackKeeps ==
  ASSUME ChoiceInv, NEW r \in Reviews, SelectFallback(r)
  PROVE  ChoiceInv'
<1>1. PICK suggested \in Suggestions : Chosen(r, FallbackReviewer(r, suggested))
  BY DEF SelectFallback
<1>2. at[r] = "fallback" /\ UNCHANGED <<mode, inRun, recent, unscored, unread>>
  BY DEF SelectFallback
<1>3. Author[r] \in Roles
  BY DEF ChoiceAssumption
<1>4. Fixed[Author[r]] \in Roles /\ Fixed[Author[r]] # Author[r]
  BY <1>3 DEF Fixed, Roles
<1>5. /\ FallbackReviewer(r, suggested) \in Roles
      /\ FallbackReviewer(r, suggested) # Author[r]
  BY <1>4 DEF FallbackReviewer
<1>6. mode = "dna_aware" => Candidates(r) \subseteq unread[r]
  BY <1>2 DEF ChoiceInv, ChoiceAt, PartitionedAt
<1>. QED  BY <1>1, <1>2, <1>5, <1>6, ChosenKeeps

(* A review is over, and counts unless it is lost.                           *)
LEMMA ReviewKeeps ==
  ASSUME ChoiceInv, NEW r \in Reviews, GiveReview(r)
  PROVE  ChoiceInv'
<1>. USE DEF ChoiceInv
<1>1. /\ at[r] = "reviewing" /\ mode' = mode /\ inRun' = inRun /\ written' = written
      /\ unscored' = unscored /\ cost' = cost /\ reviewer' = reviewer
      /\ unread' = unread /\ before' = before
  BY DEF GiveReview
<1>2. TypedAt(r) /\ PartitionedAt(r) /\ LastResortAt(r) /\ reviewer[r] \in Roles
  BY <1>1 DEF ChoiceAt, TypedAt
<1>3. at'[r] \in {"done", "lost"} /\ Elsewhere(r)
  BY <1>1 DEF GiveReview, ChoiceTyping, Elsewhere
<1>4. ChoiceAt(r)'
  BY <1>1, <1>2, <1>3
     DEF ChoiceAt, TypedAt, PartitionedAt, WeighedAt, LastResortAt, Candidates
<1>5. CASE at' = [at EXCEPT ![r] = "done"] /\ RecordReview(reviewer[r])
  <2>1. at'[r] = "done" /\ recent \in [Roles -> Nat] /\ mode \in Modes
    BY <1>5 DEF ChoiceTyping
  <2>2. ASSUME NEW role \in Roles
        PROVE  DoneBy(role)' = (IF role = reviewer[r] THEN DoneBy(role) + 1 ELSE DoneBy(role))
               /\ DoneBy(role) \in Nat
    <3>. DEFINE D == {o \in Reviews : at[o] = "done" /\ reviewer[o] = role}
    <3>1. IsFiniteSet(D)
      <4>1. D \in SUBSET Reviews /\ IsFiniteSet(Reviews)
        BY DEF ChoiceAssumption
      <4>. HIDE DEF D
      <4>. QED  BY <4>1, FS_Subset
    <3>2. {o \in Reviews : at'[o] = "done" /\ reviewer'[o] = role} =
            IF role = reviewer[r] THEN D \union {r} ELSE D
      BY <1>1, <1>3, <2>1 DEF Elsewhere
    <3>3. r \notin D
      BY <1>1
    <3>4. DoneBy(role) = Cardinality(D)
      BY DEF DoneBy
    <3>5. DoneBy(role)' = Cardinality(IF role = reviewer[r] THEN D \union {r} ELSE D)
      BY <3>2 DEF DoneBy
    <3>. HIDE DEF D
    <3>6. Cardinality(D \union {r}) = Cardinality(D) + 1 /\ Cardinality(D) \in Nat
      BY <3>1, <3>3, FS_AddElement, FS_CardinalityType
    <3>. QED  BY ONLY <3>4, <3>5, <3>6
  <2>3. \A role \in Roles : DoneBy(role)' \in Nat /\ DoneBy(role) <= DoneBy(role)'
    BY <2>2
  <2>4. recent' = [recent EXCEPT ![reviewer[r]] = IF mode = "dna_aware" THEN @ + 1 ELSE @]
    BY <1>5 DEF RecordReview
  <2>5. Counted'
    BY <1>1, <1>2, <2>1, <2>2, <2>4 DEF Counted
  <2>6. recent' \in [Roles -> Nat]
    BY <1>2, <2>1, <2>4
  <2>7. ChoiceTyping'
    BY <1>1, <1>5, <2>6 DEF ChoiceTyping
  <2>. QED  BY <1>1, <1>3, <1>4, <2>3, <2>5, <2>7, OthersKeep
<1>6. CASE at' = [at EXCEPT ![r] = "lost"] /\ UNCHANGED recent
  <2>1. at'[r] = "lost" /\ at[r] # "done" /\ at'[r] # "done" /\ recent' = recent
    BY <1>1, <1>6 DEF ChoiceTyping
  <2>2. ChoiceTyping'
    BY <1>1, <1>6 DEF ChoiceTyping
  <2>3. /\ \A q \in Roles : DoneBy(q)' = DoneBy(q) /\ DoneBy(q) \in Nat
        /\ Counted'
    BY <1>1, <1>3, <2>1, SameLoads
  <2>. QED  BY <1>1, <1>3, <1>4, <2>2, <2>3, OthersKeep
<1>. QED  BY <1>5, <1>6 DEF GiveReview

(* Every step keeps the invariant.                                           *)
LEMMA ChoiceSteps == ChoiceInv /\ [ChoiceNext]_choiceVars => ChoiceInv'
<1>. SUFFICES ASSUME ChoiceInv, [ChoiceNext]_choiceVars PROVE ChoiceInv'
  OBVIOUS
<1>1. CASE ChoiceNext
  <2>1. PICK r \in Reviews : Begin(r) \/ Score(r) \/ Select(r) \/ SelectFallback(r) \/ GiveReview(r)
    BY <1>1 DEF ChoiceNext
  <2>. QED  BY <2>1, BeginKeeps, ScoreKeeps, SelectKeeps, SelectFallbackKeeps, ReviewKeeps
<1>2. CASE UNCHANGED choiceVars
  <2>. USE <1>2 DEF choiceVars
  <2>1. \A role : DoneBy(role)' = DoneBy(role)
    BY DEF DoneBy
  <2>2. ChoiceTyping' /\ Counted'
    BY <2>1 DEF ChoiceInv, ChoiceTyping, Counted
  <2>3. ASSUME NEW r \in Reviews PROVE ChoiceAt(r)'
    <3>1. ChoiceAt(r)
      BY DEF ChoiceInv
    <3>. QED  BY <2>1, <3>1
              DEF ChoiceAt, TypedAt, PartitionedAt, WeighedAt, LastResortAt, Candidates
  <2>. QED  BY <2>2, <2>3 DEF ChoiceInv
<1>. QED  BY <1>1, <1>2

(* Reviewers, scores and loads are always of their types.                    *)
THEOREM ChoiceTypeCorrect == ChoiceSpec => []ChoiceTypeOK
<1>1. ChoiceInv => ChoiceTypeOK
  <2>. SUFFICES ASSUME ChoiceInv PROVE ChoiceTypeOK
    OBVIOUS
  <2>1. ChoiceTyping /\ Counted /\ \A r \in Reviews : TypedAt(r)
    BY DEF ChoiceInv, ChoiceAt
  <2>2. Cardinality(Reviews) \in Nat
    BY FS_CardinalityType DEF ChoiceAssumption
  <2>3. recent \in [Roles -> 0 .. Cardinality(Reviews)]
    <3>1. \A role \in Roles : recent[role] \in 0 .. Cardinality(Reviews)
      BY <2>1, <2>2, DoneCounts DEF Counted
    <3>. QED  BY <2>1, <3>1 DEF ChoiceTyping
  <2>4. /\ at \in [Reviews -> {"idle", "scoring", "fallback", "reviewing", "done", "lost"}]
        /\ reviewer \in [Reviews -> Roles \union {None}]
        /\ before \in [Reviews -> [Roles -> 0 .. Cardinality(Reviews)]]
    BY <2>1 DEF ChoiceTyping, TypedAt
  <2>5. {written, unscored, unread} \subseteq [Reviews -> SUBSET Roles]
    BY <2>1 DEF ChoiceTyping, TypedAt
  <2>6. \A r \in Reviews : DOMAIN cost[r] \subseteq Roles
    BY <2>1 DEF TypedAt
  <2>. QED  BY <2>1, <2>3, <2>4, <2>5, <2>6 DEF ChoiceTypeOK, ChoiceTyping
<1>. QED  BY <1>1, ChoiceBegins, ChoiceSteps, PTL DEF ChoiceSpec

(* Nobody reviews a task of its own, and who wrote what it was built on      *)
(* reviews it only when no other role's DNA could be read (select).          *)
THEOREM ConflictsComeLast == ChoiceSpec => []ConflictsAreLastResort
<1>1. ChoiceInv => ConflictsAreLastResort
  BY DEF ChoiceInv, ChoiceAt, LastResortAt, ConflictsAreLastResort, Candidates
<1>. QED  BY <1>1, ChoiceBegins, ChoiceSteps, PTL DEF ChoiceSpec

(* Whom a choice prefers had not done more reviews, when it began, than a    *)
(* candidate it could score has been given, but for the slack of their DNAs  *)
(* and the penalty (_score_role, record_review).                             *)
THEOREM LoadsAreShared == ChoiceSpec => LoadIsShared
<1>. DEFINE Shares == \A r \in Reviews : reviewer[r] = None /\ reviewer'[r] # None =>
                        \A q \in DOMAIN cost[r] :
                          before[r][reviewer'[r]] <= Cardinality(GivenTo(q)) + Slack
<1>1. ChoiceInv /\ [ChoiceNext]_choiceVars => [Shares]_reviewer
  <2>. SUFFICES ASSUME ChoiceInv, [ChoiceNext]_choiceVars, reviewer' # reviewer,
                       NEW r \in Reviews, reviewer[r] = None, reviewer'[r] # None,
                       NEW q \in DOMAIN cost[r]
                PROVE  before[r][reviewer'[r]] <= Cardinality(GivenTo(q)) + Slack
    OBVIOUS
  <2>1. TypedAt(r) /\ PartitionedAt(r) /\ WeighedAt(r) /\ at[r] = "scoring"
    BY DEF ChoiceInv, ChoiceAt, PartitionedAt
  <2>2. PICK o \in Reviews : Begin(o) \/ Score(o) \/ Select(o) \/ SelectFallback(o) \/ GiveReview(o)
    BY DEF ChoiceNext, choiceVars
  <2>3. Select(o) \/ SelectFallback(o)
    BY <2>2 DEF Begin, Score, GiveReview
  <2>4. PICK role : Chosen(o, role)
    BY <2>3 DEF Select, SelectFallback
  <2>5. o = r
    BY <2>4 DEF Chosen, ChoiceInv, ChoiceTyping
  <2>6. Chosen(r, Best(r))
    BY <2>1, <2>3, <2>5 DEF Select, SelectFallback
  <2>7. reviewer'[r] = Best(r)
    BY <2>6 DEF Chosen, ChoiceInv, ChoiceTyping
  <2>8. Best(r) \in DOMAIN cost[r] /\ cost[r][Best(r)] <= cost[r][q]
    BY <2>1, BestIs DEF TypedAt
  <2>9. /\ Best(r) \in Roles /\ cost[r][Best(r)] \in Nat /\ cost[r][q] \in Nat
        /\ before[r][Best(r)] \in Nat
    BY <2>1, <2>8 DEF TypedAt
  <2>10. /\ Min(Handicaps) + PerReview * before[r][Best(r)] <= cost[r][Best(r)]
         /\ cost[r][q] <= Max(Handicaps) + PerReview * DoneBy(q) + Tier2
    BY <2>1, <2>8 DEF WeighedAt
  <2>11. DoneBy(q) \in Nat /\ Cardinality(GivenTo(q)) \in Nat /\ DoneBy(q) <= Cardinality(GivenTo(q))
    BY DoneCounts
  <2>12. Min(Handicaps) \in Nat /\ Max(Handicaps) \in Nat /\ Min(Handicaps) <= Max(Handicaps)
    BY Extremes DEF ChoiceAssumption
  <2>13. ASSUME NEW b \in Nat, NEW c \in Nat, NEW e \in Nat, NEW d \in Nat, NEW g \in Nat,
                NEW m \in Nat, NEW n \in Nat,
                m <= n, m + 200 * b <= c, c <= e, e <= n + 200 * d + 357, d <= g
         PROVE  b <= g + ((357 + n - m) \div 200)
    <3>1. PICK x \in Nat : x = 357 + n - m
      BY <2>13
    <3>2. 200 * b <= 200 * g + x
      BY <2>13, <3>1
    <3>3. x \div 200 \in Nat /\ x < 200 * (x \div 200) + 200
      BY <3>1
    <3>. QED  BY <3>1, <3>2, <3>3
  <2>14. PICK b \in Nat, c \in Nat, e \in Nat, d \in Nat, g \in Nat, m \in Nat, n \in Nat :
           /\ b = before[r][Best(r)] /\ c = cost[r][Best(r)] /\ e = cost[r][q]
           /\ d = DoneBy(q) /\ g = Cardinality(GivenTo(q))
           /\ m = Min(Handicaps) /\ n = Max(Handicaps)
    BY <2>9, <2>11, <2>12
  <2>15. m + 200 * b <= c /\ e <= n + 200 * d + 357
    BY <2>10, <2>14 DEF PerReview, Tier2
  <2>16. m <= n /\ c <= e /\ d <= g
    BY <2>8, <2>11, <2>12, <2>14
  <2>17. b <= g + ((357 + n - m) \div 200)
    BY <2>13, <2>15, <2>16
  <2>18. Slack = (357 + n - m) \div 200
    BY <2>14 DEF Slack, PerReview, Tier2
  <2>19. before[r][reviewer'[r]] = b /\ Cardinality(GivenTo(q)) = g
    BY <2>7, <2>14
  <2>. QED  BY <2>17, <2>18, <2>19
<1>. QED  BY <1>1, ChoiceBegins, ChoiceSteps, PTL DEF ChoiceSpec, LoadIsShared
===============================================================================
