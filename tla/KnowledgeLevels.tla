---------------------------- MODULE KnowledgeLevels ----------------------------
(***************************************************************************)
(* The expertise table of knowledge_graph.py.  After the tasks the run     *)
(* stores each result in turn: Qdrant first, then the level of the result's*)
(* role and topic, and a task nobody waits for saves the new level.  A new *)
(* process starts from the rows it can read.  A level is the set of the    *)
(* results it averages.                                                    *)
(***************************************************************************)
EXTENDS SQLiteStorage

CONSTANTS
  Results,  \* successful results, in the order they are stored
  LevelOf,  \* LevelOf[i]: the key (role and topic) of the i-th result
  Levels    \* all keys of levels

ASSUME LevelAssumption ==
  /\ Levels \subseteq Keys
  /\ Results \in Seq(Samples)
  /\ LevelOf \in [DOMAIN Results -> Levels]

VARIABLES
  level,      \* level[k]: KnowledgeGraph._expertise
  next,       \* the next result to store (0: the loop raised)
  pending,    \* tasks created by _update_expertise_ema that have not begun
  committing, \* those between INSERT and COMMIT
  behind,     \* history: levels whose latest save raised
  blind       \* history: levels this or an earlier process could not read

levelVars == <<level, next, pending, committing, behind, blind>>

LevelSaves == [key : Levels, value : SUBSET Samples]

LevelType ==
  /\ level \in [Levels -> SUBSET Samples]
  /\ next \in 0 .. Len(Results) + 1
  /\ pending \in Seq(LevelSaves)
  /\ committing \subseteq LevelSaves
  /\ {behind, blind} \subseteq SUBSET Levels

LevelInit ==
  /\ level = [k \in Levels |-> {}]
  /\ next = 1
  /\ pending = <<>> /\ committing = {}
  /\ behind = {} /\ blind = {}

(* store_task_result: the point is in Qdrant, the level is updated and the    *)
(* task that saves it created, in one step.  (Bugs: the new task runs before  *)
(* those that wait; it is given the level from before the update.)            *)
LearnNewestFirst(k, result) ==
  /\ level' = [level EXCEPT ![k] = @ \union {result}]
  /\ pending' = <<[key |-> k, value |-> level'[k]]>> \o pending
LearnOld(k, result) ==
  /\ level' = [level EXCEPT ![k] = @ \union {result}]
  /\ pending' = Append(pending, [key |-> k, value |-> level[k]])
Learn(k, result) ==
  /\ level' = [level EXCEPT ![k] = @ \union {result}]
  /\ pending' = Append(pending, [key |-> k, value |-> level'[k]])

StoreResult ==
  /\ next \in DOMAIN Results
  /\ Learn(LevelOf[next], Results[next])
  /\ next' = next + 1
  /\ UNCHANGED <<committing, behind, blind>> /\ UNCHANGED storage

(* add_task_result raises, and with it the loop and the run.                  *)
StoreRaises ==
  /\ StorageMayFail /\ next \in DOMAIN Results
  /\ next' = 0
  /\ UNCHANGED <<level, pending, committing, behind, blind>> /\ UNCHANGED storage

(* _persist_expertise, whose exceptions are logged.                           *)
PersistBegins ==
  /\ pending # <<>>
  /\ LET save == Head(pending)
     IN  \/ /\ Insert(save.key, save.value)
            /\ committing' = committing \union {save}
            /\ UNCHANGED behind
         \/ /\ Fails
            /\ behind' = behind \union {save.key}
            /\ UNCHANGED committing
  /\ pending' = Tail(pending)
  /\ UNCHANGED <<level, next, blind>>

PersistReturns ==
  \E save \in committing :
    /\ committing' = committing \ {save}
    /\ \/ /\ Commit
          /\ behind' = IF save.value = level[save.key]
                        THEN behind \ {save.key} ELSE behind
       \/ /\ Fails
          /\ behind' = behind \union {save.key}
    /\ UNCHANGED <<level, next, pending, blind>>

LevelStep == StoreResult \/ StoreRaises \/ PersistBegins \/ PersistReturns

(* load_expertise of the next process: a query that raises is logged, and the *)
(* process begins with empty levels.                                          *)
LoadExpertise == level' = [k \in Levels |-> durable[k]]
LoadRaises == /\ StorageMayFail
              /\ level' = [k \in Levels |-> {}]

LevelRestart ==
  /\ \/ LoadExpertise /\ UNCHANGED blind
     \/ LoadRaises /\ blind' = blind \union {k \in Levels : durable[k] # {}}
  /\ pending' = <<>> /\ committing' = {}
  /\ next' = IF next = 0 THEN Len(Results) + 1 ELSE next
  /\ behind' = {}

-------------------------------------------------------------------------------
(* What the database knows of a level only grows, although every save         *)
(* replaces it and nobody orders the saves, unless a process started without  *)
(* being able to read it (_update_expertise_ema, load_expertise).             *)
KnowledgeGrows ==
  [][\A k \in Levels \ blind' : durable[k] \subseteq durable'[k]]_durable

(* When no save is under way the database has the levels of memory, unless    *)
(* the latest save of one raised (_persist_expertise).                        *)
SettledIsSaved ==
  \A k \in Levels \ (behind \union blind) :
    (\A i \in DOMAIN pending : pending[i].key # k) /\ (\A s \in committing : s.key # k)
      => durable[k] = level[k]
===============================================================================
