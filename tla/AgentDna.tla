------------------------------- MODULE AgentDna -------------------------------
(***************************************************************************)
(* dna_manager.py: one DNA per agent, cached in memory and saved under the *)
(* agent's key.  Every operation reads a DNA, adds a sample to its running *)
(* averages and genes, and writes the whole DNA back; a task reads it when *)
(* it starts and writes it when it ends, and nothing locks it in between.  *)
(* A DNA is the set of operations whose samples it contains: which samples *)
(* are in is what can go wrong, not what they average to.                  *)
(***************************************************************************)
EXTENDS SQLiteStorage

CONSTANTS
  Agents,  \* agent ids (their DNAs' keys)
  Ops,     \* operations on DNAs
  Visits,  \* Visits[o]: the DNAs it visits, in order, each [agent, use]
  Reviews  \* the operations that are reviews

(* What a visit does with the DNA: keep it until the task ends, weigh a vote   *)
(* with it, or count a review or a meeting in it.                             *)
Uses == {"task", "weigh", "count"}

ASSUME DnaAssumption ==
  /\ Agents \subseteq Keys
  /\ Ops \subseteq Samples
  /\ Reviews \subseteq Ops
  /\ Visits \in [Ops -> Seq([agent : Agents, use : Uses]) \ {<<>>}]

VARIABLES
  loaded,  \* agents whose DNA is in the cache
  cache,   \* cache[a]: DNAManager._cache
  at,      \* at[o]: where the operation is
  visit,   \* visit[o]: the visit it is at, or will begin
  copy,    \* copy[o]: the DNA its load returned (or is about to)
  saved,   \* history: <<o, a>> whose save returned
  failed,  \* history: <<o, a>> whose save raised
  raced    \* history: <<o, a>> written while another operation held a copy

history == <<saved, failed, raced>>
dnaVars == <<loaded, cache, at, visit, copy, saved, failed, raced>>

Agent(o) == Visits[o][visit[o]].agent
Use(o) == Visits[o][visit[o]].use
Samplings == Ops \X Agents

DnaType ==
  /\ loaded \subseteq Agents
  /\ cache \in [Agents -> SUBSET Ops]
  /\ at \in [Ops -> {"idle", "reading", "holding", "committing", "ended"}]
  /\ visit \in [Ops -> Nat] /\ \A o \in Ops : visit[o] \in 1 .. Len(Visits[o])
  /\ copy \in [Ops -> SUBSET Ops]
  /\ {saved, failed, raced} \subseteq SUBSET Samplings

DnaInit == /\ loaded = {}
           /\ cache = [a \in Agents |-> {}]
           /\ at = [o \in Ops |-> "idle"]
           /\ visit = [o \in Ops |-> 1]
           /\ copy = [o \in Ops |-> {}]
           /\ saved = {} /\ failed = {} /\ raced = {}

-------------------------------------------------------------------------------
(* A visit is over: a meeting goes on to its next one whatever happened, a    *)
(* review goes on to the author only after the reviewer's DNA was saved.      *)
Proceed(o, well) ==
  IF visit[o] < Len(Visits[o]) /\ (well \/ o \notin Reviews)
  THEN /\ visit' = [visit EXCEPT ![o] = @ + 1]
       /\ at' = [at EXCEPT ![o] = "idle"]
  ELSE /\ at' = [at EXCEPT ![o] = "ended"]
       /\ UNCHANGED visit

(* Operations that have read the DNA of agent a and will cache or write it.   *)
Holders(a) == {p \in Ops : at[p] \in {"reading", "holding"} /\ Agent(p) = a}

(* _save: the INSERT is issued, or raises.                                    *)
Save(o, value) ==
  /\ copy' = [copy EXCEPT ![o] = {}]
  /\ raced' = IF Holders(Agent(o)) \subseteq {o} THEN raced
              ELSE raced \union {<<o, Agent(o)>>}
  /\ UNCHANGED saved
  /\ \/ /\ Insert(Agent(o), value)
        /\ at' = [at EXCEPT ![o] = "committing"]
        /\ UNCHANGED <<visit, failed>>
     \/ /\ Fails
        /\ Proceed(o, FALSE)
        /\ failed' = failed \union {<<o, Agent(o)>>}

CacheSet(a, value) == /\ loaded' = loaded \union {a}
                      /\ cache' = [cache EXCEPT ![a] = value]

(* The changed DNA goes into the cache, then to the storage.  (A bug: only to *)
(* the storage.)                                                              *)
WriteRowOnly(o, value) == /\ Save(o, value \union {o})
                          /\ UNCHANGED <<loaded, cache>>
Write(o, value) == /\ CacheSet(Agent(o), value \union {o})
                   /\ Save(o, value \union {o})

-------------------------------------------------------------------------------
(* What an operation does with the DNA that load() returns, without           *)
(* suspending: a task keeps it until it ends, a vote count takes its weight   *)
(* from it, a review or a meeting changes it at once.                         *)
Using(o, value) ==
  \/ /\ Use(o) = "task"
     /\ CacheSet(Agent(o), value)
     /\ copy' = [copy EXCEPT ![o] = value]
     /\ at' = [at EXCEPT ![o] = "holding"]
     /\ UNCHANGED <<visit, history>> /\ UNCHANGED storage
  \/ /\ Use(o) = "weigh"
     /\ CacheSet(Agent(o), value)
     /\ copy' = [copy EXCEPT ![o] = {}]
     /\ Proceed(o, TRUE)
     /\ UNCHANGED history /\ UNCHANGED storage
  \/ /\ Use(o) = "count"
     /\ Write(o, value)

LoadCached(o) == /\ at[o] = "idle" /\ Agent(o) \in loaded
                 /\ Using(o, cache[Agent(o)])

LoadMisses(o) ==
  /\ at[o] = "idle" /\ Agent(o) \notin loaded
  /\ copy' = [copy EXCEPT ![o] = visible[Agent(o)]]
  /\ at' = [at EXCEPT ![o] = "reading"]
  /\ UNCHANGED <<loaded, cache, visit, history>> /\ UNCHANGED storage

(* The row arrives, and goes into the cache even if something is there by now. *)
LoadReturns(o) == /\ at[o] = "reading"
                  /\ Using(o, copy[o])

(* A task's load is outside its try: the task never begins.  A vote counts    *)
(* with the neutral weight.                                                   *)
LoadFails(o) ==
  /\ at[o] = "reading"
  /\ Fails
  /\ copy' = [copy EXCEPT ![o] = {}]
  /\ Proceed(o, FALSE)
  /\ UNCHANGED <<loaded, cache, history>>

(* update(): the task ended, with a result or with an SLMAgentError.          *)
Update(o) == /\ at[o] = "holding"
             /\ Write(o, copy[o])

(* The task ended with another exception: its DNA learns nothing.             *)
TaskRaises(o) ==
  /\ at[o] = "holding"
  /\ copy' = [copy EXCEPT ![o] = {}]
  /\ Proceed(o, FALSE)
  /\ UNCHANGED <<loaded, cache, history>> /\ UNCHANGED storage

SaveReturns(o) ==
  /\ at[o] = "committing"
  /\ UNCHANGED <<loaded, cache, copy, raced>>
  /\ \/ /\ Commit
        /\ saved' = saved \union {<<o, Agent(o)>>}
        /\ Proceed(o, TRUE)
        /\ UNCHANGED failed
     \/ /\ Fails
        /\ Proceed(o, FALSE)
        /\ failed' = failed \union {<<o, Agent(o)>>}
        /\ UNCHANGED saved

DnaStep(o) == \/ LoadCached(o) \/ LoadMisses(o) \/ LoadReturns(o) \/ LoadFails(o)
              \/ Update(o) \/ TaskRaises(o) \/ SaveReturns(o)

(* A new process: operations under way are gone, others may still be begun.   *)
DnaRestart ==
  /\ loaded' = {}
  /\ cache' = [a \in Agents |-> {}]
  /\ at' = [o \in Ops |-> IF at[o] = "idle" /\ visit[o] = 1 THEN "idle" ELSE "ended"]
  /\ copy' = [o \in Ops |-> {}]
  /\ UNCHANGED <<visit, history>>

-------------------------------------------------------------------------------
(* A sample whose save returned is in the database and in the cache, through  *)
(* restarts and other operations' failures, unless another operation held a   *)
(* copy from before it (dna_manager.py: load and update have no lock).        *)
CountedUnlessRaced ==
  \A s \in saved \ raced : LET o == s[1]
                               a == s[2]
                           IN  /\ o \in durable[a]
                               /\ a \in loaded => o \in cache[a]

(* When no save of an agent's DNA is under way and none has raised, the       *)
(* database has all that memory has, in whatever order the saves of the       *)
(* operations that overlapped were inserted and committed (_save).            *)
MemoryIsSaved ==
  \A a \in loaded :
    (\A o \in Ops : <<o, a>> \notin failed /\ ~(at[o] = "committing" /\ Agent(o) = a))
      => cache[a] \subseteq durable[a]
===============================================================================
