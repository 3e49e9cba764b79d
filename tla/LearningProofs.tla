---------------------------- MODULE LearningProofs ----------------------------
(***************************************************************************)
(* Theorems about Learning: what memory, the connection and the database   *)
(* file know of each other, for any operations on any agents' DNAs, any    *)
(* results, with storage that fails and processes that end at any time.    *)
(***************************************************************************)
EXTENDS Learning, QueueFacts

USE StorageAssumption, DnaAssumption, LevelAssumption, LearningAssumption

(* A DNA holds samples of operations only, wherever it is.                  *)
LInv == /\ TypeOK
        /\ \A a \in Agents : visible[a] \subseteq Ops /\ durable[a] \subseteq Ops

-------------------------------------------------------------------------------
(* What a step of operation o can do, by kind; value is the DNA it uses.    *)
Others(o) == \A p \in Ops \ {o} : at'[p] = at[p] /\ visit'[p] = visit[p] /\ copy'[p] = copy[p]
Gone(o) == at'[o] \in {"idle", "ended"}
Stays(o, where) == at'[o] = where /\ visit'[o] = visit[o]
Source(o, value) == \/ at[o] = "idle" /\ Agent(o) \in loaded /\ value = cache[Agent(o)]
                    \/ at[o] \in {"reading", "holding"} /\ value = copy[o]
NotedFailed(o) == failed' = failed \union {<<o, Agent(o)>>}

GivesUp(o) == /\ at[o] # "committing" /\ Gone(o)
              /\ UNCHANGED <<loaded, cache, history, storage>>
ReadsRow(o) == /\ at[o] = "idle" /\ Agent(o) \notin loaded
               /\ Stays(o, "reading") /\ copy'[o] = visible[Agent(o)]
               /\ UNCHANGED <<loaded, cache, history, storage>>
Loads(o, value) == /\ Source(o, value) /\ at[o] # "holding"
                   /\ CacheSet(Agent(o), value)
                   /\ (Stays(o, "holding") /\ copy'[o] = value) \/ Gone(o)
                   /\ UNCHANGED <<history, storage>>
Writes(o, value) ==
  /\ Source(o, value)
  /\ CacheSet(Agent(o), value \union {o})
  /\ raced' = IF Holders(Agent(o)) \subseteq {o} THEN raced ELSE raced \union {<<o, Agent(o)>>}
  /\ UNCHANGED saved
  /\ \/ Insert(Agent(o), value \union {o}) /\ Stays(o, "committing") /\ UNCHANGED failed
     \/ UNCHANGED storage /\ Gone(o) /\ NotedFailed(o)
Returns(o) == /\ at[o] = "committing" /\ Gone(o)
              /\ UNCHANGED <<loaded, cache, raced>>
              /\ \/ Commit /\ saved' = saved \union {<<o, Agent(o)>>} /\ UNCHANGED failed
                 \/ UNCHANGED <<storage, saved>> /\ NotedFailed(o)

(* Where an operation goes after a visit.                                   *)
LEMMA ProceedFacts ==
  ASSUME DnaType, NEW o \in Ops, NEW well, Proceed(o, well)
  PROVE  /\ at' \in [Ops -> {"idle", "reading", "holding", "committing", "ended"}]
         /\ visit' \in [Ops -> Nat] /\ \A p \in Ops : visit'[p] \in 1 .. Len(Visits[p])
         /\ Gone(o)
         /\ \A p \in Ops \ {o} : at'[p] = at[p] /\ visit'[p] = visit[p]
<1>1. /\ at \in [Ops -> {"idle", "reading", "holding", "committing", "ended"}]
      /\ visit \in [Ops -> Nat] /\ \A p \in Ops : visit[p] \in 1 .. Len(Visits[p])
  BY DEF DnaType
<1>2. Len(Visits[o]) \in Nat
  BY LenProperties
<1>3. CASE /\ visit[o] < Len(Visits[o])
           /\ visit' = [visit EXCEPT ![o] = @ + 1] /\ at' = [at EXCEPT ![o] = "idle"]
  <2>1. visit[o] + 1 \in 1 .. Len(Visits[o])
    BY <1>1, <1>2, <1>3
  <2>. QED  BY <1>1, <1>3, <2>1 DEF Gone
<1>4. CASE at' = [at EXCEPT ![o] = "ended"] /\ visit' = visit
  BY <1>1, <1>4 DEF Gone
<1>. QED  BY <1>3, <1>4 DEF Proceed

(* The agent an operation visits.                                           *)
LEMMA AgentType == ASSUME DnaType, NEW o \in Ops PROVE Agent(o) \in Agents /\ Agent(o) \in Keys
<1>1. Visits[o] \in Seq([agent : Agents, use : Uses]) /\ visit[o] \in 1 .. Len(Visits[o])
  BY DEF DnaType
<1>2. Visits[o][visit[o]] \in [agent : Agents, use : Uses]
  BY <1>1, ElementOfSeq
<1>. QED  BY <1>2 DEF Agent

(* Every step of an operation is of one of the kinds.                       *)
LEMMA SaveKinds ==
  ASSUME DnaType, NEW o \in Ops, NEW value \in SUBSET Ops, Source(o, value), Write(o, value)
  PROVE  Others(o) /\ Writes(o, value) /\ DnaType'
<1>1. /\ CacheSet(Agent(o), value \union {o}) /\ copy' = [copy EXCEPT ![o] = {}] /\ saved' = saved
      /\ raced' = IF Holders(Agent(o)) \subseteq {o} THEN raced ELSE raced \union {<<o, Agent(o)>>}
  BY DEF Write, Save
<1>2. Agent(o) \in Agents
  BY AgentType
<1>3. /\ loaded' \subseteq Agents /\ cache' \in [Agents -> SUBSET Ops] /\ copy' \in [Ops -> SUBSET Ops]
      /\ saved' \in SUBSET Samplings /\ raced' \in SUBSET Samplings
      /\ failed \in SUBSET Samplings /\ failed \union {<<o, Agent(o)>>} \in SUBSET Samplings
      /\ \A p \in Ops \ {o} : copy'[p] = copy[p]
  BY <1>1, <1>2 DEF DnaType, CacheSet, Samplings
<1>4. CASE /\ Insert(Agent(o), value \union {o})
           /\ at' = [at EXCEPT ![o] = "committing"] /\ UNCHANGED <<visit, failed>>
  <2>1. Others(o) /\ Stays(o, "committing")
    BY <1>3, <1>4 DEF Others, Stays, DnaType
  <2>2. DnaType'
    BY <1>3, <1>4 DEF DnaType, Samplings
  <2>. QED  BY <1>1, <1>4, <2>1, <2>2 DEF Writes
<1>5. CASE Fails /\ Proceed(o, FALSE) /\ failed' = failed \union {<<o, Agent(o)>>}
  <2>1. Others(o) /\ Gone(o) /\ NotedFailed(o)
    BY <1>3, <1>5, ProceedFacts DEF Others, NotedFailed
  <2>2. DnaType'
    BY <1>3, <1>5, ProceedFacts DEF DnaType, Samplings
  <2>. QED  BY <1>1, <1>5, <2>1, <2>2 DEF Writes, Fails
<1>. QED  BY <1>4, <1>5 DEF Write, Save

(* What a step of an operation is, by kind.                                 *)
DnaKind(o) == \/ GivesUp(o) \/ ReadsRow(o) \/ Returns(o)
              \/ \E value \in SUBSET Ops : Loads(o, value) \/ Writes(o, value)

(* load() returns value, and the operation uses it.                         *)
LEMMA UsingKinds ==
  ASSUME DnaType, NEW o \in Ops, NEW value \in SUBSET Ops, Source(o, value), at[o] # "holding", Using(o, value)
  PROVE  Others(o) /\ DnaKind(o) /\ DnaType'
<1>1. Agent(o) \in Agents
  BY AgentType
<1>2. CASE Write(o, value)
  BY <1>2, SaveKinds DEF DnaKind
<1>3. CASE /\ CacheSet(Agent(o), value) /\ copy' = [copy EXCEPT ![o] = value]
           /\ at' = [at EXCEPT ![o] = "holding"] /\ UNCHANGED <<visit, history, storage>>
  <2>1. DnaType'
    BY <1>1, <1>3 DEF DnaType, CacheSet, history
  <2>2. Others(o) /\ Stays(o, "holding") /\ copy'[o] = value
    BY <1>3 DEF Others, Stays, DnaType
  <2>. QED  BY <1>3, <2>1, <2>2 DEF Loads, DnaKind
<1>4. CASE /\ CacheSet(Agent(o), value) /\ copy' = [copy EXCEPT ![o] = {}]
           /\ Proceed(o, TRUE) /\ UNCHANGED <<history, storage>>
  <2>1. loaded' \subseteq Agents /\ cache' \in [Agents -> SUBSET Ops] /\ copy' \in [Ops -> SUBSET Ops]
    BY <1>1, <1>4 DEF DnaType, CacheSet
  <2>2. DnaType'
    BY <1>4, <2>1, ProceedFacts DEF DnaType, history
  <2>3. Others(o) /\ Gone(o)
    BY <1>4, ProceedFacts DEF Others, DnaType
  <2>. QED  BY <1>4, <2>2, <2>3 DEF Loads, DnaKind
<1>. QED  BY <1>2, <1>3, <1>4 DEF Using

(* Every step of an operation is of one of the kinds.                       *)
LEMMA DnaKinds ==
  ASSUME LInv, NEW o \in Ops, DnaStep(o)
  PROVE  Others(o) /\ DnaKind(o) /\ DnaType'
<1>1. DnaType /\ Agent(o) \in Agents /\ visible[Agent(o)] \in SUBSET Ops
  BY AgentType DEF LInv, TypeOK
<1>2. cache[Agent(o)] \in SUBSET Ops /\ copy[o] \in SUBSET Ops
  BY <1>1 DEF DnaType
<1>3. CASE LoadCached(o)
  BY <1>1, <1>2, <1>3, UsingKinds DEF LoadCached, Source
<1>4. CASE LoadReturns(o)
  BY <1>1, <1>2, <1>4, UsingKinds DEF LoadReturns, Source
<1>5. CASE Update(o)
  BY <1>1, <1>2, <1>5, SaveKinds DEF Update, Source, DnaKind
<1>6. CASE LoadMisses(o)
  <2>1. DnaType'
    BY <1>1, <1>6 DEF LoadMisses, DnaType, history
  <2>2. Others(o) /\ ReadsRow(o)
    BY <1>1, <1>6 DEF LoadMisses, Others, ReadsRow, Stays, DnaType
  <2>. QED  BY <2>1, <2>2 DEF DnaKind
<1>7. CASE LoadFails(o) \/ TaskRaises(o)
  <2>1. /\ copy' = [copy EXCEPT ![o] = {}] /\ Proceed(o, FALSE) /\ at[o] # "committing"
        /\ UNCHANGED <<loaded, cache, history, storage>>
    BY <1>7 DEF LoadFails, TaskRaises, Fails
  <2>2. DnaType'
    BY <1>1, <2>1, ProceedFacts DEF DnaType, history
  <2>3. Others(o) /\ Gone(o)
    BY <1>1, <2>1, ProceedFacts DEF Others, DnaType
  <2>. QED  BY <2>1, <2>2, <2>3 DEF GivesUp, DnaKind
<1>8. CASE SaveReturns(o)
  <2>1. /\ at[o] = "committing" /\ UNCHANGED <<loaded, cache, copy, raced>>
        /\ Proceed(o, TRUE) \/ Proceed(o, FALSE)
        /\ \/ Commit /\ saved' = saved \union {<<o, Agent(o)>>} /\ UNCHANGED failed
           \/ Fails /\ UNCHANGED saved /\ failed' = failed \union {<<o, Agent(o)>>}
    BY <1>8 DEF SaveReturns
  <2>2. saved' \in SUBSET Samplings /\ failed' \in SUBSET Samplings
    BY <1>1, <2>1 DEF DnaType, Samplings
  <2>3. DnaType'
    BY <1>1, <2>1, <2>2, ProceedFacts DEF DnaType
  <2>4. Others(o) /\ Gone(o)
    BY <1>1, <2>1, ProceedFacts DEF Others, DnaType
  <2>. QED  BY <2>1, <2>3, <2>4 DEF Returns, DnaKind, Fails, NotedFailed
<1>. QED  BY <1>3, <1>4, <1>5, <1>6, <1>7, <1>8 DEF DnaStep

-------------------------------------------------------------------------------
(* Types.                                                                   *)

(* Storage starts empty, and so does everything that is read from it.       *)
LEMMA LearningInit == Init => LInv
<1>. SUFFICES ASSUME Init PROVE LInv
  OBVIOUS
<1>1. StorageType /\ \A a \in Agents : visible[a] \subseteq Ops /\ durable[a] \subseteq Ops
  BY DEF Init, StorageInit, StorageType
<1>2. DnaType
  <2>1. \A o \in Ops : 1 \in 1 .. Len(Visits[o])
    <3>1. ASSUME NEW o \in Ops PROVE 1 \in 1 .. Len(Visits[o])
      <4>1. Visits[o] \in Seq([agent : Agents, use : Uses]) /\ Visits[o] # <<>>
        OBVIOUS
      <4>. QED  BY <4>1, LenProperties, EmptySeq
    <3>. QED  BY <3>1
  <2>. QED  BY <2>1 DEF Init, DnaInit, DnaType
<1>3. LevelType
  <2>1. Len(Results) \in Nat
    BY LenProperties
  <2>. QED  BY <2>1 DEF Init, LevelInit, LevelType
<1>. QED  BY <1>1, <1>2, <1>3 DEF Init, LInv, TypeOK

(* A step of an operation writes operations under agents' keys.             *)
LEMMA DnaTyped ==
  ASSUME LInv, NEW o \in Ops, DnaStep(o), UNCHANGED <<levelVars, restarts>>
  PROVE  LInv'
<1>1. Others(o) /\ DnaKind(o) /\ DnaType' /\ Agent(o) \in Agents /\ Agent(o) \in Keys
  BY DnaKinds, AgentType DEF LInv, TypeOK
<1>2. visible \in [Keys -> SUBSET Samples] /\ durable \in [Keys -> SUBSET Samples]
  BY DEF LInv, TypeOK, StorageType
<1>3. \/ UNCHANGED <<visible, durable>>
      \/ durable' = visible /\ visible' = visible
      \/ /\ \E value \in SUBSET Ops : visible' = [visible EXCEPT ![Agent(o)] = value \union {o}]
         /\ durable' = durable
  BY <1>1 DEF DnaKind, GivesUp, ReadsRow, Returns, Loads, Writes, Insert, Commit, storage
<1>4. StorageType' /\ \A a \in Agents : visible'[a] \subseteq Ops /\ durable'[a] \subseteq Ops
  <2>1. CASE UNCHANGED <<visible, durable>> \/ (durable' = visible /\ visible' = visible)
    BY <1>2, <2>1 DEF LInv, StorageType
  <2>2. CASE /\ \E value \in SUBSET Ops : visible' = [visible EXCEPT ![Agent(o)] = value \union {o}]
             /\ durable' = durable
    <3>1. PICK value \in SUBSET Ops : visible' = [visible EXCEPT ![Agent(o)] = value \union {o}]
      BY <2>2
    <3>2. value \union {o} \in SUBSET Ops /\ value \union {o} \in SUBSET Samples
      OBVIOUS
    <3>. QED  BY <1>1, <1>2, <2>2, <3>1, <3>2 DEF LInv, StorageType
  <2>. QED  BY <1>3, <2>1, <2>2
<1>5. LevelType' /\ restarts' \in 0 .. MaxRestarts
  BY DEF LInv, TypeOK, LevelType, levelVars
<1>. QED  BY <1>1, <1>4, <1>5 DEF LInv, TypeOK

(* A step of the graph writes samples under levels' keys.                   *)
LEMMA GraphTyped ==
  ASSUME LInv, Graph
  PROVE  LInv'
<1>1. /\ visible \in [Keys -> SUBSET Samples] /\ durable \in [Keys -> SUBSET Samples]
      /\ pending \in Seq(LevelSaves) /\ level \in [Levels -> SUBSET Samples] /\ committing \subseteq LevelSaves
      /\ next \in 0 .. (Len(Results) + 1) /\ behind \subseteq Levels /\ Len(Results) \in Nat
  BY LenProperties DEF LInv, TypeOK, StorageType, LevelType
<1>2. DnaType' /\ restarts' \in 0 .. MaxRestarts /\ blind' \subseteq Levels
  BY DEF LInv, TypeOK, LevelType, DnaType, dnaVars, Graph, LevelStep, StoreResult, StoreRaises, PersistBegins,
         PersistReturns, Holders, Agent
<1>3. CASE StoreResult
  <2>1. next \in DOMAIN Results /\ next \in 1 .. Len(Results) /\ LevelOf[next] \in Levels /\ Results[next] \in Samples
    BY <1>3, LenProperties, ElementOfSeq DEF StoreResult
  <2>2. level' \in [Levels -> SUBSET Samples] /\ level'[LevelOf[next]] \in SUBSET Samples
    BY <1>1, <1>3, <2>1 DEF StoreResult, Learn
  <2>3. pending' \in Seq(LevelSaves)
    <3>1. [key |-> LevelOf[next], value |-> level'[LevelOf[next]]] \in LevelSaves
      BY <2>1, <2>2 DEF LevelSaves
    <3>. QED  BY <1>1, <1>3, <3>1 DEF StoreResult, Learn
  <2>4. next' \in 0 .. (Len(Results) + 1)
    BY <1>1, <1>3, <2>1 DEF StoreResult
  <2>. QED  BY <1>1, <1>2, <1>3, <2>2, <2>3, <2>4
            DEF StoreResult, LInv, TypeOK, StorageType, LevelType, storage
<1>4. CASE StoreRaises
  BY <1>1, <1>2, <1>4 DEF StoreRaises, LInv, TypeOK, StorageType, LevelType, storage
<1>5. CASE PersistBegins
  <2>1. pending # <<>> /\ Head(pending) \in LevelSaves /\ Tail(pending) \in Seq(LevelSaves)
    BY <1>1, <1>5 DEF PersistBegins
  <2>2. Head(pending).key \in Levels /\ Head(pending).value \in SUBSET Samples
    BY <2>1 DEF LevelSaves
  <2>3. pending' = Tail(pending) /\ UNCHANGED <<level, next, blind, durable>>
        /\ \/ visible' = [visible EXCEPT ![Head(pending).key] = Head(pending).value]
              /\ committing' = committing \union {Head(pending)} /\ behind' = behind
           \/ visible' = visible /\ committing' = committing
              /\ behind' = behind \union {Head(pending).key}
    BY <1>5 DEF PersistBegins, Insert, Fails, storage
  <2>4. StorageType' /\ \A a \in Agents : visible'[a] \subseteq Ops /\ durable'[a] \subseteq Ops
    <3>1. \A a \in Agents : a # Head(pending).key
      BY <2>2
    <3>2. Head(pending).key \in Keys
      BY <2>2
    <3>3. visible' \in [Keys -> SUBSET Samples] /\ \A a \in Agents : visible'[a] = visible[a]
      BY <1>1, <2>2, <2>3, <3>1, <3>2
    <3>. QED  BY <1>1, <2>3, <3>3 DEF LInv, StorageType
  <2>. QED  BY <1>1, <1>2, <2>1, <2>2, <2>3, <2>4 DEF LInv, TypeOK, LevelType
<1>6. CASE PersistReturns
  <2>1. /\ committing' \subseteq committing /\ UNCHANGED <<level, next, pending, blind, visible>>
        /\ durable' \in {durable, visible} /\ behind' \subseteq Levels
    BY <1>1, <1>6 DEF PersistReturns, Commit, Fails, storage, LevelSaves
  <2>. QED  BY <1>1, <1>2, <2>1 DEF LInv, TypeOK, StorageType, LevelType
<1>. QED  BY <1>3, <1>4, <1>5, <1>6 DEF Graph, LevelStep

(* So does a new process, which starts from what the file holds.            *)
LEMMA RestartTyped ==
  ASSUME LInv, Restart
  PROVE  LInv'
<1>1. visible' = durable /\ durable' = durable
  BY DEF Restart, Reopen
<1>2. durable \in [Keys -> SUBSET Samples] /\ Len(Results) \in Nat
  BY LenProperties DEF LInv, TypeOK, StorageType
<1>3. DnaType'
  BY DEF LInv, TypeOK, DnaType, Restart, DnaRestart, history
<1>4. LevelType'
  <2>1. level' \in [Levels -> SUBSET Samples] /\ blind' \subseteq Levels
    BY <1>2 DEF LInv, TypeOK, LevelType, Restart, LevelRestart, LoadExpertise, LoadRaises
  <2>2. next' \in 0 .. (Len(Results) + 1)
    BY <1>2 DEF LInv, TypeOK, LevelType, Restart, LevelRestart
  <2>. QED  BY <2>1, <2>2 DEF Restart, LevelRestart, LevelType
<1>5. restarts' \in 0 .. MaxRestarts
  BY DEF Restart, LInv, TypeOK
<1>. QED  BY <1>1, <1>2, <1>3, <1>4, <1>5 DEF LInv, TypeOK, StorageType

(* Every step keeps the types.                                              *)
LEMMA LearningTyped == LInv /\ [Next]_vars => LInv'
<1>. SUFFICES ASSUME LInv, [Next]_vars PROVE LInv'
  OBVIOUS
<1>1. CASE UNCHANGED vars
  BY <1>1 DEF vars, storage, dnaVars, levelVars, LInv, TypeOK, StorageType, DnaType, LevelType, Agent
<1>. QED  BY <1>1, DnaTyped, GraphTyped, RestartTyped DEF Next, Dna

(* TypeOK, with DNAs and levels under keys of their own.                    *)
THEOREM LearningTyping == Spec => []TypeOK
<1>1. LInv => TypeOK
  BY DEF LInv
<1>. QED  BY <1>1, LearningInit, LearningTyped, PTL DEF Spec

-------------------------------------------------------------------------------
(* Levels.  Along memory, the saves that wait, the connection and the file, *)
(* what is known of a level only gets less: a value is contained in those   *)
(* after it, the last that waits is the one in memory, and a save that is   *)
(* being committed has been inserted.                                       *)
Chained(k) ==
  /\ durable[k] \subseteq visible[k] /\ visible[k] \subseteq level[k]
  /\ \A i \in DOMAIN pending : pending[i].key = k =>
       visible[k] \subseteq pending[i].value /\ pending[i].value \subseteq level[k]
  /\ \A i, j \in DOMAIN pending : i < j /\ pending[i].key = k /\ pending[j].key = k =>
       pending[i].value \subseteq pending[j].value
  /\ \A s \in committing : s.key = k => s.value \subseteq visible[k]
LastIsMemory(k) == \A i \in DOMAIN pending :
  pending[i].key = k /\ (\A j \in DOMAIN pending : i < j => pending[j].key # k) => pending[i].value = level[k]
ChainInv == \A k \in Levels \ blind : Chained(k) /\ LastIsMemory(k)

(* Unless the latest save raised, what memory has and no save that waits    *)
(* will insert was inserted, and what was inserted and no save will commit  *)
(* was committed.                                                           *)
Inserted(k) == (\A i \in DOMAIN pending : pending[i].key # k) => visible[k] = level[k]
Committed(k) == (\A s \in committing : s.key # k) => durable[k] = visible[k]
LastInv == \A k \in Levels \ (blind \union behind) : Inserted(k) /\ Committed(k)

(* A result goes into the level and to the end of the saves that wait.      *)
LEMMA ChainStore ==
  ASSUME LInv, ChainInv, LastInv, StoreResult
  PROVE  ChainInv' /\ LastInv'
<1>. DEFINE n == LevelOf[next]
            s == [key |-> n, value |-> level'[n]]
            m == Len(pending) + 1
<1>1. /\ n \in Levels /\ level \in [Levels -> SUBSET Samples] /\ Results[next] \in Samples
      /\ pending \in Seq(LevelSaves)
  <2>1. next \in DOMAIN Results /\ next \in 1 .. Len(Results)
    BY LenProperties DEF StoreResult
  <2>. QED  BY <2>1, ElementOfSeq DEF LInv, TypeOK, LevelType
<1>2. /\ level' = [level EXCEPT ![n] = @ \union {Results[next]}] /\ pending' = Append(pending, s)
      /\ UNCHANGED <<visible, durable, committing, behind, blind>>
  BY DEF StoreResult, Learn, storage
<1>. HIDE DEF n
<1>3. s.key = n /\ s.value = level'[n] /\ s \in LevelSaves
  BY <1>1, <1>2 DEF LevelSaves
<1>. HIDE DEF s
<1>4. \A k \in Levels : level[k] \subseteq level'[k] /\ (k # n => level'[k] = level[k])
  BY <1>1, <1>2
<1>5. /\ m \in Nat \ {0} /\ DOMAIN pending = 1 .. (m - 1) /\ DOMAIN pending' = 1 .. m /\ pending'[m] = s
      /\ \A i \in 1 .. (m - 1) : pending'[i] = pending[i]
      /\ \A i \in 1 .. m : i \in 1 .. (m - 1) \/ i = m
  <2>1. Len(pending) \in Nat /\ DOMAIN pending = 1 .. Len(pending)
    BY <1>1, LenProperties
  <2>2. DOMAIN pending' = 1 .. m /\ pending'[m] = s /\ \A i \in 1 .. (m - 1) : pending'[i] = pending[i]
    BY ONLY <1>1, <1>2, <1>3, <2>1, AppendShape, m = Len(pending) + 1
  <2>. QED  BY <2>1, <2>2
<1>. HIDE DEF m
<1>6. ASSUME NEW k \in Levels \ blind PROVE Chained(k)' /\ LastIsMemory(k)'
  <2>1. Chained(k) /\ LastIsMemory(k)
    BY <1>6 DEF ChainInv
  <2>2. level[k] \subseteq level'[k] /\ visible'[k] = visible[k] /\ durable'[k] = durable[k]
    BY <1>2, <1>4
  <2>3. ASSUME NEW i \in 1 .. m, pending'[i].key = k
        PROVE  visible[k] \subseteq pending'[i].value /\ pending'[i].value \subseteq level'[k]
    <3>1. CASE i = m
      BY <1>3, <1>5, <2>1, <2>2, <2>3, <3>1 DEF Chained
    <3>2. CASE i \in 1 .. (m - 1)
      BY <1>5, <2>1, <2>2, <2>3, <3>2 DEF Chained
    <3>. QED  BY <1>5, <3>1, <3>2
  <2>4. ASSUME NEW i \in 1 .. m, NEW j \in 1 .. m, i < j, pending'[i].key = k, pending'[j].key = k
        PROVE  pending'[i].value \subseteq pending'[j].value
    <3>1. i \in 1 .. (m - 1)
      BY <1>5, <2>4
    <3>2. CASE j = m
      <4>1. pending'[j].value = level'[k]
        BY <1>3, <1>5, <2>4, <3>2
      <4>. QED  BY <2>3, <2>4, <4>1
    <3>3. CASE j \in 1 .. (m - 1)
      BY <1>5, <2>1, <2>4, <3>1, <3>3 DEF Chained
    <3>. QED  BY <1>5, <3>2, <3>3
  <2>5. Chained(k)'
    BY <1>2, <1>5, <2>1, <2>2, <2>3, <2>4 DEF Chained
  <2>6. ASSUME NEW i \in 1 .. m, pending'[i].key = k, \A j \in 1 .. m : i < j => pending'[j].key # k
        PROVE  pending'[i].value = level'[k]
    <3>1. CASE i = m
      BY <1>3, <1>5, <2>6, <3>1
    <3>2. CASE i \in 1 .. (m - 1)
      <4>1. m \in 1 .. m /\ i < m
        BY <1>5, <3>2
      <4>2. k # n
        BY <1>3, <1>5, <2>6, <4>1
      <4>3. \A j \in 1 .. (m - 1) : j \in 1 .. m /\ pending'[j] = pending[j]
        BY <1>5
      <4>. QED  BY <1>4, <1>5, <2>1, <2>6, <3>2, <4>2, <4>3 DEF LastIsMemory
    <3>. QED  BY <1>5, <3>1, <3>2
  <2>. QED  BY <1>5, <2>5, <2>6 DEF LastIsMemory
<1>7. ASSUME NEW k \in Levels \ (blind \union behind) PROVE Inserted(k)' /\ Committed(k)'
  <2>1. Inserted(k) /\ Committed(k)
    BY <1>7 DEF LastInv
  <2>2. ASSUME \A i \in 1 .. m : pending'[i].key # k PROVE k # n /\ \A i \in 1 .. (m - 1) : pending[i].key # k
    <3>1. m \in 1 .. m /\ \A i \in 1 .. (m - 1) : i \in 1 .. m
      BY <1>5
    <3>. QED  BY <1>3, <1>5, <2>2, <3>1
  <2>. QED  BY <1>2, <1>4, <1>5, <2>1, <2>2 DEF Inserted, Committed
<1>. QED  BY <1>2, <1>6, <1>7 DEF ChainInv, LastInv

(* The first save that waits is inserted, or its level noted.               *)
LEMMA ChainPersist ==
  ASSUME LInv, ChainInv, LastInv, PersistBegins
  PROVE  ChainInv' /\ LastInv'
<1>. DEFINE s == Head(pending)
            l == Len(pending)
<1>1. /\ pending # <<>> /\ pending \in Seq(LevelSaves) /\ visible \in [Keys -> SUBSET Samples]
      /\ pending' = Tail(pending) /\ UNCHANGED <<level, next, blind, durable>>
  BY DEF PersistBegins, LInv, TypeOK, StorageType, LevelType, Insert, Fails, storage
<1>2. \/ /\ visible' = [visible EXCEPT ![s.key] = s.value]
         /\ committing' = committing \union {s} /\ behind' = behind
      \/ visible' = visible /\ committing' = committing /\ behind' = behind \union {s.key}
  BY DEF PersistBegins, Insert, Fails, storage
<1>3. /\ l \in Nat \ {0} /\ DOMAIN pending = 1 .. l /\ s = pending[1] /\ DOMAIN pending' = 1 .. (l - 1)
      /\ \A i \in 1 .. (l - 1) : pending'[i] = pending[i + 1] /\ i + 1 \in 1 .. l /\ 1 < i + 1
      /\ \A i \in 1 .. l : i # 1 => i - 1 \in 1 .. (l - 1) /\ (i - 1) + 1 = i
      /\ 1 \in 1 .. l
  BY <1>1
<1>. HIDE DEF s, l
<1>4. s \in LevelSaves /\ s.key \in Keys
  <2>1. s \in LevelSaves
    BY ONLY <1>1, <1>3, ElementOfSeq
  <2>. QED  BY <2>1 DEF LevelSaves
<1>5. \A k \in Keys : visible'[k] = visible[k] \/ (k = s.key /\ visible'[k] = s.value /\ s \in committing')
  BY <1>1, <1>2, <1>4
<1>6. ASSUME NEW k \in Levels \ blind PROVE Chained(k)' /\ LastIsMemory(k)'
  <2>1. Chained(k) /\ LastIsMemory(k) /\ k \in Keys
    BY <1>6 DEF ChainInv
  <2>2. /\ visible[k] \subseteq visible'[k] /\ visible'[k] \subseteq level[k]
        /\ \A i \in 1 .. (l - 1) : pending'[i].key = k => visible'[k] \subseteq pending'[i].value
    <3>0. \A i \in 1 .. (l - 1) : pending'[i].key = k =>
            visible[k] \subseteq pending'[i].value /\ (s.key = k => s.value \subseteq pending'[i].value)
      <4>1. ASSUME NEW i \in 1 .. (l - 1), pending'[i].key = k
            PROVE  visible[k] \subseteq pending'[i].value /\ (s.key = k => s.value \subseteq pending'[i].value)
        <5>1. pending'[i] = pending[i + 1] /\ i + 1 \in DOMAIN pending /\ 1 \in DOMAIN pending /\ 1 < i + 1
          BY ONLY <1>3, i \in 1 .. (l - 1)
        <5>. QED  BY ONLY <1>3, <2>1, <4>1, <5>1 DEF Chained
      <4>. QED  BY <4>1
    <3>1. CASE visible'[k] = visible[k]
      BY ONLY <2>1, <3>0, <3>1 DEF Chained
    <3>2. CASE k = s.key /\ visible'[k] = s.value
      <4>1. 1 \in DOMAIN pending /\ pending[1] = s
        BY <1>3
      <4>. QED  BY ONLY <2>1, <3>0, <3>2, <4>1 DEF Chained
    <3>. QED  BY <1>5, <2>1, <3>1, <3>2
  <2>3. \A q \in committing' : q.key = k => q.value \subseteq visible'[k]
    <3>1. ASSUME NEW q \in committing, q.key = k PROVE q.value \subseteq visible'[k]
      BY <2>1, <2>2, <3>1 DEF Chained
    <3>2. ASSUME committing' = committing \union {s}, s.key = k PROVE s.value \subseteq visible'[k]
      <4>1. CASE visible' = [visible EXCEPT ![s.key] = s.value]
        BY <1>1, <1>4, <3>2, <4>1
      <4>2. CASE committing' = committing
        BY <3>1, <3>2, <4>2
      <4>. QED  BY <1>2, <4>1, <4>2
    <3>. QED  BY <1>2, <3>1, <3>2
  <2>4. Chained(k)'
    <3>1. ASSUME NEW i \in 1 .. (l - 1), pending'[i].key = k PROVE pending'[i].value \subseteq level[k]
      <4>1. pending'[i] = pending[i + 1] /\ i + 1 \in DOMAIN pending
        BY ONLY <1>3, i \in 1 .. (l - 1)
      <4>. QED  BY ONLY <2>1, <3>1, <4>1 DEF Chained
    <3>2. ASSUME NEW i \in 1 .. (l - 1), NEW j \in 1 .. (l - 1), i < j, pending'[i].key = k, pending'[j].key = k
          PROVE  pending'[i].value \subseteq pending'[j].value
      <4>1. i + 1 < j + 1
        BY <1>3, <3>2
      <4>2. /\ pending'[i] = pending[i + 1] /\ i + 1 \in DOMAIN pending
            /\ pending'[j] = pending[j + 1] /\ j + 1 \in DOMAIN pending
        BY ONLY <1>3, i \in 1 .. (l - 1), j \in 1 .. (l - 1)
      <4>. QED  BY ONLY <2>1, <3>2, <4>1, <4>2 DEF Chained
    <3>3. durable'[k] \subseteq visible'[k] /\ level'[k] = level[k]
      BY <1>1, <2>1, <2>2 DEF Chained
    <3>. QED  BY <1>1, <1>3, <2>2, <2>3, <3>1, <3>2, <3>3 DEF Chained
  <2>5. LastIsMemory(k)'
    <3>1. ASSUME NEW i \in 1 .. (l - 1), pending'[i].key = k,
                 \A j \in 1 .. (l - 1) : i < j => pending'[j].key # k
          PROVE  pending'[i].value = level[k]
      <4>1. ASSUME NEW j \in 1 .. l, i + 1 < j PROVE pending[j].key # k
        <5>1. j # 1 /\ j - 1 \in 1 .. (l - 1) /\ (j - 1) + 1 = j /\ i < j - 1
          BY <1>3, <4>1
        <5>2. pending'[j - 1] = pending[(j - 1) + 1]
          BY ONLY <1>3, <5>1
        <5>. QED  BY ONLY <3>1, <5>1, <5>2
      <4>2. pending'[i] = pending[i + 1] /\ i + 1 \in DOMAIN pending
        BY ONLY <1>3, i \in 1 .. (l - 1)
      <4>. QED  BY ONLY <1>3, <2>1, <3>1, <4>1, <4>2 DEF LastIsMemory
    <3>. QED  BY <1>1, <1>3, <3>1 DEF LastIsMemory
  <2>. QED  BY <2>4, <2>5
<1>7. ASSUME NEW k \in Levels \ (blind' \union behind') PROVE Inserted(k)' /\ Committed(k)'
  <2>1. Inserted(k) /\ Committed(k) /\ Chained(k) /\ LastIsMemory(k) /\ k \in Keys
    BY <1>1, <1>2, <1>7 DEF LastInv, ChainInv
  <2>2. CASE k = s.key
    <3>1. visible'[k] = s.value /\ s \in committing'
      BY <1>1, <1>2, <1>4, <1>7, <2>2
    <3>2. ASSUME \A i \in 1 .. (l - 1) : pending'[i].key # k PROVE s.value = level[k]
      <4>1. \A j \in 1 .. l : 1 < j => pending[j].key # k
        BY <1>3, <3>2
      <4>. QED  BY <1>3, <2>1, <2>2, <4>1 DEF LastIsMemory
    <3>. QED  BY <1>1, <1>3, <2>2, <3>1, <3>2 DEF Inserted, Committed
  <2>3. CASE k # s.key
    <3>1. visible'[k] = visible[k] /\ level'[k] = level[k] /\ durable'[k] = durable[k]
      BY <1>1, <1>5, <2>1, <2>3
    <3>2. ASSUME \A i \in 1 .. (l - 1) : pending'[i].key # k PROVE \A i \in 1 .. l : pending[i].key # k
      BY <1>3, <2>3, <3>2
    <3>3. committing \subseteq committing'
      BY <1>2
    <3>. QED  BY <1>3, <2>1, <3>1, <3>2, <3>3 DEF Inserted, Committed
  <2>. QED  BY <2>2, <2>3
<1>. QED  BY <1>1, <1>6, <1>7 DEF ChainInv, LastInv

(* A commit makes the rows of the file those of the connection, and the      *)
(* save of what memory has now has inserted it; a commit that raises is      *)
(* noted.                                                                    *)
LEMMA ChainReturns ==
  ASSUME LInv, ChainInv, LastInv, PersistReturns
  PROVE  ChainInv' /\ LastInv'
<1>1. PICK s \in committing :
        /\ committing' = committing \ {s}
        /\ \/ Commit /\ behind' = IF s.value = level[s.key] THEN behind \ {s.key} ELSE behind
           \/ Fails /\ behind' = behind \union {s.key}
        /\ UNCHANGED <<level, next, pending, blind>>
  BY DEF PersistReturns
<1>2. s.key \in Levels
  BY DEF LInv, TypeOK, LevelType, LevelSaves
<1>3. ASSUME NEW k \in Levels \ blind PROVE Chained(k)' /\ LastIsMemory(k)'
  <2>1. Chained(k) /\ LastIsMemory(k)
    BY <1>3 DEF ChainInv
  <2>2. visible'[k] = visible[k] /\ durable'[k] \in {durable[k], visible[k]}
    BY <1>1 DEF Commit, Fails, storage
  <2>3. LastIsMemory(k)'
    BY ONLY <1>1, <2>1 DEF LastIsMemory
  <2>4. Chained(k)'
    BY ONLY <1>1, <2>1, <2>2 DEF Chained
  <2>. QED  BY <2>3, <2>4
<1>4. ASSUME NEW k \in Levels \ (blind' \union behind') PROVE Inserted(k)' /\ Committed(k)'
  <2>1. Chained(k) /\ LastIsMemory(k)
    BY <1>1, <1>4 DEF ChainInv
  <2>2. CASE Commit /\ behind' = IF s.value = level[s.key] THEN behind \ {s.key} ELSE behind
    <3>1. visible' = visible /\ durable' = visible
      BY <2>2 DEF Commit
    <3>2. Inserted(k)
      <4>1. CASE k \notin behind
        BY <1>1, <1>4, <4>1 DEF LastInv
      <4>2. CASE k \in behind
        <5>1. k = s.key /\ s.value = level[k]
          BY <1>1, <1>4, <2>2, <4>2
        <5>2. s.value \subseteq visible[k] /\ visible[k] \subseteq level[k]
          BY ONLY <2>1, <5>1, s \in committing DEF Chained
        <5>. QED  BY ONLY <5>1, <5>2 DEF Inserted
      <4>. QED  BY <4>1, <4>2
    <3>. QED  BY ONLY <1>1, <3>1, <3>2 DEF Inserted, Committed
  <2>3. CASE Fails /\ behind' = behind \union {s.key}
    <3>1. k # s.key /\ Inserted(k) /\ Committed(k)
      BY <1>1, <1>4, <2>3 DEF LastInv
    <3>2. visible' = visible /\ durable' = durable
      BY <2>3 DEF Fails, storage
    <3>. QED  BY ONLY <1>1, <3>1, <3>2 DEF Inserted, Committed
  <2>. QED  BY <1>1, <2>2, <2>3
<1>. QED  BY <1>1, <1>3, <1>4 DEF ChainInv, LastInv

(* An operation on a DNA leaves the rows of the levels, or commits them.     *)
LEMMA ChainDna ==
  ASSUME LInv, ChainInv, LastInv, NEW o \in Ops, DnaStep(o), UNCHANGED <<levelVars, restarts>>
  PROVE  ChainInv' /\ LastInv'
<1>1. DnaKind(o) /\ Agent(o) \in Agents /\ visible \in [Keys -> SUBSET Samples]
  BY DnaKinds, AgentType DEF LInv, TypeOK, StorageType
<1>2. ASSUME NEW k \in Levels PROVE visible'[k] = visible[k] /\ durable'[k] \in {durable[k], visible[k]}
  <2>1. k \in Keys /\ k # Agent(o)
    BY <1>1
  <2>2. \/ UNCHANGED <<visible, durable>>
        \/ durable' = visible /\ visible' = visible
        \/ (\E v : visible' = [visible EXCEPT ![Agent(o)] = v]) /\ durable' = durable
    BY <1>1 DEF DnaKind, GivesUp, ReadsRow, Returns, Loads, Writes, Insert, Commit, storage
  <2>. QED  BY ONLY <1>1, <2>1, <2>2
<1>3. UNCHANGED <<level, next, pending, committing, behind, blind>>
  BY DEF levelVars
<1>4. ASSUME NEW k \in Levels \ blind PROVE Chained(k)' /\ LastIsMemory(k)'
  <2>1. Chained(k) /\ LastIsMemory(k)
    BY <1>4 DEF ChainInv
  <2>2. visible'[k] = visible[k] /\ durable'[k] \in {durable[k], visible[k]}
    BY <1>2
  <2>3. Chained(k)'
    BY ONLY <1>3, <2>1, <2>2 DEF Chained
  <2>. QED  BY ONLY <1>3, <2>1, <2>3 DEF LastIsMemory
<1>5. ASSUME NEW k \in Levels \ (blind \union behind) PROVE Inserted(k)' /\ Committed(k)'
  <2>1. Inserted(k) /\ Committed(k)
    BY <1>5 DEF LastInv
  <2>2. visible'[k] = visible[k] /\ durable'[k] \in {durable[k], visible[k]}
    BY <1>2
  <2>. QED  BY ONLY <1>3, <2>1, <2>2 DEF Inserted, Committed
<1>. QED  BY <1>3, <1>4, <1>5 DEF ChainInv, LastInv

(* A new process has nothing to save, and the levels it could read.          *)
LEMMA ChainRestart ==
  ASSUME LInv, ChainInv, LastInv, Restart
  PROVE  ChainInv' /\ LastInv'
<1>1. visible' = durable /\ durable' = durable /\ pending' = <<>> /\ committing' = {} /\ behind' = {}
  BY DEF Restart, Reopen, LevelRestart
<1>2. \/ LoadExpertise /\ UNCHANGED blind
      \/ LoadRaises /\ blind' = blind \union {k \in Levels : durable[k] # {}}
  BY DEF Restart, LevelRestart
<1>3. ASSUME NEW k \in Levels \ blind' PROVE level'[k] = durable[k]
  BY <1>2 DEF LoadExpertise, LoadRaises
<1>4. DOMAIN pending' = {}
  BY <1>1
<1>5. ASSUME NEW k \in Levels \ blind'
      PROVE  Chained(k)' /\ LastIsMemory(k)' /\ Inserted(k)' /\ Committed(k)'
  BY ONLY <1>1, <1>3, <1>4, <1>5 DEF Chained, LastIsMemory, Inserted, Committed
<1>. QED  BY <1>5 DEF ChainInv, LastInv

(* What a step does to what is known of the levels.                          *)
LEMMA ChainStep ==
  ASSUME LInv, ChainInv, LastInv, [Next]_vars
  PROVE  ChainInv' /\ LastInv'
<1>1. CASE UNCHANGED vars
  <2>. USE <1>1 DEF vars, storage, levelVars
  <2>1. \A k \in Levels : Chained(k)' = Chained(k) /\ LastIsMemory(k)' = LastIsMemory(k)
    BY DEF Chained, LastIsMemory
  <2>2. \A k \in Levels : Inserted(k)' = Inserted(k) /\ Committed(k)' = Committed(k)
    BY DEF Inserted, Committed
  <2>. QED  BY <2>1, <2>2 DEF ChainInv, LastInv
<1>2. CASE StoreRaises
  <2>. USE <1>2 DEF StoreRaises, storage
  <2>1. \A k \in Levels : Chained(k)' = Chained(k) /\ LastIsMemory(k)' = LastIsMemory(k)
    BY DEF Chained, LastIsMemory
  <2>2. \A k \in Levels : Inserted(k)' = Inserted(k) /\ Committed(k)' = Committed(k)
    BY DEF Inserted, Committed
  <2>. QED  BY <2>1, <2>2 DEF ChainInv, LastInv
<1>. QED  BY <1>1, <1>2, ChainStore, ChainPersist, ChainReturns, ChainDna, ChainRestart
          DEF Next, Dna, Graph, LevelStep

(* At first no level is known of.                                            *)
LEMMA ChainInit == Init => ChainInv /\ LastInv
<1>. SUFFICES ASSUME Init PROVE ChainInv /\ LastInv
  OBVIOUS
<1>1. /\ \A k \in Levels : visible[k] = {} /\ durable[k] = {} /\ level[k] = {}
      /\ DOMAIN pending = {} /\ committing = {}
  BY DEF Init, StorageInit, LevelInit
<1>2. ASSUME NEW k \in Levels PROVE Chained(k) /\ LastIsMemory(k) /\ Inserted(k) /\ Committed(k)
  BY ONLY <1>1, <1>2 DEF Chained, LastIsMemory, Inserted, Committed
<1>. QED  BY <1>2 DEF ChainInv, LastInv

(* Along memory, the saves and the database nothing is ever known that was   *)
(* not known before it in the chain, whatever order the saves end in.        *)
THEOREM LevelsAreChained == Spec => [](LInv /\ ChainInv /\ LastInv)
<1>. USE ChainInit, ChainStep, LearningInit, LearningTyped
<1>1. Init => LInv /\ ChainInv /\ LastInv
  OBVIOUS
<1>2. LInv /\ ChainInv /\ LastInv /\ [Next]_vars => (LInv /\ ChainInv /\ LastInv)'
  OBVIOUS
<1>. QED  BY <1>1, <1>2, PTL DEF Spec

(* SettledIsSaved: when no save of a level is under way the database has the *)
(* level of memory, unless its latest save raised (_persist_expertise).      *)
THEOREM SettledLevelsAreSaved == Spec => []SettledIsSaved
<1>1. LastInv => SettledIsSaved
  BY DEF LastInv, Inserted, Committed, SettledIsSaved
<1>. QED  BY <1>1, LevelsAreChained, PTL

(* KnowledgeGrows: no save, in whatever order, makes the database forget a   *)
(* result (_update_expertise_ema, load_expertise).                           *)
THEOREM NoResultIsForgotten == Spec => KnowledgeGrows
<1>. DEFINE Grows == \A k \in Levels \ blind' : durable[k] \subseteq durable'[k]
<1>1. ASSUME LInv, ChainInv, [Next]_vars PROVE [Grows]_durable
  <2>1. \/ durable' = durable
        \/ durable' = visible /\ blind' = blind
    <3>1. CASE UNCHANGED vars
      BY <3>1 DEF vars, storage
    <3>2. CASE Restart
      BY <3>2 DEF Restart, Reopen
    <3>3. CASE Graph
      BY <3>3 DEF Graph, LevelStep, StoreResult, StoreRaises, PersistBegins, PersistReturns, Insert, Commit, Fails,
                  storage
    <3>4. ASSUME NEW o \in Ops, DnaStep(o), UNCHANGED <<levelVars, restarts>>
          PROVE  durable' = durable \/ (durable' = visible /\ blind' = blind)
      <4>1. DnaKind(o)
        BY <1>1, <3>4, DnaKinds
      <4>2. blind' = blind
        BY <3>4 DEF levelVars
      <4>. QED  BY <4>1, <4>2
                DEF DnaKind, GivesUp, ReadsRow, Returns, Loads, Writes, Insert, Commit, storage
    <3>. QED  BY <1>1, <3>1, <3>2, <3>3, <3>4 DEF Next, Dna
  <2>2. \A k \in Levels \ blind : durable[k] \subseteq visible[k]
    BY <1>1 DEF ChainInv, Chained
  <2>. QED  BY <2>1, <2>2
<1>. QED  BY <1>1, LevelsAreChained, PTL DEF Spec, KnowledgeGrows

-------------------------------------------------------------------------------
(* DNAs.  What a reader was given is older than all that is written or held: *)
(* a reader exists only since the DNA was not in the cache, and everything   *)
(* that was cached, written or taken since contains what it was given.       *)
Reads(o, a) == at[o] = "reading" /\ Agent(o) = a
Writing(o, a) == at[o] = "committing" /\ Agent(o) = a
Unfailed(a) == \A o \in Ops : <<o, a>> \notin failed
Fresh(a) ==
  /\ \A p \in Ops : Reads(p, a) => /\ copy[p] \subseteq visible[a]
                                   /\ a \in loaded => copy[p] \subseteq cache[a]
                                   /\ \A q \in Holders(a) : copy[p] \subseteq copy[q]
  /\ a \notin loaded => \A p \in Holders(a) : at[p] = "reading" /\ copy[p] = visible[a]

(* While no save has raised, what is cached was inserted, and what was       *)
(* inserted and is not being committed was committed.                        *)
Behind(a) == Unfailed(a) =>
  /\ a \in loaded => cache[a] \subseteq visible[a]
  /\ (\A o \in Ops : ~Writing(o, a)) => durable[a] = visible[a]

(* A sample that was inserted while nobody else held a copy is wherever the  *)
(* DNA is, and in the file once its save returned.                           *)
Written(o, a) == (<<o, a>> \in saved \/ Writing(o, a)) /\ <<o, a>> \notin raced
Counted(a) == \A o \in Ops : Written(o, a) =>
  /\ o \in visible[a]
  /\ a \in loaded => o \in cache[a]
  /\ \A p \in Holders(a) : o \in copy[p]
  /\ <<o, a>> \in saved => o \in durable[a]

Sound(a) == Fresh(a) /\ Behind(a) /\ Counted(a)
DnaInv == \A a \in Agents : Sound(a)

(* A step that neither writes nor reads the DNA of a: holders may go, its    *)
(* rows may be committed, a save of it may return or raise.                  *)
Quiet(a) ==
  /\ visible'[a] = visible[a] /\ durable'[a] \in {durable[a], visible[a]}
  /\ cache'[a] = cache[a] /\ (a \in loaded' <=> a \in loaded)
  /\ \A p \in Holders(a)' : p \in Holders(a) /\ at'[p] = at[p] /\ copy'[p] = copy[p]
  /\ \A p \in Ops : /\ Written(p, a)' => Written(p, a)
                    /\ <<p, a>> \in saved' => <<p, a>> \in saved \/ durable'[a] = visible[a]
                    /\ Reads(p, a)' => Reads(p, a) /\ copy'[p] = copy[p]
  /\ Unfailed(a)' => Unfailed(a)
  /\ \/ ~Unfailed(a)'
     \/ durable'[a] = visible[a]
     \/ durable'[a] = durable[a] /\ \A p \in Ops : Writing(p, a) => Writing(p, a)'

(* Such a step keeps the invariant.                                          *)
LEMMA QuietStep == ASSUME NEW a, Sound(a), Quiet(a) PROVE Sound(a)'
<1>. USE DEF Sound, Quiet
<1>1. Fresh(a)'
  <2>1. ASSUME NEW p \in Ops, Reads(p, a)'
        PROVE  /\ copy'[p] \subseteq visible'[a]
               /\ a \in loaded' => copy'[p] \subseteq cache'[a]
               /\ \A q \in Holders(a)' : copy'[p] \subseteq copy'[q]
    BY <2>1 DEF Fresh
  <2>2. ASSUME a \notin loaded', NEW p \in Holders(a)' PROVE at'[p] = "reading" /\ copy'[p] = visible'[a]
    BY <2>2 DEF Fresh
  <2>. QED  BY <2>1, <2>2 DEF Fresh
<1>2. Behind(a)'
  BY DEF Behind
<1>3. Counted(a)'
  BY DEF Counted
<1>. QED  BY <1>1, <1>2, <1>3

(* The operations other than o are where they were.                          *)
LEMMA OthersStay ==
  ASSUME NEW o \in Ops, Others(o), NEW p \in Ops, p # o, NEW a
  PROVE  /\ p \in Holders(a)' <=> p \in Holders(a)
         /\ Reads(p, a)' <=> Reads(p, a)
         /\ Writing(p, a)' <=> Writing(p, a)
         /\ copy'[p] = copy[p] /\ at'[p] = at[p]
<1>1. at'[p] = at[p] /\ visit'[p] = visit[p] /\ copy'[p] = copy[p]
  BY DEF Others
<1>2. Agent(p)' = Agent(p)
  BY <1>1 DEF Agent
<1>. QED  BY <1>1, <1>2 DEF Holders, Reads, Writing

(* o itself stays with its agent, or is nowhere.                             *)
LEMMA WhereItIs ==
  ASSUME NEW o \in Ops, NEW where, Gone(o) \/ Stays(o, where), NEW a
  PROVE  /\ Gone(o) \/ (at'[o] = where /\ Agent(o)' = Agent(o))
         /\ Gone(o) => o \notin Holders(a)' /\ ~Reads(o, a)' /\ ~Writing(o, a)'
         /\ a # Agent(o) => o \notin Holders(a)' /\ ~Reads(o, a)' /\ ~Writing(o, a)'
<1>1. CASE Stays(o, where)
  <2>1. at'[o] = where /\ Agent(o)' = Agent(o)
    BY <1>1 DEF Stays, Agent
  <2>. QED  BY <2>1 DEF Gone, Holders, Reads, Writing
<1>2. CASE Gone(o)
  BY <1>2 DEF Gone, Holders, Reads, Writing
<1>. QED  BY <1>1, <1>2

(* A step of an operation does not read or write another agent's DNA.        *)
LEMMA OtherAgents ==
  ASSUME LInv, NEW o \in Ops, Others(o), DnaKind(o), NEW a \in Agents, a # Agent(o)
  PROVE  Quiet(a)
<1>1. /\ Agent(o) \in Agents /\ Agent(o) \in Keys /\ a \in Keys
      /\ visible \in [Keys -> SUBSET Samples] /\ cache \in [Agents -> SUBSET Ops]
  BY AgentType DEF LInv, TypeOK, StorageType, DnaType
<1>2. \E where : Gone(o) \/ Stays(o, where)
  BY DEF DnaKind, GivesUp, ReadsRow, Loads, Writes, Returns
<1>3. o \notin Holders(a)' /\ ~Reads(o, a)' /\ ~Writing(o, a)' /\ ~Writing(o, a)
  BY <1>2, WhereItIs DEF Writing
<1>4. \/ UNCHANGED storage
      \/ durable' = visible /\ visible' = visible
      \/ (\E v : visible' = [visible EXCEPT ![Agent(o)] = v]) /\ durable' = durable
  BY DEF DnaKind, GivesUp, ReadsRow, Returns, Loads, Writes, Insert, Commit, storage
<1>5. visible'[a] = visible[a] /\ (durable'[a] = durable[a] \/ durable'[a] = visible[a])
  BY ONLY <1>1, <1>4, a # Agent(o) DEF storage
<1>6. \/ UNCHANGED <<loaded, cache>>
      \/ \E v : CacheSet(Agent(o), v)
  BY DEF DnaKind, GivesUp, ReadsRow, Returns, Loads, Writes
<1>7. cache'[a] = cache[a] /\ (a \in loaded' <=> a \in loaded)
  BY ONLY <1>1, <1>6, a # Agent(o) DEF CacheSet
<1>8. ASSUME NEW p \in Ops
      PROVE  /\ <<p, a>> \in saved' <=> <<p, a>> \in saved
             /\ <<p, a>> \in failed' <=> <<p, a>> \in failed
             /\ <<p, a>> \in raced' <=> <<p, a>> \in raced
  BY DEF DnaKind, GivesUp, ReadsRow, Returns, Loads, Writes, NotedFailed, history
<1>9. ASSUME NEW p \in Ops
      PROVE  /\ p \in Holders(a)' => p \in Holders(a) /\ at'[p] = at[p] /\ copy'[p] = copy[p]
             /\ Reads(p, a)' => Reads(p, a) /\ copy'[p] = copy[p]
             /\ Writing(p, a)' <=> Writing(p, a)
  BY <1>3, OthersStay
<1>10. \A p \in Holders(a)' : p \in Ops
  BY DEF Holders
<1>. QED  BY <1>5, <1>7, <1>8, <1>9, <1>10 DEF Quiet, Written, Unfailed

(* Giving up only ends a hold; a save that returns or raises only ends the   *)
(* commit.                                                                   *)
LEMMA QuietKinds ==
  ASSUME LInv, NEW o \in Ops, Others(o), GivesUp(o) \/ Returns(o), NEW a, a = Agent(o)
  PROVE  Quiet(a)
<1>1. Gone(o)
  BY DEF GivesUp, Returns
<1>2. o \notin Holders(a)' /\ ~Reads(o, a)' /\ ~Writing(o, a)'
  BY <1>1, WhereItIs
<1>3. cache' = cache /\ loaded' = loaded /\ visible' = visible /\ raced' = raced
  BY DEF GivesUp, Returns, history, storage, Commit
<1>4. ASSUME NEW p \in Ops
      PROVE  /\ p \in Holders(a)' => p \in Holders(a) /\ at'[p] = at[p] /\ copy'[p] = copy[p]
             /\ Reads(p, a)' => Reads(p, a) /\ copy'[p] = copy[p]
             /\ Writing(p, a)' => Writing(p, a)
             /\ p # o /\ Writing(p, a) => Writing(p, a)'
  BY <1>2, OthersStay
<1>5. \A p \in Holders(a)' : p \in Ops
  BY DEF Holders
<1>6. CASE GivesUp(o)
  <2>1. ~Writing(o, a) /\ saved' = saved /\ failed' = failed /\ durable' = durable
    BY <1>6 DEF GivesUp, history, storage, Writing
  <2>. QED  BY <1>3, <1>4, <1>5, <2>1 DEF Quiet, Written, Unfailed
<1>7. CASE at[o] = "committing" /\ Commit /\ saved' = saved \union {<<o, a>>} /\ failed' = failed
  <2>1. Writing(o, a) /\ durable' = visible
    BY <1>7 DEF Writing, Commit
  <2>2. \A p \in Ops : <<p, a>> \in saved' => <<p, a>> \in saved \/ p = o
    BY <1>7
  <2>. QED  BY <1>3, <1>4, <1>5, <1>7, <2>1, <2>2 DEF Quiet, Written, Unfailed
<1>8. CASE durable' = durable /\ saved' = saved /\ failed' = failed \union {<<o, a>>}
  <2>1. ~Unfailed(a)'
    BY <1>8 DEF Unfailed
  <2>. QED  BY <1>3, <1>4, <1>5, <1>8, <2>1 DEF Quiet, Written, Unfailed
<1>. QED  BY <1>6, <1>7, <1>8 DEF Returns, NotedFailed, storage

(* A row is read only when nothing of the agent is in the cache.             *)
LEMMA ReadKeeps ==
  ASSUME LInv, NEW o \in Ops, Others(o), ReadsRow(o), NEW a, a = Agent(o), Sound(a)
  PROVE  Sound(a)'
<1>. USE DEF Sound
<1>1. /\ a \notin loaded /\ loaded' = loaded /\ cache' = cache /\ visible' = visible /\ durable' = durable
      /\ saved' = saved /\ failed' = failed /\ raced' = raced
      /\ copy'[o] = visible[a] /\ at'[o] = "reading" /\ at[o] = "idle"
  BY DEF ReadsRow, history, storage, Stays
<1>2. Agent(o)' = a
  BY DEF ReadsRow, Stays, Agent
<1>3. ~Writing(o, a) /\ ~Writing(o, a)'
  BY <1>1 DEF Writing
<1>4. ASSUME NEW p \in Ops
      PROVE  /\ Writing(p, a)' <=> Writing(p, a)
             /\ Written(p, a)' <=> Written(p, a)
             /\ p \in Holders(a)' => at'[p] = "reading" /\ copy'[p] = visible[a]
  <2>1. Writing(p, a)' <=> Writing(p, a)
    BY <1>3, OthersStay
  <2>2. p \in Holders(a)' => at'[p] = "reading" /\ copy'[p] = visible[a]
    <3>1. CASE p = o
      BY <1>1, <3>1
    <3>2. CASE p # o
      BY <1>1, <3>2, OthersStay DEF Fresh
    <3>. QED  BY <3>1, <3>2
  <2>. QED  BY <1>1, <2>1, <2>2 DEF Written
<1>5. \A p \in Holders(a)' : p \in Ops
  BY DEF Holders
<1>6. Fresh(a)'
  <2>1. ASSUME NEW p \in Ops, Reads(p, a)' PROVE p \in Holders(a)'
    BY <2>1 DEF Reads, Holders
  <2>. QED  BY <1>1, <1>4, <1>5, <2>1 DEF Fresh
<1>7. Behind(a)'
  BY <1>1, <1>4 DEF Behind, Unfailed
<1>8. Counted(a)'
  <2>1. ASSUME NEW p \in Ops, Written(p, a)
        PROVE  /\ p \in visible'[a] /\ a \notin loaded'
               /\ \A q \in Holders(a)' : p \in copy'[q]
               /\ <<p, a>> \in saved' => p \in durable'[a]
    BY <1>1, <1>4, <1>5, <2>1 DEF Counted
  <2>. QED  BY ONLY <1>4, <2>1 DEF Counted
<1>. QED  BY <1>6, <1>7, <1>8

(* What an operation uses is no older than what any reader was given, has    *)
(* all that was written and not raced, and, until a save raises, nothing     *)
(* that was not inserted, unless it was held through other operations.       *)
LEMMA SourceFacts ==
  ASSUME LInv, NEW o \in Ops, NEW value, Source(o, value), NEW a, a = Agent(o), Sound(a)
  PROVE  /\ \A p \in Ops : Reads(p, a) => copy[p] \subseteq value
         /\ \A p \in Ops : Written(p, a) => p \in value
         /\ Unfailed(a) /\ at[o] # "holding" => value \subseteq visible[a]
<1>. USE DEF Sound
<1>1. CASE at[o] = "idle" /\ a \in loaded /\ value = cache[a]
  BY <1>1 DEF Fresh, Behind, Counted
<1>2. CASE at[o] \in {"reading", "holding"} /\ value = copy[o]
  <2>1. o \in Holders(a) /\ (at[o] # "holding" => Reads(o, a))
    BY <1>2 DEF Holders, Reads
  <2>. QED  BY <1>2, <2>1 DEF Fresh, Counted
<1>. QED  BY <1>1, <1>2 DEF Source

(* What was loaded is cached, and held if a task begins.                     *)
LEMMA LoadKeeps ==
  ASSUME LInv, NEW o \in Ops, Others(o), NEW value, Loads(o, value), NEW a, a = Agent(o), Sound(a)
  PROVE  Sound(a)'
<1>. USE DEF Sound
<1>1. /\ a \in loaded' /\ cache'[a] = value /\ visible' = visible /\ durable' = durable
      /\ saved' = saved /\ failed' = failed /\ raced' = raced
      /\ at[o] \in {"idle", "reading"}
  <2>1. a \in Agents
    BY AgentType DEF LInv, TypeOK
  <2>. QED  BY <2>1 DEF Loads, Source, history, storage, CacheSet, LInv, TypeOK, DnaType
<1>2. \/ at'[o] = "holding" /\ copy'[o] = value
      \/ Gone(o)
  BY DEF Loads, Stays
<1>3. ~Writing(o, a) /\ ~Writing(o, a)' /\ ~Reads(o, a)'
  BY <1>1, <1>2 DEF Writing, Reads, Gone
<1>4. /\ \A p \in Ops : Reads(p, a) => copy[p] \subseteq value
      /\ \A p \in Ops : Written(p, a) => p \in value
      /\ Unfailed(a) => value \subseteq visible[a]
  BY <1>1, SourceFacts DEF Loads
<1>5. ASSUME NEW p \in Ops
      PROVE  /\ Writing(p, a)' <=> Writing(p, a)
             /\ Written(p, a)' <=> Written(p, a)
             /\ Reads(p, a)' => Reads(p, a) /\ copy'[p] = copy[p]
             /\ p \in Holders(a)' => copy'[p] = value \/ (p \in Holders(a) /\ copy'[p] = copy[p])
  <2>1. Writing(p, a)' <=> Writing(p, a)
    BY <1>3, OthersStay
  <2>2. Reads(p, a)' => Reads(p, a) /\ copy'[p] = copy[p]
    BY <1>3, OthersStay
  <2>3. p \in Holders(a)' => copy'[p] = value \/ (p \in Holders(a) /\ copy'[p] = copy[p])
    BY <1>2, OthersStay, WhereItIs
  <2>. QED  BY <1>1, <2>1, <2>2, <2>3 DEF Written
<1>6. \A p \in Holders(a)' : p \in Ops
  BY DEF Holders
<1>7. Fresh(a)'
  BY <1>1, <1>4, <1>5, <1>6 DEF Fresh
<1>8. Behind(a)'
  BY <1>1, <1>4, <1>5 DEF Behind, Unfailed
<1>9. Counted(a)'
  <2>1. ASSUME NEW p \in Ops, Written(p, a)
        PROVE  /\ p \in visible'[a] /\ p \in cache'[a]
               /\ \A q \in Holders(a)' : p \in copy'[q]
               /\ <<p, a>> \in saved' => p \in durable'[a]
    BY <1>1, <1>4, <1>5, <1>6, <2>1 DEF Counted
  <2>. QED  BY ONLY <1>5, <2>1 DEF Counted
<1>. QED  BY <1>7, <1>8, <1>9

(* What was changed is cached, and inserted unless that raises.              *)
LEMMA WriteKeeps ==
  ASSUME LInv, NEW o \in Ops, Others(o), NEW value, Writes(o, value), NEW a, a = Agent(o), Sound(a)
  PROVE  Sound(a)'
<1>. DEFINE v == value \union {o}
<1>. USE DEF Sound
<1>1. /\ a \in loaded' /\ cache'[a] = v /\ durable' = durable /\ saved' = saved
      /\ raced' = IF Holders(a) \subseteq {o} THEN raced ELSE raced \union {<<o, a>>}
      /\ at[o] # "committing"
      /\ \/ visible'[a] = v /\ at'[o] = "committing" /\ Agent(o)' = a /\ failed' = failed
         \/ visible' = visible /\ Gone(o) /\ failed' = failed \union {<<o, a>>}
  <2>1. a \in Agents /\ a \in Keys
    BY AgentType DEF LInv, TypeOK
  <2>2. cache \in [Agents -> SUBSET Ops] /\ visible \in [Keys -> SUBSET Samples]
    BY DEF LInv, TypeOK, DnaType, StorageType
  <2>3. a \in loaded' /\ cache'[a] = v
    BY <2>1, <2>2 DEF Writes, CacheSet
  <2>4. \/ visible'[a] = v /\ durable' = durable /\ at'[o] = "committing" /\ Agent(o)' = a /\ failed' = failed
        \/ visible' = visible /\ durable' = durable /\ Gone(o) /\ failed' = failed \union {<<o, a>>}
    BY <2>1, <2>2 DEF Writes, Insert, storage, Stays, Agent, NotedFailed
  <2>. QED  BY <2>3, <2>4 DEF Writes, Source
<1>2. o \notin Holders(a)' /\ ~Reads(o, a)' /\ ~Writing(o, a)
  BY <1>1 DEF Holders, Reads, Writing, Gone
<1>3. /\ \A p \in Ops : Reads(p, a) => copy[p] \subseteq value
      /\ \A p \in Ops : Written(p, a) => p \in value
  BY SourceFacts DEF Writes
<1>4. ASSUME NEW p \in Ops
      PROVE  /\ p # o => (Writing(p, a)' <=> Writing(p, a))
             /\ Reads(p, a)' => Reads(p, a) /\ copy'[p] = copy[p]
             /\ p \in Holders(a)' => p # o /\ p \in Holders(a) /\ copy'[p] = copy[p]
  BY <1>2, OthersStay
<1>5. \A p \in Holders(a)' : p \in Ops
  BY DEF Holders
<1>6. Fresh(a)'
  <2>1. ASSUME NEW p \in Ops, Reads(p, a)'
        PROVE  /\ copy'[p] \subseteq visible'[a] /\ copy'[p] \subseteq cache'[a]
               /\ \A q \in Holders(a)' : copy'[p] \subseteq copy'[q]
    BY <1>1, <1>3, <1>4, <1>5, <2>1 DEF Fresh
  <2>. QED  BY <1>1, <2>1 DEF Fresh
<1>7. Behind(a)'
  <2>1. CASE visible'[a] = v /\ at'[o] = "committing" /\ Agent(o)' = a /\ failed' = failed
    <3>1. Writing(o, a)'
      BY <2>1 DEF Writing
    <3>. QED  BY <1>1, <2>1, <3>1 DEF Behind
  <2>2. CASE failed' = failed \union {<<o, a>>}
    BY <2>2 DEF Behind, Unfailed
  <2>. QED  BY <1>1, <2>1, <2>2
<1>8. Counted(a)'
  <2>1. ASSUME NEW p \in Ops, p # o, Written(p, a)'
        PROVE  /\ p \in visible'[a] /\ p \in cache'[a]
               /\ \A q \in Holders(a)' : p \in copy'[q]
               /\ <<p, a>> \in saved' => p \in durable'[a]
    <3>1. Written(p, a)
      BY <1>1, <1>4, <2>1 DEF Written
    <3>2. p \in value /\ p \in visible[a] /\ (\A q \in Holders(a) : p \in copy[q])
          /\ (<<p, a>> \in saved => p \in durable[a])
      BY <1>3, <3>1 DEF Counted
    <3>. QED  BY ONLY <1>1, <1>4, <1>5, <3>2
  <2>2. ASSUME Written(o, a)'
        PROVE  /\ o \in visible'[a] /\ o \in cache'[a]
               /\ \A q \in Holders(a)' : FALSE
               /\ <<o, a>> \in saved' => o \in durable'[a]
    <3>1. Holders(a) \subseteq {o} /\ <<o, a>> \notin raced
      BY <1>1, <2>2 DEF Written
    <3>2. \A q \in Holders(a)' : FALSE
      BY <1>4, <1>5, <3>1
    <3>3. <<o, a>> \in saved => o \in visible[a] /\ o \in durable[a]
      BY <3>1 DEF Counted, Written
    <3>4. o \in visible'[a]
      BY <1>1, <2>2, <3>3 DEF Written, Writing, Gone
    <3>. QED  BY <1>1, <3>2, <3>3, <3>4
  <2>. QED  BY ONLY <2>1, <2>2 DEF Counted
<1>. QED  BY <1>6, <1>7, <1>8

(* A new process holds nothing, and reads what was committed.                *)
LEMMA RestartKeeps == ASSUME LInv, Restart, NEW a \in Agents, Sound(a) PROVE Sound(a)'
<1>1. /\ visible' = durable /\ durable' = durable /\ loaded' = {}
      /\ saved' = saved /\ failed' = failed /\ raced' = raced
      /\ \A p \in Ops : at'[p] \in {"idle", "ended"}
  BY DEF Restart, Reopen, DnaRestart, history
<1>2. Holders(a)' = {} /\ \A p \in Ops : ~Reads(p, a)' /\ ~Writing(p, a)'
  BY <1>1 DEF Holders, Reads, Writing
<1>3. \A p \in Ops : Written(p, a)' => Written(p, a) /\ <<p, a>> \in saved
  BY <1>1, <1>2 DEF Written
<1>4. Fresh(a)'
  BY <1>1, <1>2 DEF Fresh
<1>5. Behind(a)'
  BY <1>1 DEF Behind
<1>6. Counted(a)'
  BY <1>1, <1>2, <1>3 DEF Counted, Sound
<1>. QED  BY <1>4, <1>5, <1>6 DEF Sound

(* The graph does not touch the DNAs; its commits commit them.               *)
LEMMA GraphIsQuiet == ASSUME LInv, Graph \/ UNCHANGED vars, NEW a \in Agents PROVE Quiet(a)
<1>1. UNCHANGED dnaVars
  BY DEF Graph, vars
<1>2. visible'[a] = visible[a] /\ (durable' = durable \/ durable' = visible)
  <2>1. CASE UNCHANGED storage
    BY <2>1 DEF storage
  <2>2. CASE Commit
    BY <2>2 DEF Commit
  <2>3. ASSUME NEW s, s = Head(pending), pending # <<>>, Insert(s.key, s.value)
        PROVE  visible'[a] = visible[a] /\ durable' = durable
    <3>1. s \in LevelSaves
      BY <2>3, ElementOfSeq DEF LInv, TypeOK, LevelType
    <3>2. s.key # a /\ a \in Keys /\ visible \in [Keys -> SUBSET Samples]
      BY <3>1 DEF LevelSaves, LInv, TypeOK, StorageType
    <3>. QED  BY <2>3, <3>2 DEF Insert
  <2>. QED  BY <2>1, <2>2, <2>3
            DEF vars, Graph, LevelStep, StoreResult, StoreRaises, PersistBegins, PersistReturns, Fails
<1>3. \A p \in Ops : /\ p \in Holders(a)' <=> p \in Holders(a)
                     /\ Reads(p, a)' <=> Reads(p, a)
                     /\ Writing(p, a)' <=> Writing(p, a)
  BY <1>1 DEF dnaVars, Holders, Reads, Writing, Agent
<1>4. \A p \in Holders(a)' : p \in Ops
  BY DEF Holders
<1>5. UNCHANGED <<loaded, cache, at, copy, saved, failed, raced>>
  BY <1>1 DEF dnaVars
<1>. QED  BY ONLY <1>2, <1>3, <1>4, <1>5 DEF Quiet, Written, Unfailed

(* Every step keeps what is known of the DNAs.                               *)
LEMMA DnaKept == LInv /\ DnaInv /\ [Next]_vars => DnaInv'
<1>. SUFFICES ASSUME LInv, DnaInv, [Next]_vars, NEW a \in Agents PROVE Sound(a)'
  BY DEF DnaInv
<1>1. Sound(a)
  BY DEF DnaInv
<1>2. CASE Graph \/ UNCHANGED vars
  BY <1>1, <1>2, GraphIsQuiet, QuietStep
<1>3. CASE Restart
  BY <1>1, <1>3, RestartKeeps
<1>4. CASE Dna
  <2>1. PICK o \in Ops : DnaStep(o)
    BY <1>4 DEF Dna
  <2>2. Others(o) /\ DnaKind(o)
    BY <2>1, DnaKinds
  <2>3. CASE a # Agent(o)
    BY <1>1, <2>2, <2>3, OtherAgents, QuietStep
  <2>4. CASE a = Agent(o)
    BY <1>1, <2>2, <2>4, QuietKinds, QuietStep, ReadKeeps, LoadKeeps, WriteKeeps DEF DnaKind
  <2>. QED  BY <2>3, <2>4
<1>. QED  BY <1>2, <1>3, <1>4 DEF Next

(* At first nobody has a copy and nothing was written.                       *)
LEMMA DnaKnown == Init => DnaInv
<1>. SUFFICES ASSUME Init, NEW a \in Agents PROVE Sound(a)
  BY DEF DnaInv
<1>1. /\ loaded = {} /\ saved = {} /\ visible[a] = durable[a] /\ \A p \in Ops : at[p] = "idle"
  BY DEF Init, DnaInit, StorageInit
<1>2. Holders(a) = {} /\ \A p \in Ops : ~Reads(p, a) /\ ~Writing(p, a)
  BY <1>1 DEF Holders, Reads, Writing
<1>. QED  BY <1>1, <1>2 DEF Sound, Fresh, Behind, Counted, Written

(* What copies, cache, connection and file know of each agent's DNA.         *)
THEOREM DnasAreSound == Spec => [](LInv /\ DnaInv)
<1>1. Init => LInv /\ DnaInv
  BY LearningInit, DnaKnown
<1>2. LInv /\ DnaInv /\ [Next]_vars => (LInv /\ DnaInv)'
  BY LearningTyped, DnaKept
<1>. QED  BY <1>1, <1>2, PTL DEF Spec

(* CountedUnlessRaced: a sample whose save returned is in the database and   *)
(* in the cache, through restarts and other operations' failures, unless     *)
(* another operation held a copy from before it (dna_manager.py).            *)
THEOREM CountedOnceWritten == Spec => []CountedUnlessRaced
<1>1. LInv /\ DnaInv => CountedUnlessRaced
  <2>. SUFFICES ASSUME LInv, DnaInv, NEW s \in saved \ raced
                PROVE  s[2] \in Agents /\ s[1] \in Ops /\ s[1] \in durable[s[2]]
                       /\ (s[2] \in loaded => s[1] \in cache[s[2]])
    BY DEF CountedUnlessRaced
  <2>1. s[1] \in Ops /\ s[2] \in Agents /\ s = <<s[1], s[2]>>
    BY DEF LInv, TypeOK, DnaType, Samplings
  <2>2. Written(s[1], s[2]) /\ <<s[1], s[2]>> \in saved
    BY <2>1 DEF Written
  <2>. QED  BY <2>1, <2>2 DEF DnaInv, Sound, Counted
<1>. QED  BY <1>1, DnasAreSound, PTL

(* MemoryIsSaved: when no save of an agent's DNA is under way and none has   *)
(* raised, the database has all that the cache has (_save).                  *)
THEOREM CacheIsSaved == Spec => []MemoryIsSaved
<1>1. LInv /\ DnaInv => MemoryIsSaved
  <2>. SUFFICES ASSUME LInv, DnaInv, NEW a \in loaded,
                       \A o \in Ops : <<o, a>> \notin failed /\ ~(at[o] = "committing" /\ Agent(o) = a)
                PROVE  cache[a] \subseteq durable[a]
    BY DEF MemoryIsSaved
  <2>1. a \in Agents
    BY DEF LInv, TypeOK, DnaType
  <2>2. Unfailed(a) /\ \A o \in Ops : ~Writing(o, a)
    BY DEF Unfailed, Writing
  <2>. QED  BY <2>1, <2>2 DEF DnaInv, Sound, Behind
<1>. QED  BY <1>1, DnasAreSound, PTL
===============================================================================
