------------------------------- MODULE Learning -------------------------------
(***************************************************************************)
(* What the team learns, over one database: the agents' DNAs and the       *)
(* graph's levels, written by coroutines of one process through one        *)
(* connection, with processes that end in the middle and start again       *)
(* (main.py: app_main opens storage, load_expertise, DNAManager).          *)
(***************************************************************************)
EXTENDS AgentDna, KnowledgeLevels

CONSTANT MaxRestarts  \* bound: processes after the first

(* The keys of DNAs and of levels have different prefixes.                   *)
ASSUME LearningAssumption == MaxRestarts \in Nat /\ Agents \intersect Levels = {}

VARIABLE restarts

vars == <<storage, dnaVars, levelVars, restarts>>

TypeOK == StorageType /\ DnaType /\ LevelType /\ restarts \in 0 .. MaxRestarts

Init == StorageInit /\ DnaInit /\ LevelInit /\ restarts = 0

Dna == /\ \E o \in Ops : DnaStep(o)
       /\ UNCHANGED <<levelVars, restarts>>

Graph == LevelStep /\ UNCHANGED <<dnaVars, restarts>>

(* The process ends, by a crash or because the run is over, and another one   *)
(* opens the database.                                                        *)
Restart == /\ restarts < MaxRestarts
           /\ restarts' = restarts + 1
           /\ Reopen /\ DnaRestart /\ LevelRestart

Next == Dna \/ Graph \/ Restart

Spec == Init /\ [][Next]_vars
===============================================================================
