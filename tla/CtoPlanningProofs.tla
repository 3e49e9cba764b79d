---------------------------- MODULE CtoPlanningProofs ----------------------------
(***************************************************************************)
(* Proofs about CtoPlanning, for every list of tasks and every board: the  *)
(* loop of _topological_sort is reasoned about turn by turn, by induction  *)
(* over the turns, and gives what plans, deadlock errors and REPLANs say.  *)
(***************************************************************************)
EXTENDS CtoPlanning, FiniteSetTheorems, FunctionTheorems, SequenceTheorems,
        WellFoundedInduction, TLAPS

-------------------------------------------------------------------------------
(* Induction, with the property as the set of numbers that have it.           *)

(* Every set of natural numbers but the empty one has a least element.       *)
LEMMA Least ==
  ASSUME NEW T, T \subseteq Nat, T # {}
  PROVE  \E x \in T : \A y \in T : x <= y
<1>1. PICK R : IsWellFoundedOn(R, Nat) /\ \A m, n \in Nat : m < n => <<m, n>> \in R
  <2>1. \A m, n \in Nat : m < n => <<m, n>> \in OpToRel(<, Nat)
    BY DEF OpToRel
  <2>. QED  BY <2>1, NatLessThanWellFounded, Zenon
<1>2. ASSUME NEW S, S = Nat PROVE \E x \in T : \A y \in T : ~(<<y, x>> \in R)
  <2>1. IsWellFoundedOn(R, S) /\ T \subseteq S
    BY <1>1, <1>2, Zenon
  <2>. QED  BY <2>1, WFMin
<1>3. PICK x \in T : \A y \in T : ~(<<y, x>> \in R)
  BY <1>2, Zenon
<1>4. ASSUME NEW y \in T PROVE x <= y
  <2>1. x \in Nat /\ y \in Nat /\ (y < x => <<y, x>> \in R)
    BY <1>1
  <2>. QED  BY <1>3, <2>1
<1>. QED  BY <1>4

(* A set with 0 and the successor of each of its numbers has them all.       *)
LEMMA Induction ==
  ASSUME NEW S, 0 \in S, \A n \in Nat : n \in S => n + 1 \in S
  PROVE  Nat \subseteq S
<1>. SUFFICES ASSUME Nat \ S # {} PROVE FALSE
  OBVIOUS
<1>1. PICK x \in Nat \ S : \A y \in Nat \ S : x <= y
  <2>1. Nat \ S \subseteq Nat
    OBVIOUS
  <2>. QED  BY <2>1, Least, Zenon
<1>2. x # 0 /\ x - 1 \in Nat /\ x - 1 < x /\ (x - 1) + 1 = x
  BY <1>1
<1>. QED  BY <1>1, <1>2

-------------------------------------------------------------------------------
(* The recursive functions are what their definitions say.                    *)

(* The states of the loop are the first one, and a turn of the one before.   *)
LEMMA SortingIs ==
  ASSUME NEW ts, Len(ts) \in Nat
  PROVE  Sorting(ts) = [n \in 0 .. Len(ts) |->
                          IF n = 0 THEN Start(ts) ELSE Turn(ts, Sorting(ts)[n - 1])]
<1>. DEFINE Is(g, m) == g = [n \in 0 .. m |-> IF n = 0 THEN Start(ts) ELSE Turn(ts, g[n - 1])]
            S == {m \in Nat : \E g : Is(g, m)}
<1>1. 0 \in S
  <2>. DEFINE g == [n \in 0 .. 0 |-> Start(ts)]
  <2>1. Is(g, 0)
    OBVIOUS
  <2>. QED  BY <2>1
<1>2. ASSUME NEW m \in Nat, m \in S PROVE m + 1 \in S
  <2>1. PICK g : Is(g, m)
    BY <1>2
  <2>. DEFINE h == [n \in 0 .. m + 1 |-> IF n = 0 THEN Start(ts) ELSE Turn(ts, g[n - 1])]
  <2>2. \A n \in 0 .. m : h[n] = g[n]
    BY <2>1
  <2>3. \A n \in 0 .. m + 1 : n # 0 => n - 1 \in 0 .. m
    OBVIOUS
  <2>4. Is(h, m + 1)
    BY <2>2, <2>3
  <2>. HIDE DEF Is
  <2>. QED  BY <2>4
<1>3. \E g : Is(g, Len(ts))
  <2>. HIDE DEF Is
  <2>1. Nat \subseteq S
    BY <1>1, <1>2, Induction
  <2>. QED  BY <2>1
<1>. QED  BY <1>3 DEF Sorting

(* What is kept of a list's first tasks is nothing at first, and then what   *)
(* was kept, with the next task unless it is one of the ids.                 *)
LEMMA WithoutIs ==
  ASSUME NEW ts, Len(ts) \in Nat, NEW ids
  PROVE  \E kept : /\ kept = [n \in 0 .. Len(ts) |->
                        IF n = 0 THEN <<>>
                        ELSE IF ts[n].id \in ids THEN kept[n - 1] ELSE Append(kept[n - 1], ts[n])]
                   /\ Without(ts, ids) = kept[Len(ts)]
<1>. DEFINE Is(g, m) == g = [n \in 0 .. m |->
              IF n = 0 THEN <<>>
              ELSE IF ts[n].id \in ids THEN g[n - 1] ELSE Append(g[n - 1], ts[n])]
            S == {m \in Nat : \E g : Is(g, m)}
<1>1. 0 \in S
  <2>. DEFINE g == [n \in 0 .. 0 |-> <<>>]
  <2>1. Is(g, 0)
    OBVIOUS
  <2>. QED  BY <2>1
<1>2. ASSUME NEW m \in Nat, m \in S PROVE m + 1 \in S
  <2>1. PICK g : Is(g, m)
    BY <1>2
  <2>. DEFINE h == [n \in 0 .. m + 1 |->
                IF n = 0 THEN <<>>
                ELSE IF ts[n].id \in ids THEN g[n - 1] ELSE Append(g[n - 1], ts[n])]
  <2>2. ASSUME NEW n \in 0 .. m PROVE h[n] = g[n]
    <3>1. n \in 0 .. m + 1
      OBVIOUS
    <3>. QED  BY <2>1, <3>1, Zenon
  <2>3. \A n \in 0 .. m + 1 : n # 0 => n - 1 \in 0 .. m
    OBVIOUS
  <2>4. Is(h, m + 1)
    BY <2>2, <2>3
  <2>. HIDE DEF Is
  <2>. QED  BY <2>4
<1>3. \E g : Is(g, Len(ts))
  <2>. HIDE DEF Is
  <2>1. Nat \subseteq S
    BY <1>1, <1>2, Induction
  <2>. QED  BY <2>1
<1>. QED  BY <1>3 DEF Without

-------------------------------------------------------------------------------
(* Lists of tasks with unique ids.                                            *)

Unique(ts) == ts \in Seq(Task) /\ Cardinality(Ids(ts)) = Len(ts)

(* A list of n elements has n positions.                                     *)
LEMMA Positions ==
  ASSUME NEW n \in Nat
  PROVE  IsFiniteSet(1 .. n) /\ Cardinality(1 .. n) = n
<1>1. IsFiniteSet(1 .. n) /\ Cardinality(1 .. n) = IF 1 > n THEN 0 ELSE n - 1 + 1
  BY FS_Interval
<1>2. (IF 1 > n THEN 0 ELSE n - 1 + 1) = n
  OBVIOUS
<1>. QED  BY <1>1, <1>2

(* When there are as many ids as tasks, each id is that of one position.     *)
LEMMA UniqueIds ==
  ASSUME NEW ts, Unique(ts)
  PROVE  /\ IsFiniteSet(Ids(ts))
         /\ \A i, j \in DOMAIN ts : ts[i].id = ts[j].id => i = j
<1>. DEFINE f == [i \in DOMAIN ts |-> ts[i].id]
<1>1. DOMAIN ts = 1 .. Len(ts) /\ Len(ts) \in Nat
  BY DEF Unique
<1>2. IsFiniteSet(DOMAIN ts) /\ Cardinality(DOMAIN ts) = Len(ts)
  BY <1>1, Positions
<1>3. f \in Surjection(DOMAIN ts, Ids(ts))
  BY DEF Surjection, Ids
<1>4. IsFiniteSet(Ids(ts)) /\ f \in Injection(DOMAIN ts, Ids(ts))
  <2>. HIDE DEF f
  <2>. QED  BY <1>2, <1>3, FS_Surjection DEF Unique
<1>. QED  BY <1>4 DEF Injection, IsInjective

(* The task of an id is the one task of the list that has it.                *)
LEMMA TaskOfIs ==
  ASSUME NEW ts, Unique(ts)
  PROVE  /\ \A id \in Ids(ts) : TaskOf(ts, id) \in Range(ts) /\ TaskOf(ts, id).id = id
         /\ \A t \in Range(ts) : t \in Task /\ t.id \in Ids(ts) /\ TaskOf(ts, t.id) = t
<1>1. ASSUME NEW id \in Ids(ts)
      PROVE  TaskOf(ts, id) \in Range(ts) /\ TaskOf(ts, id).id = id
  <2>1. \E i \in DOMAIN ts : ts[i].id = id
    BY DEF Ids
  <2>. QED  BY <2>1 DEF TaskOf, Range
<1>2. ASSUME NEW t \in Range(ts)
      PROVE  t \in Task /\ t.id \in Ids(ts) /\ TaskOf(ts, t.id) = t
  <2>1. PICK i \in DOMAIN ts : t = ts[i]
    BY DEF Range
  <2>2. t \in Task
    BY <2>1 DEF Unique
  <2>3. t.id \in Ids(ts)
    BY <2>1 DEF Ids
  <2>4. TaskOf(ts, t.id) = t
    BY <2>1, UniqueIds DEF TaskOf
  <2>. QED  BY <2>2, <2>3, <2>4
<1>. QED  BY <1>1, <1>2

(* One of some ids comes first of them: it is before every other.            *)
LEMMA FirstIs ==
  ASSUME NEW ts, Unique(ts), NEW ids, ids \subseteq Ids(ts), ids # {}
  PROVE  /\ First(ts, ids) \in ids
         /\ \A o \in ids \ {First(ts, ids)} :
              Before(TaskOf(ts, First(ts, ids)), TaskOf(ts, o))
<1>1. \A o \in ids : /\ TaskOf(ts, o) \in Task
                     /\ TaskOf(ts, o).priority \in Nat
                     /\ TaskOf(ts, o).id = o /\ o \in Nat
  <2>1. ASSUME NEW o \in ids PROVE TaskOf(ts, o) \in Task /\ TaskOf(ts, o).id = o
    BY TaskOfIs
  <2>. QED  BY <2>1 DEF Task
<1>. DEFINE P == {TaskOf(ts, o).priority : o \in ids}
<1>2. PICK p \in P : \A q \in P : p <= q
  <2>1. P \subseteq Nat /\ P # {}
    BY <1>1
  <2>. HIDE DEF P
  <2>. QED  BY <2>1, Least
<1>. DEFINE Q == {o \in ids : TaskOf(ts, o).priority = p}
<1>3. PICK x \in Q : \A y \in Q : x <= y
  <2>1. Q \subseteq Nat /\ Q # {}
    BY <1>1, <1>2
  <2>. HIDE DEF Q
  <2>. QED  BY <2>1, Least
<1>4. ASSUME NEW o \in ids \ {x} PROVE Before(TaskOf(ts, x), TaskOf(ts, o))
  <2>1. x \in ids /\ x \in Nat /\ o \in Nat /\ TaskOf(ts, x).id = x /\ TaskOf(ts, o).id = o
    BY <1>1, <1>3
  <2>2. TaskOf(ts, x).priority = p /\ p \in Nat /\ TaskOf(ts, o).priority \in Nat
    BY <1>1, <1>3
  <2>3. p <= TaskOf(ts, o).priority
    BY <1>2
  <2>4. CASE TaskOf(ts, o).priority = p
    <3>1. x <= o
      BY <1>3, <2>4
    <3>. QED  BY <2>1, <2>2, <2>4, <3>1 DEF Before
  <2>5. CASE TaskOf(ts, o).priority # p
    BY <2>2, <2>3, <2>5 DEF Before
  <2>. QED  BY <2>4, <2>5
<1>5. x \in ids
  BY <1>3
<1>. HIDE DEF P, Q
<1>. QED  BY <1>4, <1>5 DEF First

-------------------------------------------------------------------------------
(* What a task waits for: the positions of its dependency list whose task is  *)
(* not done yet.                                                              *)

Missing(t, done) == {i \in DOMAIN t.deps : t.deps[i] \notin done}

(* Nothing is missing exactly when all dependencies are done; at first,      *)
(* every position of the list is missing.                                    *)
LEMMA MissingIs ==
  ASSUME NEW t \in Task, NEW done
  PROVE  /\ IsFiniteSet(Missing(t, done)) /\ Cardinality(Missing(t, done)) \in Nat
         /\ Cardinality(Missing(t, done)) = 0 <=> Range(t.deps) \subseteq done
         /\ Cardinality(Missing(t, {})) = Len(t.deps)
<1>1. DOMAIN t.deps = 1 .. Len(t.deps) /\ Len(t.deps) \in Nat
  BY DEF Task
<1>2. IsFiniteSet(DOMAIN t.deps) /\ Cardinality(DOMAIN t.deps) = Len(t.deps)
  BY <1>1, Positions
<1>3. IsFiniteSet(Missing(t, done)) /\ Cardinality(Missing(t, done)) \in Nat
  <2>1. Missing(t, done) \in SUBSET DOMAIN t.deps
    BY DEF Missing
  <2>. QED  BY <1>2, <2>1, FS_Subset, FS_CardinalityType
<1>4. Cardinality(Missing(t, done)) = 0 <=> Missing(t, done) = {}
  BY <1>3, FS_EmptySet
<1>5. Missing(t, done) = {} <=> Range(t.deps) \subseteq done
  BY DEF Missing, Range
<1>6. Missing(t, {}) = DOMAIN t.deps
  BY DEF Missing
<1>. QED  BY <1>2, <1>3, <1>4, <1>5, <1>6

(* When one more task is done, the in-degree falls by the number of times    *)
(* its id is in the list.                                                    *)
LEMMA MissingFalls ==
  ASSUME NEW t \in Task, NEW done, NEW id, id \notin done
  PROVE  Cardinality(Missing(t, done \union {id})) =
           Cardinality(Missing(t, done)) - Falls(id, t.deps)
<1>. DEFINE named == {i \in DOMAIN t.deps : t.deps[i] = id}
<1>1. IsFiniteSet(Missing(t, done))
  BY MissingIs
<1>2. Missing(t, done \union {id}) = Missing(t, done) \ named
  BY DEF Missing
<1>3. Missing(t, done) \cap named = named
  BY DEF Missing
<1>4. Falls(id, t.deps) = Cardinality(named)
  BY DEF Falls, Times
<1>5. Cardinality(Missing(t, done) \ named) =
        Cardinality(Missing(t, done)) - Cardinality(Missing(t, done) \cap named)
  <2>. HIDE DEF named
  <2>. QED  BY <1>1, FS_Difference
<1>. QED  BY ONLY <1>2, <1>3, <1>4, <1>5

-------------------------------------------------------------------------------
(* The loop of _topological_sort.                                             *)

Placed(plan) == {plan[j].id : j \in DOMAIN plan}

FreeAt(ts, plan, i) ==
  {t \in Range(ts) : /\ \A j \in 1 .. i - 1 : plan[j] # t
                     /\ Range(t.deps) \subseteq {plan[j].id : j \in 1 .. i - 1}}

Schedule(ts, plan) ==
  /\ plan \in Seq(Task)
  /\ \A i \in DOMAIN plan :
       /\ plan[i] \in FreeAt(ts, plan, i)
       /\ \A t \in FreeAt(ts, plan, i) \ {plan[i]} : Before(plan[i], t)

(* After n turns: n tasks are sorted, or the heap has run empty before; the   *)
(* in-degrees count what is missing, and the heap holds the tasks that miss   *)
(* nothing.                                                                   *)
Turned(ts, s, n) ==
  /\ Schedule(ts, s.sorted)
  /\ Len(s.sorted) <= n /\ (Len(s.sorted) = n \/ s.heap = {})
  /\ s.degree = [o \in Ids(ts) |-> Cardinality(Missing(TaskOf(ts, o), Placed(s.sorted)))]
  /\ s.heap = {o \in Ids(ts) \ Placed(s.sorted) : s.degree[o] = 0}

(* The tasks of a schedule are the list's, with what they depend on.         *)
LEMMA ScheduleHas ==
  ASSUME NEW ts, Unique(ts), NEW plan, Schedule(ts, plan)
  PROVE  /\ \A j \in DOMAIN plan : plan[j] \in Range(ts)
         /\ Placed(plan) \subseteq Ids(ts)
         /\ \A o \in Placed(plan) : Range(TaskOf(ts, o).deps) \subseteq Placed(plan)
<1>1. \A j \in DOMAIN plan : plan[j] \in Range(ts)
  BY DEF Schedule, FreeAt
<1>2. Placed(plan) \subseteq Ids(ts)
  BY <1>1, TaskOfIs DEF Placed
<1>3. DOMAIN plan = 1 .. Len(plan) /\ Len(plan) \in Nat
  BY DEF Schedule
<1>4. ASSUME NEW o \in Placed(plan) PROVE Range(TaskOf(ts, o).deps) \subseteq Placed(plan)
  <2>1. PICK i \in DOMAIN plan : plan[i].id = o
    BY DEF Placed
  <2>2. TaskOf(ts, o) = plan[i]
    BY <1>1, <2>1, TaskOfIs
  <2>3. Range(plan[i].deps) \subseteq {plan[j].id : j \in 1 .. i - 1}
    BY DEF Schedule, FreeAt
  <2>4. \A j \in 1 .. i - 1 : j \in DOMAIN plan
    BY <1>3
  <2>. QED  BY <2>2, <2>3, <2>4 DEF Placed
<1>. QED  BY <1>1, <1>2, <1>4

(* Before the first turn nothing is sorted, and everything is missing.       *)
LEMMA StartTurned ==
  ASSUME NEW ts, Unique(ts)
  PROVE  Turned(ts, Start(ts), 0)
<1>1. Placed(<<>>) = {}
  BY DEF Placed
<1>2. ASSUME NEW o \in Ids(ts)
      PROVE  Len(TaskOf(ts, o).deps) = Cardinality(Missing(TaskOf(ts, o), Placed(<<>>)))
  <2>1. TaskOf(ts, o) \in Task
    BY TaskOfIs
  <2>. QED  BY <1>1, <2>1, MissingIs
<1>3. /\ Start(ts).sorted = <<>>
      /\ Start(ts).degree = [o \in Ids(ts) |-> Len(TaskOf(ts, o).deps)]
      /\ Start(ts).heap = {o \in Ids(ts) : Start(ts).degree[o] = 0}
  BY DEF Start
<1>4. Schedule(ts, <<>>)
  BY DEF Schedule
<1>5. Start(ts).degree = [o \in Ids(ts) |-> Cardinality(Missing(TaskOf(ts, o), Placed(<<>>)))]
  BY <1>2, <1>3
<1>6. Start(ts).heap = {o \in Ids(ts) \ Placed(<<>>) : Start(ts).degree[o] = 0}
  BY <1>1, <1>3
<1>7. Len(Start(ts).sorted) = 0
  BY <1>3
<1>8. /\ Schedule(ts, Start(ts).sorted)
      /\ Start(ts).degree =
           [o \in Ids(ts) |-> Cardinality(Missing(TaskOf(ts, o), Placed(Start(ts).sorted)))]
      /\ Start(ts).heap = {o \in Ids(ts) \ Placed(Start(ts).sorted) : Start(ts).degree[o] = 0}
  BY ONLY <1>3, <1>4, <1>5, <1>6, Zenon
<1>. QED  BY ONLY <1>7, <1>8 DEF Turned

(* The task of the first id of the heap goes on a schedule.                  *)
LEMMA ScheduleGrows ==
  ASSUME NEW ts, Unique(ts), NEW plan, Schedule(ts, plan),
         NEW heap, heap = {o \in Ids(ts) \ Placed(plan) :
                             Range(TaskOf(ts, o).deps) \subseteq Placed(plan)},
         heap # {}, NEW t, t = TaskOf(ts, First(ts, heap)),
         NEW longer, longer = Append(plan, t)
  PROVE  /\ Schedule(ts, longer)
         /\ Placed(longer) = Placed(plan) \union {First(ts, heap)}
<1>. DEFINE n == Len(plan)
<1>1. /\ First(ts, heap) \in Ids(ts) \ Placed(plan)
      /\ Range(t.deps) \subseteq Placed(plan)
      /\ \A o \in heap \ {First(ts, heap)} : Before(t, TaskOf(ts, o))
  BY FirstIs
<1>2. t \in Range(ts) /\ t \in Task /\ t.id = First(ts, heap)
  BY <1>1, TaskOfIs
<1>3. /\ plan \in Seq(Task) /\ n \in Nat /\ DOMAIN plan = 1 .. n
      /\ longer \in Seq(Task) /\ DOMAIN longer = 1 .. n + 1
      /\ \A j \in 1 .. n : longer[j] = plan[j]
      /\ longer[n + 1] = t
  BY <1>2 DEF Schedule
<1>. HIDE DEF n
<1>4. \A j : j \in 1 .. n + 1 <=> j \in 1 .. n \/ j = n + 1
  BY <1>3
<1>5. Placed(longer) = Placed(plan) \union {First(ts, heap)}
  BY <1>2, <1>3, <1>4 DEF Placed
<1>6. ASSUME NEW i \in 1 .. n PROVE FreeAt(ts, longer, i) = FreeAt(ts, plan, i)
  <2>1. \A j \in 1 .. i - 1 : longer[j] = plan[j]
    BY <1>3
  <2>2. {longer[j].id : j \in 1 .. i - 1} = {plan[j].id : j \in 1 .. i - 1}
    BY <2>1
  <2>. QED  BY <2>1, <2>2 DEF FreeAt
<1>7. FreeAt(ts, longer, n + 1) =
        {u \in Range(ts) : /\ \A j \in DOMAIN plan : plan[j] # u
                           /\ Range(u.deps) \subseteq Placed(plan)}
  <2>1. (n + 1) - 1 = n
    BY <1>3
  <2>2. {longer[j].id : j \in 1 .. n} = Placed(plan)
    BY <1>3 DEF Placed
  <2>. QED  BY <1>3, <2>1, <2>2 DEF FreeAt
<1>8. t \in FreeAt(ts, longer, n + 1)
  <2>1. \A j \in DOMAIN plan : plan[j] # t
    BY <1>1, <1>2 DEF Placed
  <2>. QED  BY <1>1, <1>2, <1>7, <2>1
<1>9. ASSUME NEW u \in FreeAt(ts, longer, n + 1) \ {t} PROVE Before(t, u)
  <2>1. u \in Range(ts) /\ u.id \in Ids(ts) /\ TaskOf(ts, u.id) = u
    BY <1>7, TaskOfIs
  <2>2. \A j \in DOMAIN plan : plan[j] # u
    BY <1>7
  <2>3. u.id \notin Placed(plan)
    BY <2>1, <2>2, ScheduleHas, TaskOfIs DEF Placed
  <2>4. u.id \in heap /\ u.id # First(ts, heap)
    BY <1>7, <2>1, <2>3
  <2>. QED  BY <1>1, <2>1, <2>4
<1>10. ASSUME NEW i \in DOMAIN longer
       PROVE  /\ longer[i] \in FreeAt(ts, longer, i)
              /\ \A u \in FreeAt(ts, longer, i) \ {longer[i]} : Before(longer[i], u)
  <2>1. CASE i \in 1 .. n
    BY <1>3, <1>6, <2>1 DEF Schedule
  <2>2. CASE i = n + 1
    BY <1>3, <1>8, <1>9, <2>2
  <2>. QED  BY <1>3, <1>4, <2>1, <2>2
<1>. QED  BY <1>3, <1>5, <1>10 DEF Schedule

(* A turn of the loop.                                                       *)
LEMMA TurnTurns ==
  ASSUME NEW ts, Unique(ts), NEW n \in Nat, NEW s, Turned(ts, s, n)
  PROVE  Turned(ts, Turn(ts, s), n + 1)
<1>1. /\ s.sorted \in Seq(Task) /\ Len(s.sorted) \in Nat /\ Schedule(ts, s.sorted)
      /\ Placed(s.sorted) \subseteq Ids(ts)
  BY ScheduleHas DEF Turned, Schedule
<1>2. CASE s.heap = {}
  <2>1. Turn(ts, s) = s
    BY <1>2 DEF Turn
  <2>2. Len(s.sorted) <= n + 1
    BY <1>1 DEF Turned
  <2>. QED  BY <1>2, <2>1, <2>2 DEF Turned
<1>3. CASE s.heap # {}
  <2>. DEFINE id == First(ts, s.heap)
              plan == s.sorted
              next == Turn(ts, s)
              degree == [o \in Ids(ts) |-> s.degree[o] - Falls(id, TaskOf(ts, o).deps)]
  <2>1. /\ next.degree = degree
        /\ next.heap = (s.heap \ {id}) \union {o \in Ids(ts) : Ready(s.degree[o], degree[o])}
        /\ next.sorted = Append(plan, TaskOf(ts, id))
    BY <1>3 DEF Turn
  <2>2. \A o \in Ids(ts) : /\ TaskOf(ts, o) \in Task
                           /\ s.degree[o] = Cardinality(Missing(TaskOf(ts, o), Placed(plan)))
                           /\ s.degree[o] \in Nat
                           /\ s.degree[o] = 0 <=> Range(TaskOf(ts, o).deps) \subseteq Placed(plan)
    <3>1. ASSUME NEW o \in Ids(ts) PROVE TaskOf(ts, o) \in Task
      BY TaskOfIs
    <3>2. ASSUME NEW o \in Ids(ts)
          PROVE  s.degree[o] = Cardinality(Missing(TaskOf(ts, o), Placed(plan)))
      BY DEF Turned
    <3>. QED  BY <3>1, <3>2, MissingIs
  <2>3. s.heap = {o \in Ids(ts) \ Placed(plan) : Range(TaskOf(ts, o).deps) \subseteq Placed(plan)}
    BY <2>2 DEF Turned
  <2>4. id \in s.heap /\ id \in Ids(ts) \ Placed(plan) /\ s.degree[id] = 0
    BY <1>3, <2>2, <2>3, FirstIs
  <2>5. Schedule(ts, next.sorted) /\ Placed(next.sorted) = Placed(plan) \union {id}
    <3>. HIDE DEF plan, next
    <3>1. Schedule(ts, plan)
      BY <1>1 DEF plan
    <3>2. ASSUME NEW heap, heap = {o \in Ids(ts) \ Placed(plan) :
                                     Range(TaskOf(ts, o).deps) \subseteq Placed(plan)},
                 heap # {}, NEW t, t = TaskOf(ts, First(ts, heap)),
                 NEW longer, longer = Append(plan, t)
          PROVE  /\ Schedule(ts, longer)
                 /\ Placed(longer) = Placed(plan) \union {First(ts, heap)}
      BY <3>1, <3>2, ScheduleGrows
    <3>. QED  BY <1>3, <2>1, <2>3, <3>2
  <2>6. Len(next.sorted) = n + 1
    <3>1. Len(s.sorted) = n
      BY <1>3 DEF Turned
    <3>. QED  BY <1>1, <2>1, <3>1
  <2>. HIDE DEF plan, next, degree
  <2>7. ASSUME NEW o \in Ids(ts)
        PROVE  degree[o] = Cardinality(Missing(TaskOf(ts, o), Placed(plan) \union {id}))
    BY <2>2, <2>4, MissingFalls DEF degree
  <2>8. \A o \in Ids(ts) : degree[o] \in Nat
    BY <2>2, <2>7, MissingIs
  <2>9. ASSUME NEW o \in Ids(ts) PROVE degree[o] = 0 <=>
                 Range(TaskOf(ts, o).deps) \subseteq Placed(plan) \union {id}
    BY <2>2, <2>7, MissingIs
  <2>10. next.degree = [o \in Ids(ts) |->
                          Cardinality(Missing(TaskOf(ts, o), Placed(next.sorted)))]
    BY <2>1, <2>5, <2>7 DEF degree
  <2>11. \A o \in Placed(plan) : o \in Ids(ts) /\ s.degree[o] = 0
    BY <1>1, <2>2, ScheduleHas DEF plan
  <2>12. ASSUME NEW o PROVE o \in next.heap <=>
                              o \in Ids(ts) \ (Placed(plan) \union {id}) /\ degree[o] = 0
    <3>1. ASSUME o \in next.heap
          PROVE  o \in Ids(ts) \ (Placed(plan) \union {id}) /\ degree[o] = 0
      <4>1. CASE o \in s.heap \ {id}
        BY <2>3, <2>9, <4>1
      <4>2. CASE o \in Ids(ts) /\ Ready(s.degree[o], degree[o])
        <5>1. s.degree[o] # 0 /\ degree[o] = 0
          BY <2>2, <4>2 DEF Ready
        <5>. QED  BY <2>4, <2>11, <4>2, <5>1
      <4>. QED  BY <2>1, <3>1, <4>1, <4>2
    <3>2. ASSUME o \in Ids(ts) \ (Placed(plan) \union {id}), degree[o] = 0
          PROVE  o \in next.heap
      <4>1. CASE s.degree[o] = 0
        BY <2>1, <2>2, <2>3, <3>2, <4>1
      <4>2. CASE s.degree[o] # 0
        <5>1. Ready(s.degree[o], degree[o])
          BY <2>2, <3>2, <4>2 DEF Ready
        <5>. QED  BY <2>1, <3>2, <5>1
      <4>. QED  BY <4>1, <4>2
    <3>. QED  BY <3>1, <3>2
  <2>13. next.heap = {o \in Ids(ts) \ Placed(next.sorted) : next.degree[o] = 0}
    BY <2>1, <2>5, <2>12
  <2>. QED  BY <2>5, <2>6, <2>10, <2>13 DEF Turned, next
<1>. QED  BY <1>2, <1>3

(* What is true of the loop's state after every turn.                        *)
LEMMA SortingTurned ==
  ASSUME NEW ts, Unique(ts)
  PROVE  \A n \in 0 .. Len(ts) : Turned(ts, Sorting(ts)[n], n)
<1>. DEFINE S == {n \in Nat : n <= Len(ts) => Turned(ts, Sorting(ts)[n], n)}
<1>1. Len(ts) \in Nat
  BY DEF Unique
<1>2. 0 \in S
  <2>1. Sorting(ts)[0] = Start(ts)
    BY <1>1, SortingIs
  <2>. QED  BY <2>1, StartTurned
<1>3. ASSUME NEW n \in Nat, n \in S PROVE n + 1 \in S
  <2>. SUFFICES ASSUME n + 1 <= Len(ts) PROVE Turned(ts, Sorting(ts)[n + 1], n + 1)
    OBVIOUS
  <2>1. n <= Len(ts) /\ n + 1 \in 0 .. Len(ts) /\ n + 1 # 0 /\ (n + 1) - 1 = n
    BY <1>1
  <2>2. Sorting(ts)[n + 1] = Turn(ts, Sorting(ts)[n])
    BY <1>1, <2>1, SortingIs
  <2>3. Turned(ts, Sorting(ts)[n], n)
    BY <1>3, <2>1
  <2>. QED  BY <2>2, <2>3, TurnTurns
<1>4. Nat \subseteq S
  <2>. HIDE DEF S
  <2>. QED  BY <1>2, <1>3, Induction
<1>. QED  BY <1>1, <1>4

-------------------------------------------------------------------------------
(* What the loop leaves: a schedule, of all tasks unless some are in a knot.  *)

Valid(ts) == ts \in Answers /\ ~SchemaError(ts)

(* A list that passed the validation has unique ids and known dependencies.  *)
LEMMA ValidIs ==
  ASSUME NEW ts, Valid(ts)
  PROVE  Unique(ts) /\ \A t \in Range(ts) : Range(t.deps) \subseteq Ids(ts)
<1>1. Unique(ts)
  BY PlanningAssumption DEF Valid, SchemaError, Unique
<1>2. \A i \in DOMAIN ts : Range(ts[i].deps) \subseteq Ids(ts)
  BY DEF Valid, SchemaError
<1>. QED  BY <1>1, <1>2 DEF Range

(* The sorted list is a schedule, no longer than the list it sorts.          *)
LEMMA SortIsSchedule ==
  ASSUME NEW ts, Unique(ts)
  PROVE  Schedule(ts, TopologicalSort(ts)) /\ Len(TopologicalSort(ts)) <= Len(ts)
<1>1. Len(ts) \in 0 .. Len(ts)
  BY DEF Unique
<1>2. Turned(ts, Sorting(ts)[Len(ts)], Len(ts))
  BY <1>1, SortingTurned
<1>. QED  BY <1>2 DEF Turned, TopologicalSort

(* There are no more ids than tasks in a list.                               *)
LEMMA PlacedAtMost ==
  ASSUME NEW plan \in Seq(Task)
  PROVE  Cardinality(Placed(plan)) <= Len(plan)
<1>. DEFINE f == [i \in DOMAIN plan |-> plan[i].id]
<1>1. DOMAIN plan = 1 .. Len(plan) /\ Len(plan) \in Nat
  OBVIOUS
<1>2. IsFiniteSet(DOMAIN plan) /\ Cardinality(DOMAIN plan) = Len(plan)
  BY <1>1, Positions
<1>3. f \in Surjection(DOMAIN plan, Placed(plan))
  BY DEF Surjection, Placed
<1>. HIDE DEF f
<1>. QED  BY <1>2, <1>3, FS_Surjection

Knot(ts, knot) ==
  /\ knot \in (SUBSET Range(ts)) \ {{}}
  /\ \A t \in knot : Range(t.deps) \cap {u.id : u \in knot} # {}

(* Tasks are left out only if some of them each depend on another of them.   *)
LEMMA StuckInKnot ==
  ASSUME NEW ts, Valid(ts), Len(TopologicalSort(ts)) # Len(ts)
  PROVE  \E knot : Knot(ts, knot)
<1>1. Unique(ts) /\ Len(ts) \in Nat /\ \A t \in Range(ts) : Range(t.deps) \subseteq Ids(ts)
  BY ValidIs DEF Unique
<1>2. PICK s : s = Sorting(ts)[Len(ts)]
  OBVIOUS
<1>3. s.sorted = TopologicalSort(ts) /\ Turned(ts, s, Len(ts))
  <2>1. Len(ts) \in 0 .. Len(ts)
    BY <1>1
  <2>. QED  BY <1>1, <1>2, <2>1, SortingTurned DEF TopologicalSort
<1>4. s.sorted \in Seq(Task) /\ Len(s.sorted) \in Nat /\ Len(s.sorted) < Len(ts) /\ s.heap = {}
  BY <1>1, <1>3 DEF Turned, Schedule
<1>5. ASSUME NEW o \in Ids(ts) \ Placed(s.sorted)
      PROVE  \E d \in Ids(ts) \ Placed(s.sorted) : d \in Range(TaskOf(ts, o).deps)
  <2>1. s.degree[o] = Cardinality(Missing(TaskOf(ts, o), Placed(s.sorted))) /\ s.degree[o] # 0
    BY <1>3, <1>4 DEF Turned
  <2>2. TaskOf(ts, o) \in Task /\ TaskOf(ts, o) \in Range(ts)
    BY <1>1, TaskOfIs
  <2>3. ~(Range(TaskOf(ts, o).deps) \subseteq Placed(s.sorted))
    BY <2>1, <2>2, MissingIs
  <2>. QED  BY <1>1, <2>2, <2>3
<1>6. Ids(ts) \ Placed(s.sorted) # {}
  <2>1. Placed(s.sorted) \subseteq Ids(ts)
    BY <1>1, <1>3, ScheduleHas DEF Turned
  <2>2. Cardinality(Placed(s.sorted)) <= Len(s.sorted)
    BY <1>4, PlacedAtMost
  <2>3. Cardinality(Ids(ts)) = Len(ts)
    BY <1>1 DEF Unique
  <2>4. Placed(s.sorted) # Ids(ts)
    BY <1>1, <1>4, <2>2, <2>3
  <2>. QED  BY <2>1, <2>4
<1>. DEFINE knot == {TaskOf(ts, o) : o \in Ids(ts) \ Placed(s.sorted)}
<1>7. knot \subseteq Range(ts) /\ knot # {}
  BY <1>1, <1>6, TaskOfIs
<1>8. ASSUME NEW t \in knot PROVE Range(t.deps) \cap {u.id : u \in knot} # {}
  <2>1. PICK o \in Ids(ts) \ Placed(s.sorted) : t = TaskOf(ts, o)
    BY <1>8
  <2>2. PICK d \in Ids(ts) \ Placed(s.sorted) : d \in Range(t.deps)
    BY <1>5, <2>1
  <2>3. TaskOf(ts, d) \in knot /\ TaskOf(ts, d).id = d
    BY <1>1, TaskOfIs
  <2>4. d \in {u.id : u \in knot}
    BY <2>3
  <2>. QED  BY <2>2, <2>4
<1>9. Knot(ts, knot)
  <2>1. knot \in (SUBSET Range(ts)) \ {{}}
    BY <1>7
  <2>2. \A t \in knot : Range(t.deps) \cap {u.id : u \in knot} # {}
    BY ONLY <1>8
  <2>. QED  BY ONLY <2>1, <2>2 DEF Knot
<1>. QED  BY <1>9

-------------------------------------------------------------------------------
(* What is kept of a plan whose finished tasks are left out.                  *)

Keeps(r, plan, m, ids) ==
  /\ r \in Seq(Task)
  /\ \A i \in DOMAIN r : \E k \in 1 .. m :
       /\ r[i] = plan[k]
       /\ \A j \in 1 .. k - 1 : plan[j].id \in ids \/ \E h \in 1 .. i - 1 : r[h] = plan[j]
  /\ \A j \in 1 .. m : plan[j].id \in ids \/ \E h \in DOMAIN r : r[h] = plan[j]

(* One more task of the plan, kept or left out.                              *)
LEMMA KeepsMore ==
  ASSUME NEW plan \in Seq(Task), NEW ids, NEW m \in Nat, m + 1 <= Len(plan),
         NEW r, Keeps(r, plan, m, ids),
         NEW q, q = IF plan[m + 1].id \in ids THEN r ELSE Append(r, plan[m + 1])
  PROVE  Keeps(q, plan, m + 1, ids)
<1>1. /\ r \in Seq(Task) /\ Len(r) \in Nat /\ DOMAIN r = 1 .. Len(r)
      /\ plan[m + 1] \in Task
  BY DEF Keeps
<1>2. \A j : j \in 1 .. m + 1 <=> j \in 1 .. m \/ j = m + 1
  OBVIOUS
<1>3. CASE plan[m + 1].id \in ids
  BY <1>2, <1>3 DEF Keeps
<1>4. CASE plan[m + 1].id \notin ids
  <2>. DEFINE n == Len(r)
  <2>1. /\ q \in Seq(Task) /\ DOMAIN q = 1 .. n + 1 /\ q[n + 1] = plan[m + 1]
        /\ \A i \in 1 .. n : q[i] = r[i]
        /\ n \in Nat /\ DOMAIN r = 1 .. n
    BY <1>1, <1>4
  <2>. HIDE DEF n
  <2>2. \A i : i \in 1 .. n + 1 <=> i \in 1 .. n \/ i = n + 1
    BY <2>1
  <2>3. ASSUME NEW j \in 1 .. m, plan[j].id \notin ids
        PROVE  \E h \in 1 .. n : q[h] = plan[j]
    BY <2>1, <2>3 DEF Keeps
  <2>4. ASSUME NEW i \in 1 .. n
        PROVE  \E k \in 1 .. m + 1 :
                 /\ q[i] = plan[k]
                 /\ \A j \in 1 .. k - 1 : plan[j].id \in ids \/ \E h \in 1 .. i - 1 : q[h] = plan[j]
    <3>1. PICK k \in 1 .. m :
            /\ r[i] = plan[k]
            /\ \A j \in 1 .. k - 1 : plan[j].id \in ids \/ \E h \in 1 .. i - 1 : r[h] = plan[j]
      BY <2>1 DEF Keeps
    <3>2. \A h \in 1 .. i - 1 : q[h] = r[h]
      BY <2>1
    <3>. QED  BY <1>2, <2>1, <3>1, <3>2
  <2>5. \E k \in 1 .. m + 1 :
          /\ q[n + 1] = plan[k]
          /\ \A j \in 1 .. k - 1 : plan[j].id \in ids \/ \E h \in 1 .. (n + 1) - 1 : q[h] = plan[j]
    <3>1. (m + 1) - 1 = m /\ (n + 1) - 1 = n /\ m + 1 \in 1 .. m + 1
      BY <2>1
    <3>. QED  BY <2>1, <2>3, <3>1
  <2>6. \A j \in 1 .. m + 1 : plan[j].id \in ids \/ \E h \in DOMAIN q : q[h] = plan[j]
    BY <1>2, <2>1, <2>2, <2>3
  <2>7. \A i \in DOMAIN q : \E k \in 1 .. m + 1 :
          /\ q[i] = plan[k]
          /\ \A j \in 1 .. k - 1 : plan[j].id \in ids \/ \E h \in 1 .. i - 1 : q[h] = plan[j]
    BY ONLY <2>1, <2>2, <2>4, <2>5
  <2>. QED  BY ONLY <2>1, <2>6, <2>7 DEF Keeps
<1>. QED  BY <1>3, <1>4

(* What is kept of a whole plan.                                             *)
LEMMA WithoutKeeps ==
  ASSUME NEW plan \in Seq(Task), NEW ids
  PROVE  Keeps(Without(plan, ids), plan, Len(plan), ids)
<1>1. Len(plan) \in Nat
  OBVIOUS
<1>2. PICK kept : /\ kept = [n \in 0 .. Len(plan) |->
                        IF n = 0 THEN <<>>
                        ELSE IF plan[n].id \in ids THEN kept[n - 1]
                             ELSE Append(kept[n - 1], plan[n])]
                  /\ Without(plan, ids) = kept[Len(plan)]
  BY <1>1, WithoutIs
<1>. DEFINE S == {n \in Nat : n <= Len(plan) => Keeps(kept[n], plan, n, ids)}
<1>3. 0 \in S
  <2>1. kept[0] = <<>>
    BY <1>1, <1>2
  <2>2. Keeps(<<>>, plan, 0, ids)
    BY DEF Keeps
  <2>. QED  BY <2>1, <2>2
<1>4. ASSUME NEW n \in Nat, n \in S PROVE n + 1 \in S
  <2>. SUFFICES ASSUME n + 1 <= Len(plan) PROVE Keeps(kept[n + 1], plan, n + 1, ids)
    OBVIOUS
  <2>1. n <= Len(plan) /\ n + 1 \in 0 .. Len(plan) /\ n + 1 # 0 /\ (n + 1) - 1 = n
    BY <1>1
  <2>2. kept[n + 1] = IF plan[n + 1].id \in ids THEN kept[n] ELSE Append(kept[n], plan[n + 1])
    BY ONLY <1>2, <2>1, Zenon
  <2>3. Keeps(kept[n], plan, n, ids)
    BY <1>4, <2>1
  <2>. QED  BY <2>2, <2>3, KeepsMore
<1>5. Nat \subseteq S
  <2>. HIDE DEF S
  <2>. QED  BY <1>3, <1>4, Induction
<1>. QED  BY <1>1, <1>2, <1>5

(* The rest of a schedule is one itself, given what was left out.            *)
LEMMA RestFits ==
  ASSUME NEW ts, Unique(ts), NEW plan, Schedule(ts, plan), NEW ids,
         NEW rest, rest = Without(plan, ids)
  PROVE  /\ \A i \in DOMAIN rest :
              Range(rest[i].deps) \subseteq ids \union {rest[j].id : j \in 1 .. i - 1}
         /\ Range(rest) \subseteq Range(ts)
<1>1. plan \in Seq(Task) /\ Keeps(rest, plan, Len(plan), ids) /\ DOMAIN plan = 1 .. Len(plan)
  BY WithoutKeeps DEF Schedule
<1>2. ASSUME NEW i \in DOMAIN rest
      PROVE  /\ Range(rest[i].deps) \subseteq ids \union {rest[j].id : j \in 1 .. i - 1}
             /\ rest[i] \in Range(ts)
  <2>1. PICK k \in 1 .. Len(plan) :
          /\ rest[i] = plan[k]
          /\ \A j \in 1 .. k - 1 : plan[j].id \in ids \/ \E h \in 1 .. i - 1 : rest[h] = plan[j]
    BY <1>1 DEF Keeps
  <2>2. plan[k] \in FreeAt(ts, plan, k)
    BY <1>1 DEF Schedule
  <2>3. plan[k] \in Range(ts) /\ Range(plan[k].deps) \subseteq {plan[j].id : j \in 1 .. k - 1}
    BY <2>2 DEF FreeAt
  <2>4. ASSUME NEW j \in 1 .. k - 1
        PROVE  plan[j].id \in ids \union {rest[h].id : h \in 1 .. i - 1}
    BY <2>1
  <2>. QED  BY <2>1, <2>3, <2>4
<1>. QED  BY <1>2 DEF Range

-------------------------------------------------------------------------------
(* The agent's state: an outcome is there only when nothing is being asked,   *)
(* and it is what the answer it is about gives.                               *)

GoodPlan == outcome.kind = "plan" =>
  /\ Valid(answer) /\ Len(TopologicalSort(answer)) = Len(answer)
  /\ outcome.tasks = TopologicalSort(answer)

GoodDeadlock == outcome.what = "E_DEPS_DEADLOCK" =>
  Valid(answer) /\ Len(TopologicalSort(answer)) # Len(answer)

GoodReplan == outcome.what = "replan" =>
  /\ Valid(answer)
  /\ outcome.tasks = Without(TopologicalSort(answer), Done(board))

PlanningInv ==
  /\ TypeOK
  /\ call # "none" => outcome = Nothing
  /\ GoodPlan /\ GoodDeadlock /\ GoodReplan

(* The tasks of a plan or of a REPLAN are tasks of the answer.               *)
LEMMA TasksAreAnswers ==
  ASSUME NEW ts, Valid(ts), NEW ids
  PROVE  /\ Range(TopologicalSort(ts)) \subseteq Range(ts)
         /\ Range(Without(TopologicalSort(ts), ids)) \subseteq Range(ts)
<1>1. Unique(ts) /\ Schedule(ts, TopologicalSort(ts))
  BY ValidIs, SortIsSchedule
<1>2. Range(TopologicalSort(ts)) \subseteq Range(ts)
  BY <1>1, ScheduleHas DEF Range
<1>3. Range(Without(TopologicalSort(ts), ids)) \subseteq Range(ts)
  BY <1>1, RestFits
<1>. QED  BY <1>2, <1>3

(* An outcome of another kind says nothing about tasks.                      *)
LEMMA Plain ==
  ASSUME PlanningInv,
         outcome'.kind \in {"none", "strategy", "review", "error"},
         outcome'.what \in (Codes \union Decisions \union {"none"}) \ {"E_DEPS_DEADLOCK", "replan"},
         outcome'.tasks = <<>>,
         call' \in Calls, attempt' \in 0 .. MaxRetries, strategy' \in BOOLEAN,
         board' \in WorkItems \union {<<>>}, answer' \in Answers \union {<<>>},
         call' # "none" => outcome' = Nothing
  PROVE  PlanningInv'
<1>1. Range(outcome'.tasks) = {}
  BY DEF Range
<1>2. TypeOK'
  BY <1>1 DEF TypeOK
<1>3. GoodPlan' /\ GoodDeadlock' /\ GoodReplan'
  BY DEF GoodPlan, GoodDeadlock, GoodReplan
<1>. QED  BY <1>2, <1>3 DEF PlanningInv

(* The first state.                                                          *)
LEMMA PlanningInit == Init => PlanningInv
<1>. SUFFICES ASSUME Init PROVE PlanningInv
  OBVIOUS
<1>1. outcome.kind = "none" /\ outcome.what = "none" /\ outcome.tasks = <<>>
  BY DEF Init, Nothing
<1>2. Range(outcome.tasks) = {}
  BY <1>1 DEF Range
<1>3. TypeOK
  <2>1. call \in Calls /\ attempt \in 0 .. MaxRetries
    BY PlanningAssumption DEF Init, Calls
  <2>3. strategy \in BOOLEAN
    BY DEF Init
  <2>2. board \in WorkItems \union {<<>>} /\ answer \in Answers \union {<<>>}
    BY DEF Init
  <2>. QED  BY <1>1, <1>2, <2>1, <2>2, <2>3 DEF TypeOK
<1>4. GoodPlan /\ GoodDeadlock /\ GoodReplan /\ (call # "none" => outcome = Nothing)
  BY <1>1 DEF Init, GoodPlan, GoodDeadlock, GoodReplan
<1>. QED  BY <1>3, <1>4 DEF PlanningInv

(* A call begins.                                                            *)
LEMMA BeginKeeps ==
  ASSUME PlanningInv, NEW what \in {"strategy", "tasks", "signal"}, Begin(what),
         board' \in WorkItems \union {<<>>}, strategy' \in BOOLEAN
  PROVE  PlanningInv'
<1>1. /\ outcome'.kind = "none" /\ outcome'.what = "none" /\ outcome'.tasks = <<>>
      /\ outcome' = Nothing /\ call' \in Calls /\ attempt' \in 0 .. MaxRetries /\ answer' = <<>>
  BY PlanningAssumption DEF Begin, Nothing, Calls
<1>2. "none" \in (Codes \union Decisions \union {"none"}) \ {"E_DEPS_DEADLOCK", "replan"}
  BY DEF Codes, Decisions
<1>. QED  BY <1>1, <1>2, Plain

(* A call ends with an outcome that is not about tasks.                      *)
LEMMA FinishKeeps ==
  ASSUME PlanningInv,
         NEW kind \in {"strategy", "review", "error"},
         NEW what \in (Codes \union Decisions \union {"none"}) \ {"E_DEPS_DEADLOCK", "replan"},
         Finish(Returned(kind, what, <<>>)),
         board' \in WorkItems \union {<<>>}, answer' \in Answers \union {<<>>},
         strategy' \in BOOLEAN
  PROVE  PlanningInv'
<1>1. /\ outcome'.kind = kind /\ outcome'.what = what /\ outcome'.tasks = <<>>
      /\ call' = "none" /\ call' \in Calls /\ attempt' \in 0 .. MaxRetries
  BY PlanningAssumption DEF Finish, Returned, Calls
<1>. QED  BY <1>1, Plain

(* An answer that will not do: it is asked for again, or an error is raised. *)
LEMMA RetryKeeps ==
  ASSUME PlanningInv, call # "none",
         NEW code \in {"E_PARSE_JSON", "E_PARSE_SCHEMA"}, Retry(code),
         board' = board, strategy' = strategy, answer' \in Answers \union {<<>>}
  PROVE  PlanningInv'
<1>. USE DEF PlanningInv
<1>1. code \in (Codes \union Decisions \union {"none"}) \ {"E_DEPS_DEADLOCK", "replan"}
  BY DEF Codes
<1>2. board \in WorkItems \union {<<>>} /\ strategy \in BOOLEAN
  BY DEF TypeOK
<1>3. CASE attempt < MaxRetries /\ attempt' = attempt + 1 /\ UNCHANGED <<call, outcome>>
  <2>1. outcome' = Nothing /\ call' \in Calls /\ attempt' \in 0 .. MaxRetries
    BY <1>3, PlanningAssumption DEF TypeOK
  <2>2. /\ outcome'.kind = "none" /\ outcome'.what = "none" /\ outcome'.tasks = <<>>
        /\ "none" \in (Codes \union Decisions \union {"none"}) \ {"E_DEPS_DEADLOCK", "replan"}
    BY <2>1 DEF Nothing, Codes, Decisions
  <2>. QED  BY <1>2, <2>1, <2>2, Plain
<1>4. CASE attempt >= MaxRetries /\ Finish(Raised(code))
  <2>1. Finish(Returned("error", code, <<>>))
    BY <1>4 DEF Raised, Returned
  <2>. QED  BY <1>1, <1>2, <2>1, FinishKeeps
<1>. QED  BY <1>3, <1>4 DEF Retry

(* The answer to a question about tasks.                                     *)
LEMMA TasksKeeps ==
  ASSUME PlanningInv, NEW ts \in Answers, Tasks(ts)
  PROVE  PlanningInv'
<1>1. /\ call \in {"tasks", "replan"} /\ board' = board /\ strategy' = strategy
      /\ answer' = IF call' = "none" THEN ts ELSE <<>>
      /\ board \in WorkItems \union {<<>>} /\ strategy \in BOOLEAN
      /\ outcome = Nothing /\ attempt \in 0 .. MaxRetries
      /\ answer' \in Answers \union {<<>>}
  BY DEF Tasks, PlanningInv, TypeOK
<1>. DEFINE sorted == TopologicalSort(ts)
<1>2. CASE SchemaError(ts) /\ Retry("E_PARSE_SCHEMA")
  BY <1>1, <1>2, RetryKeeps
<1>3. CASE ~SchemaError(ts) /\ Len(sorted) # Len(ts) /\ Retry("E_DEPS_DEADLOCK")
  <2>1. CASE attempt < MaxRetries /\ attempt' = attempt + 1 /\ UNCHANGED <<call, outcome>>
    <3>1. outcome' = Nothing /\ call' \in Calls /\ attempt' \in 0 .. MaxRetries
      BY <1>1, <2>1, PlanningAssumption DEF Calls
    <3>2. /\ outcome'.kind = "none" /\ outcome'.what = "none" /\ outcome'.tasks = <<>>
          /\ "none" \in (Codes \union Decisions \union {"none"}) \ {"E_DEPS_DEADLOCK", "replan"}
      BY <3>1 DEF Nothing, Codes, Decisions
    <3>. QED  BY <1>1, <3>1, <3>2, Plain
  <2>2. CASE attempt >= MaxRetries /\ Finish(Raised("E_DEPS_DEADLOCK"))
    <3>1. /\ outcome'.kind = "error" /\ outcome'.what = "E_DEPS_DEADLOCK" /\ outcome'.tasks = <<>>
          /\ call' = "none" /\ attempt' = 0
      BY <2>2 DEF Finish, Raised
    <3>2. Valid(ts) /\ answer' = ts
      BY <1>1, <1>3, <3>1 DEF Valid
    <3>3. GoodPlan' /\ GoodDeadlock' /\ GoodReplan'
      BY <1>3, <3>1, <3>2 DEF GoodPlan, GoodDeadlock, GoodReplan
    <3>4. Range(outcome'.tasks) = {}
      BY <3>1 DEF Range
    <3>5. call' \in Calls /\ attempt' \in 0 .. MaxRetries /\ outcome'.what \in Codes
      BY <3>1, PlanningAssumption DEF Calls, Codes
    <3>6. TypeOK'
      BY <1>1, <3>1, <3>4, <3>5 DEF TypeOK
    <3>. QED  BY <3>1, <3>3, <3>6 DEF PlanningInv
  <2>. QED  BY <1>3, <2>1, <2>2 DEF Retry
<1>4. CASE ~SchemaError(ts) /\ Len(sorted) = Len(ts) /\ Plan(sorted)
  <2>1. call' = "none" /\ attempt' = 0 /\ answer' = ts /\ Valid(ts)
    BY <1>1, <1>4 DEF Plan, Finish, Valid
  <2>2. call' \in Calls /\ attempt' \in 0 .. MaxRetries
    BY <2>1, PlanningAssumption DEF Calls
  <2>3. CASE call = "tasks"
    <3>1. outcome'.kind = "plan" /\ outcome'.what = "none" /\ outcome'.tasks = sorted
      BY <1>4, <2>3 DEF Plan, Finish, Returned
    <3>2. GoodPlan' /\ GoodDeadlock' /\ GoodReplan'
      BY <1>4, <2>1, <3>1 DEF GoodPlan, GoodDeadlock, GoodReplan
    <3>3. TypeOK'
      BY <1>1, <2>1, <2>2, <3>1, TasksAreAnswers DEF TypeOK
    <3>. QED  BY <2>1, <3>2, <3>3 DEF PlanningInv
  <2>4. CASE call = "replan"
    <3>1. /\ outcome'.kind = "review" /\ outcome'.what = "replan"
          /\ outcome'.tasks = Without(sorted, Done(board))
      BY <1>4, <2>4 DEF Plan, Finish, Returned, StillToDo
    <3>2. Done(board') = Done(board)
      BY <1>1
    <3>3. GoodPlan' /\ GoodDeadlock' /\ GoodReplan'
      BY <1>4, <2>1, <3>1, <3>2 DEF GoodPlan, GoodDeadlock, GoodReplan
    <3>4. "replan" \in Decisions
      BY DEF Decisions
    <3>5. TypeOK'
      BY <1>1, <2>1, <2>2, <3>1, <3>4, TasksAreAnswers DEF TypeOK
    <3>. QED  BY <2>1, <3>3, <3>5 DEF PlanningInv
  <2>. QED  BY <1>1, <2>3, <2>4
<1>. QED  BY <1>2, <1>3, <1>4 DEF Tasks

(* The signal that the LLM gives on a review.                                *)
LEMMA SignalKeeps ==
  ASSUME PlanningInv, NEW decision \in Decisions, Signal(decision)
  PROVE  PlanningInv'
<1>1. /\ call = "signal" /\ UNCHANGED <<strategy, board, answer>>
      /\ board' \in WorkItems \union {<<>>} /\ strategy' \in BOOLEAN
      /\ answer' \in Answers \union {<<>>} /\ outcome = Nothing
  BY DEF Signal, PlanningInv, TypeOK
<1>2. CASE decision # "replan" /\ Finish(Returned("review", decision, <<>>))
  <2>1. decision \in (Codes \union Decisions \union {"none"}) \ {"E_DEPS_DEADLOCK", "replan"}
    BY <1>2 DEF Decisions
  <2>. QED  BY <1>1, <1>2, <2>1, FinishKeeps
<1>3. CASE decision = "replan" /\ ~strategy /\ Finish(Raised("E_SYSTEM_CONFIG"))
  <2>1. /\ Finish(Returned("error", "E_SYSTEM_CONFIG", <<>>))
        /\ "E_SYSTEM_CONFIG" \in
             (Codes \union Decisions \union {"none"}) \ {"E_DEPS_DEADLOCK", "replan"}
    BY <1>3 DEF Raised, Returned, Codes
  <2>. QED  BY <1>1, <2>1, FinishKeeps
<1>4. CASE call' = "replan" /\ attempt' = 1 /\ UNCHANGED outcome
  <2>1. outcome' = Nothing /\ call' \in Calls /\ attempt' \in 0 .. MaxRetries
    BY <1>1, <1>4, PlanningAssumption DEF Calls
  <2>2. /\ outcome'.kind = "none" /\ outcome'.what = "none" /\ outcome'.tasks = <<>>
        /\ "none" \in (Codes \union Decisions \union {"none"}) \ {"E_DEPS_DEADLOCK", "replan"}
    BY <2>1 DEF Nothing, Codes, Decisions
  <2>. QED  BY <1>1, <2>1, <2>2, Plain
<1>. QED  BY <1>2, <1>3, <1>4 DEF Signal

(* A review is asked for, or the run is given up at once.                    *)
LEMMA ReviewProgressKeeps ==
  ASSUME PlanningInv, NEW items \in WorkItems, ReviewProgress(items)
  PROVE  PlanningInv'
<1>1. board' \in WorkItems \union {<<>>} /\ strategy' \in BOOLEAN
  BY DEF ReviewProgress, PlanningInv, TypeOK
<1>2. CASE Finish(Returned("review", "abort", <<>>)) /\ answer' = <<>>
  <2>1. "abort" \in (Codes \union Decisions \union {"none"}) \ {"E_DEPS_DEADLOCK", "replan"}
    BY DEF Decisions
  <2>. QED  BY <1>1, <1>2, <2>1, FinishKeeps
<1>3. CASE Begin("signal")
  BY <1>1, <1>3, BeginKeeps
<1>. QED  BY <1>2, <1>3 DEF ReviewProgress

(* Every step keeps the invariant.                                           *)
LEMMA PlanningNext == PlanningInv /\ [Next]_vars => PlanningInv'
<1>. SUFFICES ASSUME PlanningInv, [Next]_vars PROVE PlanningInv'
  OBVIOUS
<1>1. /\ strategy \in BOOLEAN /\ board \in WorkItems \union {<<>>}
      /\ answer \in Answers \union {<<>>}
  BY DEF PlanningInv, TypeOK
<1>2. CASE CreateStrategy
  <2>1. board' = <<>> /\ strategy' = strategy /\ Begin("strategy")
    BY <1>2 DEF CreateStrategy
  <2>. QED  BY <1>1, <2>1, BeginKeeps
<1>3. CASE DecomposeTasks
  <2>1. board' = <<>> /\ strategy' = strategy /\ Begin("tasks")
    BY <1>3 DEF DecomposeTasks
  <2>. QED  BY <1>1, <2>1, BeginKeeps
<1>4. CASE \E items \in WorkItems : ReviewProgress(items)
  BY <1>4, ReviewProgressKeeps
<1>5. CASE LlmRaises
  <2>1. /\ Finish(Returned("error", "LLM", <<>>))
        /\ "LLM" \in (Codes \union Decisions \union {"none"}) \ {"E_DEPS_DEADLOCK", "replan"}
        /\ UNCHANGED <<strategy, board, answer>>
    BY <1>5 DEF LlmRaises, Raised, Returned, Codes
  <2>. QED  BY <1>1, <2>1, FinishKeeps
<1>6. CASE Unusable
  <2>1. PICK code \in {"E_PARSE_JSON", "E_PARSE_SCHEMA"} : Retry(code)
    BY <1>6 DEF Unusable
  <2>2. call # "none" /\ UNCHANGED <<strategy, board, answer>>
    BY <1>6 DEF Unusable
  <2>. QED  BY <1>1, <2>1, <2>2, RetryKeeps
<1>7. CASE Strategy
  <2>1. /\ Finish(Returned("strategy", "none", <<>>))
        /\ "none" \in (Codes \union Decisions \union {"none"}) \ {"E_DEPS_DEADLOCK", "replan"}
        /\ UNCHANGED <<board, answer>> /\ strategy' \in BOOLEAN
    BY <1>7 DEF Strategy, Codes, Decisions
  <2>. QED  BY <1>1, <2>1, FinishKeeps
<1>8. CASE \E decision \in Decisions : Signal(decision)
  BY <1>8, SignalKeeps
<1>9. CASE \E ts \in Answers : Tasks(ts)
  BY <1>9, TasksKeeps
<1>10. CASE UNCHANGED vars
  BY <1>10 DEF vars, PlanningInv, TypeOK, GoodPlan, GoodDeadlock, GoodReplan, Valid, Done
<1>. QED  BY <1>2, <1>3, <1>4, <1>5, <1>6, <1>7, <1>8, <1>9, <1>10 DEF Next

-------------------------------------------------------------------------------
(* The theorems.                                                              *)

(* The agent's state is always what TypeOK says.                             *)
THEOREM PlanningTypeCorrect == Spec => []TypeOK
<1>1. PlanningInv => TypeOK
  BY DEF PlanningInv
<1>. QED  BY <1>1, PlanningInit, PlanningNext, PTL DEF Spec

(* A plan holds the tasks of the answer, each once, in the order in which    *)
(* the least ready task is always next (_topological_sort).                  *)
THEOREM PlansAreSchedules == Spec => []PlanIsSchedule
<1>1. PlanningInv => PlanIsSchedule
  <2>. SUFFICES ASSUME PlanningInv, outcome.kind = "plan" PROVE PlanIsSchedule
    BY DEF PlanIsSchedule
  <2>1. /\ Unique(answer) /\ Len(outcome.tasks) = Len(answer)
        /\ Schedule(answer, outcome.tasks)
    BY ValidIs, SortIsSchedule DEF PlanningInv, GoodPlan
  <2>. QED  BY <2>1 DEF PlanIsSchedule, Schedule, FreeAt
<1>. QED  BY <1>1, PlanningInit, PlanningNext, PTL DEF Spec

(* "cyclic dependency detected" is said only of lists some of whose tasks    *)
(* each depend on another of them (_topological_sort).                       *)
THEOREM DeadlocksAreCycles == Spec => []DeadlockIsCycle
<1>1. PlanningInv => DeadlockIsCycle
  <2>. SUFFICES ASSUME PlanningInv, outcome.what = "E_DEPS_DEADLOCK" PROVE DeadlockIsCycle
    BY DEF DeadlockIsCycle
  <2>1. PICK knot : Knot(answer, knot)
    BY StuckInKnot DEF PlanningInv, GoodDeadlock
  <2>. QED  BY <2>1 DEF DeadlockIsCycle, Knot
<1>. QED  BY <1>1, PlanningInit, PlanningNext, PTL DEF Spec

(* What a REPLAN adds depends on what is done or comes earlier in it, on     *)
(* every board (review_progress).                                            *)
THEOREM ReplansFit == Spec => []ReplanFits
<1>1. PlanningInv => ReplanFits
  <2>. SUFFICES ASSUME PlanningInv, outcome.what = "replan" PROVE ReplanFits
    BY DEF ReplanFits
  <2>1. /\ Unique(answer) /\ Schedule(answer, TopologicalSort(answer))
        /\ outcome.tasks = Without(TopologicalSort(answer), Done(board))
    BY ValidIs, SortIsSchedule DEF PlanningInv, GoodReplan
  <2>2. \A i \in DOMAIN outcome.tasks :
          Range(outcome.tasks[i].deps) \subseteq
            Done(board) \union {outcome.tasks[j].id : j \in 1 .. i - 1}
    BY <2>1, RestFits
  <2>. QED  BY <2>2 DEF ReplanFits
<1>. QED  BY <1>1, PlanningInit, PlanningNext, PTL DEF Spec
===============================================================================
