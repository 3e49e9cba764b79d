---------------------------- MODULE DashboardProofs ----------------------------
(***************************************************************************)
(* Theorems about what the dashboard does to the server and what it is     *)
(* told: LimiterReload, for every number of tasks, every limit and every   *)
(* number of PATCH requests, and DashboardFeed, for every number of        *)
(* clients, connections and events.                                        *)
(***************************************************************************)
EXTENDS LimiterReload, DashboardFeed, QueueFacts

Limited == {t \in Tasks : RoleSlot[t] # "unknown"}

(* Semaphores are made by requests that have been made.                     *)
MadeInv ==
  /\ \A s \in Slots : current[s] <= patches
  /\ \A t \in Tasks : mine[t].role <= patches /\ mine[t].total <= patches

(* The tasks that wait for semaphore m.                                     *)
Waiters(m) ==
  {t \in Limited : \/ at[t] = "forTotal" /\ m = TotalOf(t)
                   \/ at[t] = "forRole" /\ m = RoleOf(t)}

(* The queue of m holds each of them once, and nobody else.                 *)
QueueInv ==
  \A m \in Semaphores : NoRepeat(queue[m]) /\ Elems(queue[m]) = Waiters(m)

(* The roles' semaphores in place were made with that of total, or by a     *)
(* request that broke off.                                                  *)
CurrentPairs ==
  \A s \in Slots \ {"total"} : current[s] = current["total"] \/ current[s] \in broken

(* So were those that the tasks have.                                       *)
MinePairs ==
  \A t \in Limited : mine[t].role = mine[t].total \/ mine[t].role \in broken

(* The limiter's record is what the semaphores in place were made with.     *)
RecordInv ==
  /\ \A s \in Slots : limits[s] = cap[<<s, current[s]>>]
  /\ answer = "applied" => config = limits

Balanced(m) == IsFiniteSet(Holders(m)) /\ free[m] + Cardinality(Holders(m)) = cap[m]

USE ReloadAssumption

(* The four limits by name.                                                 *)
LEMMA FourSlots == Slots = {"cto", "slm", "mlops", "total"}
<1>1. /\ Order[1] = "cto" /\ Order[2] = "slm"
      /\ Order[3] = "mlops" /\ Order[4] = "total"
  BY DEF Order
<1>2. 1 .. 4 = {1, 2, 3, 4}
  OBVIOUS
<1>. QED  BY <1>1, <1>2 DEF Slots

(* A limited task has two semaphores, which differ.                         *)
LEMMA TwoSemaphores ==
  ASSUME TypeOK, NEW t \in Limited
  PROVE  /\ RoleSlot[t] \in Slots \ {"total"}
         /\ RoleOf(t) \in Semaphores /\ TotalOf(t) \in Semaphores
         /\ RoleOf(t) # TotalOf(t)
         /\ \A s \in Slots : <<s, current[s]>> \in Semaphores
<1>1. RoleSlot[t] \in Slots \ {"total"}
  BY DEF Limited
<1>2. mine[t].role \in Reloads /\ mine[t].total \in Reloads
  BY DEF TypeOK, Limited
<1>3. "total" \in Slots
  BY FourSlots
<1>. QED  BY <1>1, <1>2, <1>3 DEF TypeOK, RoleOf, TotalOf, Semaphores

(* The limiter is created well typed.                                       *)
LEMMA TypeInit == Init => TypeOK
<1>. SUFFICES ASSUME Init PROVE TypeOK
  OBVIOUS
<1>1. 0 \in Reloads
  BY DEF Reloads
<1>2. cap \in [Semaphores -> Nat]
  BY DEF Init, Semaphores
<1>. QED  BY <1>1, <1>2 DEF Init, TypeOK, Places, Answers

(* Taking a role's slot, or queueing for it, keeps the types.               *)
LEMMA TakeRoleType ==
  ASSUME TypeOK, NEW t \in Limited, NEW m \in Semaphores,
         NEW left \in [Semaphores -> Nat], left[m] = free[m], TakeRole(t, m, left)
  PROVE  /\ free' \in [Semaphores -> Nat]
         /\ queue' \in [Semaphores -> Seq(Tasks)]
         /\ at' \in [Tasks -> Places]
<1>1. t \in Tasks /\ queue[m] \in Seq(Tasks) /\ free[m] \in Nat
  BY DEF TypeOK, Limited
<1>2. at' \in [Tasks -> Places]
  BY <1>1 DEF TakeRole, TypeOK, Places
<1>3. queue' \in [Semaphores -> Seq(Tasks)]
  <2>1. Append(queue[m], t) \in Seq(Tasks)
    BY <1>1
  <2>. QED  BY <2>1 DEF TakeRole, TypeOK
<1>4. free' \in [Semaphores -> Nat]
  BY <1>1 DEF TakeRole, Open
<1>. QED  BY <1>2, <1>3, <1>4

(* A request has a number within the bound.                                 *)
LEMMA CountedType == TypeOK /\ Counted => patches' \in Reloads /\ patches' = patches + 1
BY DEF TypeOK, Counted, Reloads

(* Every step keeps the types.                                              *)
LEMMA TypeStep == TypeOK /\ [Next]_vars => TypeOK'
<1>. SUFFICES ASSUME TypeOK, [Next]_vars PROVE TypeOK'
  OBVIOUS
<1>1. ASSUME NEW t \in Tasks, Enter(t) PROVE TypeOK'
  <2>1. t \in Limited
    BY <1>1 DEF Enter, Limited
  <2>2. /\ <<"total", current["total"]>> \in Semaphores
        /\ <<RoleSlot[t], current[RoleSlot[t]]>> \in Semaphores
        /\ RoleSlot[t] # "total"
    BY <2>1, TwoSemaphores, FourSlots
  <2>3. mine' \in [Tasks -> [role : Reloads, total : Reloads]]
    <3>1. current[RoleSlot[t]] \in Reloads /\ current["total"] \in Reloads
      BY <2>1, TwoSemaphores, FourSlots DEF TypeOK
    <3>. QED  BY <1>1, <3>1 DEF Enter, TypeOK
  <2>4. /\ free' \in [Semaphores -> Nat]
        /\ queue' \in [Semaphores -> Seq(Tasks)]
        /\ at' \in [Tasks -> Places]
    <3>. DEFINE m == <<"total", current["total"]>>
    <3>1. CASE Open(m) /\ TakeRole(t, <<RoleSlot[t], current[RoleSlot[t]]>>, [free EXCEPT ![m] = @ - 1])
      <4>1. [free EXCEPT ![m] = @ - 1] \in [Semaphores -> Nat]
        BY <2>2, <3>1 DEF Open, TypeOK
      <4>2. [free EXCEPT ![m] = @ - 1][<<RoleSlot[t], current[RoleSlot[t]]>>]
              = free[<<RoleSlot[t], current[RoleSlot[t]]>>]
        BY <2>2 DEF TypeOK
      <4>. QED  BY <2>1, <2>2, <3>1, <4>1, <4>2, TakeRoleType
    <3>2. CASE /\ queue' = [queue EXCEPT ![m] = Append(@, t)]
               /\ at' = [at EXCEPT ![t] = "forTotal"]
               /\ UNCHANGED free
      <4>1. Append(queue[m], t) \in Seq(Tasks)
        BY <2>2 DEF TypeOK
      <4>. QED  BY <2>2, <3>2, <4>1 DEF TypeOK, Places
    <3>. QED  BY <1>1, <3>1, <3>2 DEF Enter
  <2>. QED  BY <1>1, <2>3, <2>4 DEF Enter, TypeOK, requests
<1>2. ASSUME NEW t \in Tasks, Continue(t) PROVE TypeOK'
  <2>1. CASE t \in Limited
    BY <1>2, <2>1, TwoSemaphores, TakeRoleType DEF Continue, TypeOK, requests
  <2>2. CASE t \notin Limited
    <3>1. RoleOf(t) \notin Semaphores
      BY <2>2, FourSlots DEF Limited, RoleOf, Semaphores
    <3>2. at' \in [Tasks -> Places]
      BY <1>2 DEF Continue, TakeRole, TypeOK, Places
    <3>3. free' \in [Semaphores -> Nat] /\ queue' \in [Semaphores -> Seq(Tasks)]
      BY <1>2, <3>1 DEF Continue, TakeRole, TypeOK
    <3>. QED  BY <1>2, <3>2, <3>3 DEF Continue, TypeOK, requests
  <2>. QED  BY <2>1, <2>2
<1>3. ASSUME NEW t \in Tasks, Leave(t) PROVE TypeOK'
  <2>. DEFINE ms == {RoleOf(t), TotalOf(t)}
  <2>1. ReleaseTo(t, ms)
    BY <1>3 DEF Leave
  <2>2. free' \in [Semaphores -> Nat]
    BY <2>1 DEF ReleaseTo, TypeOK
  <2>3. queue' \in [Semaphores -> Seq(Tasks)]
    <3>1. \A m \in Semaphores : queue[m] # <<>> => Tail(queue[m]) \in Seq(Tasks)
      BY DEF TypeOK
    <3>. QED  BY <2>1, <3>1 DEF ReleaseTo, TypeOK
  <2>4. at' \in [Tasks -> Places]
    BY <2>1 DEF ReleaseTo, TypeOK, Places
  <2>. QED  BY <2>1, <2>2, <2>3, <2>4 DEF ReleaseTo, TypeOK, requests
<1>4. ASSUME NEW t \in Tasks, PassUnlimited(t) PROVE TypeOK'
  BY <1>4 DEF PassUnlimited, TypeOK, semaphores, requests, Places
<1>5. ASSUME NEW s \in Slots, NEW v \in Values, PatchLimit(s, v) PROVE TypeOK'
  <2>1. /\ config' \in [Slots -> Nat] /\ patches' \in Reloads
        /\ UpdateLimits(config') /\ UNCHANGED <<queue, at, mine>>
    BY <1>5, CountedType DEF PatchLimit, TypeOK
  <2>2. \A r \in Swapped(config') : r \in Slots /\ config'[r] \in Nat \ {0}
    <3>. SUFFICES ASSUME NEW i \in 1 .. 4, \A j \in 1 .. i : config'[Order[j]] >= 1
                  PROVE  Order[i] \in Slots /\ config'[Order[i]] \in Nat \ {0}
      BY DEF Swapped
    <3>1. Order[i] \in Slots
      BY DEF Slots
    <3>2. config'[Order[i]] >= 1
      OBVIOUS
    <3>. QED  BY <2>1, <3>1, <3>2
  <2>3. limits' \in [Slots -> Nat \ {0}] /\ current' \in [Slots -> Reloads]
    BY <2>1, <2>2 DEF UpdateLimits, TypeOK
  <2>4. cap' \in [Semaphores -> Nat] /\ free' \in [Semaphores -> Nat]
    <3>1. \A m \in Semaphores : m[1] \in Slots
      BY DEF Semaphores
    <3>. QED  BY <2>1, <2>2, <3>1 DEF UpdateLimits, TypeOK
  <2>5. broken' \subseteq Reloads /\ answer' \in Answers
    BY <2>1 DEF UpdateLimits, TypeOK, Answers
  <2>. QED  BY <2>1, <2>3, <2>4, <2>5 DEF TypeOK
<1>6. ASSUME NEW p \in Profiles, PatchProfile(p) PROVE TypeOK'
  <2>1. patches' \in Reloads
    BY <1>6, CountedType DEF PatchProfile
  <2>. QED  BY <1>6, <2>1 DEF PatchProfile, TypeOK, Answers, semaphores
<1>7. CASE PatchRefused
  <2>1. patches' \in Reloads
    BY <1>7, CountedType DEF PatchRefused
  <2>. QED  BY <1>7, <2>1 DEF PatchRefused, TypeOK, Answers, semaphores
<1>8. CASE UNCHANGED vars
  BY <1>8 DEF vars, TypeOK
<1>. QED  BY <1>1, <1>2, <1>3, <1>4, <1>5, <1>6, <1>7, <1>8 DEF Next, TaskStep, Patch

-------------------------------------------------------------------------------
(* Requests are counted before they make semaphores.                        *)
LEMMA MadeInit == Init => MadeInv
BY FourSlots DEF Init, MadeInv

(* A request gets its number in the same step in which it makes its          *)
(* semaphores, so none is in place, or in use, that a later one will make.   *)
LEMMA MadeStep == TypeOK /\ MadeInv /\ [Next]_vars => MadeInv'
<1>. SUFFICES ASSUME TypeOK, MadeInv, [Next]_vars PROVE MadeInv'
  OBVIOUS
<1>0. patches \in Nat /\ current \in [Slots -> Nat]
  BY DEF TypeOK, Reloads
<1>1. ASSUME NEW t \in Tasks, Enter(t) PROVE MadeInv'
  <2>1. current[RoleSlot[t]] <= patches /\ current["total"] <= patches
    BY <1>1, TwoSemaphores, FourSlots DEF Enter, Limited, MadeInv
  <2>2. mine'[t] = [role |-> current[RoleSlot[t]], total |-> current["total"]]
    BY <1>1 DEF Enter, TypeOK
  <2>3. \A u \in Tasks \ {t} : mine'[u] = mine[u]
    BY <1>1 DEF Enter, TypeOK
  <2>. QED  BY <1>1, <2>1, <2>2, <2>3 DEF Enter, MadeInv, requests
<1>2. ASSUME NEW t \in Tasks, Continue(t) \/ Leave(t) \/ PassUnlimited(t) PROVE MadeInv'
  BY <1>2 DEF Continue, Leave, ReleaseTo, PassUnlimited, MadeInv, requests
<1>3. ASSUME NEW s \in Slots, NEW v \in Values, PatchLimit(s, v) PROVE MadeInv'
  <2>1. patches' = patches + 1 /\ mine' = mine
    BY <1>3, CountedType DEF PatchLimit
  <2>2. \A r \in Slots : current'[r] = patches' \/ current'[r] = current[r]
    BY <1>3 DEF PatchLimit, UpdateLimits
  <2>3. \A t \in Tasks : mine[t].role \in Nat /\ mine[t].total \in Nat
    BY DEF TypeOK, Reloads
  <2>. QED  BY <1>0, <2>1, <2>2, <2>3 DEF MadeInv
<1>4. ASSUME NEW p \in Profiles, PatchProfile(p) \/ PatchRefused PROVE MadeInv'
  <2>1. patches' = patches + 1 /\ mine' = mine /\ current' = current
    BY <1>4, CountedType DEF PatchProfile, PatchRefused
  <2>3. \A t \in Tasks : mine[t].role \in Nat /\ mine[t].total \in Nat
    BY DEF TypeOK, Reloads
  <2>. QED  BY <1>0, <2>1, <2>3 DEF MadeInv
<1>5. CASE PatchRefused
  <2>1. patches' = patches + 1 /\ mine' = mine /\ current' = current
    BY <1>5, CountedType DEF PatchRefused
  <2>3. \A t \in Tasks : mine[t].role \in Nat /\ mine[t].total \in Nat
    BY DEF TypeOK, Reloads
  <2>. QED  BY <1>0, <2>1, <2>3 DEF MadeInv
<1>6. CASE UNCHANGED vars
  BY <1>6 DEF vars, MadeInv
<1>. QED  BY <1>1, <1>2, <1>3, <1>4, <1>5, <1>6 DEF Next, TaskStep, Patch

-------------------------------------------------------------------------------
(* total is the last that update_limits replaces: it is replaced only if    *)
(* all four are.                                                            *)
LEMMA SwappedFacts ==
  ASSUME NEW new
  PROVE  /\ Swapped(new) \subseteq Slots
         /\ "total" \in Swapped(new) => Swapped(new) = Slots
<1>1. Swapped(new) \subseteq Slots
  BY DEF Swapped, Slots
<1>2. ASSUME "total" \in Swapped(new) PROVE Swapped(new) = Slots
  <2>1. PICK i \in 1 .. 4 : Order[i] = "total" /\ \A j \in 1 .. i : new[Order[j]] >= 1
    BY <1>2 DEF Swapped
  <2>2. i = 4
    BY <2>1 DEF Order
  <2>3. \A k \in 1 .. 4 : \A j \in 1 .. k : new[Order[j]] >= 1
    BY <2>1, <2>2
  <2>. QED  BY <1>1, <2>3 DEF Swapped, Slots
<1>. QED  BY <1>1, <1>2

(* No step of a task touches the config, the limiter's record or the limits *)
(* of the semaphores.                                                       *)
LEMMA TaskStepRequests ==
  ASSUME NEW t \in Tasks, TaskStep(t)
  PROVE  UNCHANGED <<cap, config, limits, current, patches, answer, broken>>
BY DEF TaskStep, Enter, Continue, Leave, ReleaseTo, PassUnlimited, requests, semaphores

(* The limiter starts with a record of the limits its semaphores have.       *)
LEMMA RecordInit == Init => RecordInv
<1>. SUFFICES ASSUME Init PROVE RecordInv
  OBVIOUS
<1>1. \A s \in Slots : <<s, 0>> \in Semaphores
  BY DEF Semaphores, Reloads
<1>. QED  BY <1>1 DEF Init, RecordInv

(* update_limits writes the record of a limit together with its semaphore,   *)
(* and says applied only if it wrote all four.                               *)
LEMMA RecordStep == TypeOK /\ RecordInv /\ [Next]_vars => RecordInv'
<1>. SUFFICES ASSUME TypeOK, RecordInv, [Next]_vars PROVE RecordInv'
  OBVIOUS
<1>1. ASSUME NEW t \in Tasks, TaskStep(t) PROVE RecordInv'
  BY <1>1, TaskStepRequests DEF RecordInv
<1>2. ASSUME NEW s \in Slots, NEW v \in Values, PatchLimit(s, v) PROVE RecordInv'
  <2>1. UpdateLimits(config') /\ patches' \in Reloads /\ config' \in [Slots -> Nat]
    BY <1>2, CountedType DEF PatchLimit, TypeOK
  <2>2. ASSUME NEW r \in Slots PROVE limits'[r] = cap'[<<r, current'[r]>>]
    <3>1. <<r, patches'>> \in Semaphores /\ <<r, current[r]>> \in Semaphores
      BY <2>1 DEF Semaphores, TypeOK
    <3>2. CASE r \in Swapped(config')
      BY <2>1, <3>1, <3>2 DEF UpdateLimits
    <3>3. CASE r \notin Swapped(config')
      BY <2>1, <3>1, <3>3 DEF UpdateLimits, RecordInv
    <3>. QED  BY <3>2, <3>3
  <2>3. answer' = "applied" => config' = limits'
    BY <2>1 DEF UpdateLimits
  <2>. QED  BY <2>2, <2>3 DEF RecordInv
<1>3. ASSUME NEW p \in Profiles, PatchProfile(p) PROVE RecordInv'
  BY <1>3 DEF PatchProfile, RecordInv, semaphores
<1>4. CASE PatchRefused
  BY <1>4 DEF PatchRefused, RecordInv, semaphores
<1>5. CASE UNCHANGED vars
  BY <1>5 DEF vars, RecordInv
<1>. QED  BY <1>1, <1>2, <1>3, <1>4, <1>5 DEF Next, Patch

-------------------------------------------------------------------------------
(* __init__ makes all four semaphores.                                       *)
LEMMA PairsInit == Init => CurrentPairs /\ MinePairs
BY FourSlots DEF Init, CurrentPairs, MinePairs, Limited

(* A request that leaves semaphores of two requests in place has broken      *)
(* off, and stays so remembered.                                             *)
LEMMA PairsStep ==
  TypeOK /\ CurrentPairs /\ MinePairs /\ [Next]_vars => CurrentPairs' /\ MinePairs'
<1>. SUFFICES ASSUME TypeOK, CurrentPairs, MinePairs, [Next]_vars
              PROVE  CurrentPairs' /\ MinePairs'
  OBVIOUS
<1>1. ASSUME NEW t \in Tasks, Enter(t) PROVE CurrentPairs' /\ MinePairs'
  <2>1. CurrentPairs' /\ broken' = broken
    BY <1>1 DEF Enter, requests, CurrentPairs
  <2>2. RoleSlot[t] \in Slots \ {"total"}
    BY <1>1, TwoSemaphores DEF Enter, Limited
  <2>3. mine'[t].role = mine'[t].total \/ mine'[t].role \in broken
    BY <1>1, <2>2 DEF Enter, CurrentPairs, TypeOK
  <2>4. \A u \in Tasks \ {t} : mine'[u] = mine[u]
    BY <1>1 DEF Enter, TypeOK
  <2>. QED  BY <2>1, <2>3, <2>4 DEF MinePairs, Limited
<1>2. ASSUME NEW t \in Tasks, Continue(t) \/ Leave(t) \/ PassUnlimited(t)
      PROVE  CurrentPairs' /\ MinePairs'
  BY <1>2 DEF Continue, Leave, ReleaseTo, PassUnlimited, requests, CurrentPairs, MinePairs
<1>3. ASSUME NEW s \in Slots, NEW v \in Values, PatchLimit(s, v)
      PROVE  CurrentPairs' /\ MinePairs'
  <2>. DEFINE swapped == Swapped(config')
  <2>1. /\ UpdateLimits(config') /\ mine' = mine
        /\ swapped \subseteq Slots /\ ("total" \in swapped => swapped = Slots)
    BY <1>3, SwappedFacts DEF PatchLimit
  <2>2. broken \subseteq broken'
    BY <2>1 DEF UpdateLimits
  <2>3. CASE swapped = Slots
    BY <2>1, <2>2, <2>3, FourSlots DEF UpdateLimits, CurrentPairs, MinePairs
  <2>4. CASE swapped # Slots
    <3>1. patches' \in broken' /\ current'["total"] = current["total"]
      BY <2>1, <2>4, FourSlots DEF UpdateLimits
    <3>2. \A r \in Slots : current'[r] = current[r] \/ current'[r] = patches'
      BY <2>1 DEF UpdateLimits
    <3>. QED  BY <2>1, <2>2, <3>1, <3>2 DEF CurrentPairs, MinePairs
  <2>. QED  BY <2>3, <2>4
<1>4. ASSUME NEW p \in Profiles, PatchProfile(p) PROVE CurrentPairs' /\ MinePairs'
  BY <1>4 DEF PatchProfile, CurrentPairs, MinePairs
<1>5. CASE PatchRefused
  BY <1>5 DEF PatchRefused, CurrentPairs, MinePairs
<1>6. CASE UNCHANGED vars
  BY <1>6 DEF vars, CurrentPairs, MinePairs
<1>. QED  BY <1>1, <1>2, <1>3, <1>4, <1>5, <1>6 DEF Next, TaskStep, Patch

-------------------------------------------------------------------------------
(* A step that leaves the queues and the waiting tasks alone.               *)
LEMMA SameWaiters ==
  ASSUME QueueInv, queue' = queue,
         \A m \in Semaphores : Waiters(m)' = Waiters(m)
  PROVE  QueueInv'
BY DEF QueueInv

(* A limited task that did not wait and does so now for m, at the end of    *)
(* its queue, keeps the queues and the waiting tasks in agreement.          *)
LEMMA JoinQueue ==
  ASSUME TypeOK, QueueInv, NEW t \in Limited, NEW m \in Semaphores,
         at[t] \in {"new", "hasTotal"},
         queue' = [queue EXCEPT ![m] = Append(@, t)],
         \A u \in Limited \ {t} : at'[u] = at[u] /\ mine'[u] = mine[u],
         \A n \in Semaphores : t \in Waiters(n)' <=> n = m
  PROVE  QueueInv'
<1>1. \A n \in Semaphores : t \notin Waiters(n)
  BY DEF Waiters
<1>2. ASSUME NEW n \in Semaphores
      PROVE  Waiters(n)' = IF n = m THEN Waiters(n) \union {t} ELSE Waiters(n)
  <2>1. ASSUME NEW u \in Limited \ {t} PROVE u \in Waiters(n)' <=> u \in Waiters(n)
    BY <2>1 DEF Waiters, RoleOf, TotalOf
  <2>2. Waiters(n) \subseteq Limited /\ Waiters(n)' \subseteq Limited
    BY DEF Waiters
  <2>3. t \notin Waiters(n) /\ (t \in Waiters(n)' <=> n = m)
    BY <1>1
  <2>4. CASE n = m
    BY <2>1, <2>2, <2>3, <2>4
  <2>5. CASE n # m
    <3>1. \A u : u \in Waiters(n)' <=> u \in Waiters(n)
      BY <2>1, <2>2, <2>3, <2>5
    <3>2. Waiters(n)' = Waiters(n)
      BY <3>1
    <3>. QED  BY <2>5, <3>2
  <2>. QED  BY <2>4, <2>5
<1>3. queue[m] \in Seq(Tasks) /\ t \in Tasks /\ t \notin Elems(queue[m])
  BY <1>1 DEF TypeOK, QueueInv, Limited
<1>4. /\ Elems(Append(queue[m], t)) = Elems(queue[m]) \union {t}
      /\ NoRepeat(Append(queue[m], t))
  BY <1>3, AppendElems DEF QueueInv
<1>5. \A n \in Semaphores : queue'[n] = IF n = m THEN Append(queue[m], t) ELSE queue[n]
  BY DEF TypeOK
<1>. QED  BY <1>2, <1>4, <1>5 DEF QueueInv

(* What Leave does: both slots of t go to the heads of the two queues, one  *)
(* of which waits for its role and the other for total.                     *)
LEMMA LeaveFacts ==
  ASSUME TypeOK, QueueInv, NEW t \in Tasks, Leave(t)
  PROVE  LET r == RoleOf(t)
             o == TotalOf(t)
             hr == Head(queue[r])
             ho == Head(queue[o])
         IN  /\ t \in Limited
             /\ queue[r] # <<>> => hr \in Limited /\ at[hr] = "forRole" /\ RoleOf(hr) = r
             /\ queue[o] # <<>> => ho \in Limited /\ at[ho] = "forTotal" /\ TotalOf(ho) = o
             /\ \A u \in Tasks :
                  at'[u] = IF u = t THEN "done"
                           ELSE IF queue[r] # <<>> /\ u = hr THEN "inside"
                           ELSE IF queue[o] # <<>> /\ u = ho THEN "hasTotal"
                           ELSE at[u]
<1>. DEFINE r == RoleOf(t)
            o == TotalOf(t)
            hr == Head(queue[r])
            ho == Head(queue[o])
<1>1. /\ t \in Limited /\ r \in Semaphores /\ o \in Semaphores
      /\ r[1] # "total" /\ o[1] = "total"
  BY TwoSemaphores DEF Leave, Limited, RoleOf, TotalOf
<1>2. \A u \in Limited : RoleOf(u)[1] # "total" /\ TotalOf(u)[1] = "total"
  BY TwoSemaphores DEF RoleOf, TotalOf
<1>3. queue[r] # <<>> => hr \in Limited /\ at[hr] = "forRole" /\ RoleOf(hr) = r
  <2>1. queue[r] \in Seq(Tasks) /\ NoRepeat(queue[r]) /\ Elems(queue[r]) = Waiters(r)
    BY <1>1 DEF TypeOK, QueueInv
  <2>2. queue[r] # <<>> => hr \in Waiters(r)
    BY <2>1, TailElems
  <2>. QED  BY <1>1, <1>2, <2>2 DEF Waiters
<1>4. queue[o] # <<>> => ho \in Limited /\ at[ho] = "forTotal" /\ TotalOf(ho) = o
  <2>1. queue[o] \in Seq(Tasks) /\ NoRepeat(queue[o]) /\ Elems(queue[o]) = Waiters(o)
    BY <1>1 DEF TypeOK, QueueInv
  <2>2. queue[o] # <<>> => ho \in Waiters(o)
    BY <2>1, TailElems
  <2>. QED  BY <1>1, <1>2, <2>2 DEF Waiters
<1>5. \A u \in Tasks :
        at'[u] = IF u = t THEN "done"
                 ELSE IF queue[r] # <<>> /\ u = hr THEN "inside"
                 ELSE IF queue[o] # <<>> /\ u = ho THEN "hasTotal"
                 ELSE at[u]
  <2>1. ReleaseTo(t, {r, o})
    BY DEF Leave
  <2>. HIDE DEF r, o
  <2>2. \A u \in Tasks :
          at'[u] = IF u = t THEN "done"
                   ELSE IF (queue[r] # <<>> /\ u = hr) \/ (queue[o] # <<>> /\ u = ho)
                        THEN IF at[u] = "forTotal" THEN "hasTotal" ELSE "inside"
                        ELSE at[u]
    BY <2>1 DEF ReleaseTo
  <2>. QED  BY <1>3, <1>4, <2>2
<1>. QED  BY <1>1, <1>3, <1>4, <1>5

(* The task that leaves waited for nothing; the two heads wait no more.     *)
LEMMA LeaveQueues ==
  ASSUME TypeOK, QueueInv, NEW t \in Tasks, Leave(t)
  PROVE  QueueInv'
<1>. DEFINE r == RoleOf(t)
            o == TotalOf(t)
            hr == Head(queue[r])
            ho == Head(queue[o])
            ms == {r, o}
<1>1. /\ t \in Limited /\ at[t] = "inside"
      /\ r \in Semaphores /\ o \in Semaphores /\ r # o
      /\ mine' = mine
      /\ \A m \in Semaphores :
           queue'[m] = IF m \in ms /\ queue[m] # <<>> THEN Tail(queue[m]) ELSE queue[m]
  <2>1. t \in Limited /\ ReleaseTo(t, ms) /\ at[t] = "inside"
    BY DEF Leave, Limited
  <2>. QED  BY <2>1, TwoSemaphores DEF ReleaseTo
<1>2. /\ queue[r] # <<>> => hr \in Limited /\ at[hr] = "forRole" /\ RoleOf(hr) = r
      /\ queue[o] # <<>> => ho \in Limited /\ at[ho] = "forTotal" /\ TotalOf(ho) = o
      /\ \A u \in Tasks :
           at'[u] = IF u = t THEN "done"
                    ELSE IF queue[r] # <<>> /\ u = hr THEN "inside"
                    ELSE IF queue[o] # <<>> /\ u = ho THEN "hasTotal"
                    ELSE at[u]
  BY LeaveFacts
<1>3. \A u : RoleOf(u)' = RoleOf(u) /\ TotalOf(u)' = TotalOf(u)
  BY <1>1 DEF RoleOf, TotalOf
<1>4. ASSUME NEW m \in Semaphores
      PROVE  Waiters(m)' = IF m \in ms /\ queue[m] # <<>>
                           THEN Waiters(m) \ {Head(queue[m])} ELSE Waiters(m)
  <2>. HIDE DEF r, o, hr, ho
  <2>1. Waiters(m) \subseteq Limited /\ Waiters(m)' \subseteq Limited /\ Limited \subseteq Tasks
    BY DEF Waiters, Limited
  <2>2. ASSUME NEW u \in Limited, ~(queue[r] # <<>> /\ u = hr), ~(queue[o] # <<>> /\ u = ho)
        PROVE  u \in Waiters(m)' <=> u \in Waiters(m)
    BY <1>1, <1>2, <1>3, <2>1, <2>2 DEF Waiters
  <2>3. queue[r] # <<>> => hr \notin Waiters(m)' /\ (hr \in Waiters(m) <=> m = r)
    BY <1>1, <1>2, <1>3, <2>1 DEF Waiters
  <2>4. queue[o] # <<>> => ho \notin Waiters(m)' /\ (ho \in Waiters(m) <=> m = o)
    BY <1>1, <1>2, <1>3, <2>1 DEF Waiters
  <2>5. ASSUME NEW u \in Limited
        PROVE  u \in Waiters(m)' <=>
                 /\ u \in Waiters(m)
                 /\ ~(m \in ms /\ queue[m] # <<>> /\ u = Head(queue[m]))
    BY <1>1, <2>2, <2>3, <2>4 DEF hr, ho
  <2>. QED  BY <2>1, <2>5
<1>5. ASSUME NEW m \in Semaphores PROVE NoRepeat(queue'[m]) /\ Elems(queue'[m]) = Waiters(m)'
  <2>. HIDE DEF r, o, hr, ho
  <2>1. NoRepeat(queue[m]) /\ Elems(queue[m]) = Waiters(m) /\ queue[m] \in Seq(Tasks)
    BY DEF QueueInv, TypeOK
  <2>2. CASE m \in ms /\ queue[m] # <<>>
    BY <1>1, <1>4, <2>1, <2>2, TailElems
  <2>3. CASE ~(m \in ms /\ queue[m] # <<>>)
    BY <1>1, <1>4, <2>1, <2>3
  <2>. QED  BY <2>2, <2>3
<1>. QED  BY <1>5 DEF QueueInv

(* Nobody waits at first.                                                    *)
LEMMA QueueInit == Init => QueueInv
<1>. SUFFICES ASSUME Init, NEW m \in Semaphores PROVE NoRepeat(queue[m]) /\ Elems(queue[m]) = Waiters(m)
  BY DEF QueueInv
<1>1. queue[m] = <<>> /\ \A t \in Limited : at[t] = "new"
  BY DEF Init, Limited
<1>2. NoRepeat(<<>>) /\ Elems(<<>>) = {}
  BY DEF NoRepeat, Elems
<1>. QED  BY <1>1, <1>2 DEF Waiters

(* Every step keeps the queues and the waiting tasks in agreement.          *)
LEMMA QueueStep == TypeOK /\ QueueInv /\ [Next]_vars => QueueInv'
<1>. SUFFICES ASSUME TypeOK, QueueInv, [Next]_vars PROVE QueueInv'
  OBVIOUS
<1>1. ASSUME NEW t \in Tasks, Enter(t) PROVE QueueInv'
  <2>. DEFINE r == <<RoleSlot[t], current[RoleSlot[t]]>>
              o == <<"total", current["total"]>>
  <2>1. t \in Limited /\ at[t] = "new"
    BY <1>1 DEF Enter, Limited
  <2>2. r \in Semaphores /\ o \in Semaphores /\ r # o
    BY <2>1, TwoSemaphores, FourSlots
  <2>3. RoleOf(t)' = r /\ TotalOf(t)' = o
    BY <1>1 DEF Enter, RoleOf, TotalOf, TypeOK
  <2>4. \A u \in Tasks \ {t} : mine'[u] = mine[u] /\ at'[u] = at[u]
    BY <1>1 DEF Enter, TakeRole, TypeOK
  <2>5. CASE queue' = [queue EXCEPT ![o] = Append(@, t)] /\ at'[t] = "forTotal"
    <3>1. \A n \in Semaphores : t \in Waiters(n)' <=> n = o
      BY <2>1, <2>3, <2>5 DEF Waiters
    <3>. QED  BY <2>1, <2>2, <2>4, <2>5, <3>1, JoinQueue DEF Limited
  <2>6. CASE queue' = [queue EXCEPT ![r] = Append(@, t)] /\ at'[t] = "forRole"
    <3>1. \A n \in Semaphores : t \in Waiters(n)' <=> n = r
      BY <2>1, <2>3, <2>6 DEF Waiters
    <3>. QED  BY <2>1, <2>2, <2>4, <2>6, <3>1, JoinQueue DEF Limited
  <2>7. CASE queue' = queue /\ at'[t] = "inside"
    <3>1. ASSUME NEW n \in Semaphores PROVE Waiters(n)' = Waiters(n)
      <4>1. \A u \in Limited : u \in Waiters(n)' <=> u \in Waiters(n)
        BY <2>1, <2>4, <2>7 DEF Waiters, RoleOf, TotalOf, Limited
      <4>. QED  BY <4>1 DEF Waiters
    <3>. QED  BY <2>7, <3>1, SameWaiters
  <2>. QED  BY <1>1, <2>5, <2>6, <2>7 DEF Enter, TakeRole, TypeOK
<1>2. ASSUME NEW t \in Tasks, Continue(t) PROVE QueueInv'
  <2>1. mine' = mine /\ \A u : RoleOf(u)' = RoleOf(u) /\ TotalOf(u)' = TotalOf(u)
    BY <1>2 DEF Continue, RoleOf, TotalOf
  <2>2. \A u \in Tasks \ {t} : at'[u] = at[u]
    BY <1>2 DEF Continue, TakeRole, TypeOK
  <2>3. CASE t \in Limited /\ at'[t] = "forRole" /\ queue' = [queue EXCEPT ![RoleOf(t)] = Append(@, t)]
    <3>1. \A n \in Semaphores : t \in Waiters(n)' <=> n = RoleOf(t)
      BY <2>1, <2>3 DEF Waiters
    <3>. QED  BY <1>2, <2>1, <2>2, <2>3, <3>1, JoinQueue, TwoSemaphores DEF Continue, Limited
  <2>4. CASE queue' = queue /\ (t \in Limited => at'[t] = "inside")
    <3>1. ASSUME NEW n \in Semaphores PROVE Waiters(n)' = Waiters(n)
      <4>1. \A u \in Limited : u \in Waiters(n)' <=> u \in Waiters(n)
        BY <1>2, <2>1, <2>2, <2>4 DEF Waiters, Limited, Continue
      <4>. QED  BY <4>1 DEF Waiters
    <3>. QED  BY <2>4, <3>1, SameWaiters
  <2>5. CASE t \notin Limited
    <3>1. RoleOf(t) \notin Semaphores
      BY <2>5, FourSlots DEF Limited, RoleOf, Semaphores
    <3>2. queue' = queue
      BY <1>2, <3>1 DEF Continue, TakeRole, TypeOK
    <3>. QED  BY <2>4, <2>5, <3>2
  <2>. QED  BY <1>2, <2>3, <2>4, <2>5 DEF Continue, TakeRole, TypeOK
<1>3. ASSUME NEW t \in Tasks, Leave(t) PROVE QueueInv'
  BY <1>3, LeaveQueues
<1>4. ASSUME NEW t \in Tasks, PassUnlimited(t) PROVE QueueInv'
  <2>1. queue' = queue /\ mine' = mine /\ \A u \in Limited : at'[u] = at[u]
    BY <1>4 DEF PassUnlimited, semaphores, Limited, TypeOK
  <2>2. \A n \in Semaphores : Waiters(n)' = Waiters(n)
    BY <2>1 DEF Waiters, RoleOf, TotalOf
  <2>. QED  BY <2>1, <2>2, SameWaiters
<1>5. CASE UNCHANGED <<queue, at, mine>>
  <2>1. \A n \in Semaphores : Waiters(n)' = Waiters(n)
    BY <1>5 DEF Waiters, RoleOf, TotalOf
  <2>. QED  BY <1>5, <2>1, SameWaiters
<1>. QED  BY <1>1, <1>2, <1>3, <1>4, <1>5
          DEF Next, TaskStep, Patch, PatchLimit, PatchProfile, PatchRefused, semaphores, vars

-------------------------------------------------------------------------------
(* Who holds a slot of m after a step of which only t, and perhaps others   *)
(* that are told apart, notices anything.                                   *)
LEMMA HoldersOf ==
  ASSUME NEW t, NEW m \in Semaphores,
         \A u \in Limited \ {t} : at'[u] = at[u] /\ mine'[u] = mine[u]
  PROVE  Holders(m)' = IF t \in Holders(m)' THEN Holders(m) \union {t} ELSE Holders(m) \ {t}
<1>1. \A u \in Limited \ {t} : u \in Holders(m)' <=> u \in Holders(m)
  BY DEF Holders, RoleOf, TotalOf, Limited
<1>2. Holders(m) \subseteq Limited /\ Holders(m)' \subseteq Limited
  BY DEF Holders, Limited
<1>3. CASE t \in Holders(m)'
  BY <1>1, <1>2, <1>3
<1>4. CASE t \notin Holders(m)'
  BY <1>1, <1>2, <1>4
<1>. QED  BY <1>3, <1>4

(* A slot is taken: one more holder, one slot less.                         *)
LEMMA Taken ==
  ASSUME NEW m \in Semaphores, NEW t, TypeOK, Balanced(m), t \notin Holders(m), cap' = cap,
         Holders(m)' = Holders(m) \union {t}, free'[m] = free[m] - 1
  PROVE  Balanced(m)'
<1>1. Cardinality(Holders(m)) \in Nat /\ free[m] \in Nat
  BY FS_CardinalityType DEF Balanced, TypeOK
<1>2. IsFiniteSet(Holders(m)') /\ Cardinality(Holders(m)') = Cardinality(Holders(m)) + 1
  BY FS_AddElement DEF Balanced
<1>. QED  BY <1>1, <1>2 DEF Balanced

(* Holders, slots and limit stay as they are.                               *)
LEMMA Kept ==
  ASSUME NEW m \in Semaphores, Balanced(m), cap'[m] = cap[m],
         Holders(m)' = Holders(m), free'[m] = free[m]
  PROVE  Balanced(m)'
BY DEF Balanced

(* All slots are open at first.                                              *)
LEMMA BalanceInit == Init => \A m \in Semaphores : Balanced(m)
<1>. SUFFICES ASSUME Init, NEW m \in Semaphores PROVE Balanced(m)
  OBVIOUS
<1>1. Holders(m) = {} /\ free[m] = cap[m]
  BY DEF Init, Holders
<1>2. cap[m] \in Nat
  BY TypeInit DEF TypeOK
<1>. QED  BY <1>1, <1>2, FS_EmptySet DEF Balanced

(* A task that enters takes a slot of total, and one of its role, or waits.  *)
LEMMA BalanceEnter ==
  ASSUME TypeOK, NEW m \in Semaphores, Balanced(m), NEW t \in Tasks, Enter(t)
  PROVE  Balanced(m)'
<1>. DEFINE r == <<RoleSlot[t], current[RoleSlot[t]]>>
            o == <<"total", current["total"]>>
<1>1. t \in Limited /\ at[t] = "new" /\ cap' = cap
  BY DEF Enter, Limited
<1>2. r \in Semaphores /\ o \in Semaphores /\ r # o
  BY <1>1, TwoSemaphores, FourSlots
<1>3. RoleOf(t)' = r /\ TotalOf(t)' = o
  BY DEF Enter, RoleOf, TotalOf, TypeOK
<1>4. \A u \in Limited \ {t} : mine'[u] = mine[u] /\ at'[u] = at[u]
  BY DEF Enter, TakeRole, TypeOK, Limited
<1>5. /\ t \notin Holders(m)
      /\ Holders(m)' = IF t \in Holders(m)' THEN Holders(m) \union {t} ELSE Holders(m) \ {t}
  <2>1. t \notin Holders(m)
    BY <1>1 DEF Holders
  <2>. QED  BY <1>4, <2>1, HoldersOf
<1>6. \/ /\ at'[t] = "inside"
         /\ free' = [[free EXCEPT ![o] = @ - 1] EXCEPT ![r] = @ - 1]
      \/ at'[t] = "forRole" /\ free' = [free EXCEPT ![o] = @ - 1]
      \/ at'[t] = "forTotal" /\ free' = free
  BY <1>1 DEF Enter, TakeRole, TypeOK
<1>7. t \in Holders(m)' <=>
        (at'[t] = "inside" /\ m \in {r, o}) \/ (at'[t] = "forRole" /\ m = o)
  BY <1>1, <1>3, <1>6 DEF Holders, Limited
<1>8. free'[m] = IF t \in Holders(m)' THEN free[m] - 1 ELSE free[m]
  <2>1. free \in [Semaphores -> Nat]
    BY DEF TypeOK
  <2>2. CASE at'[t] = "inside" /\ free' = [[free EXCEPT ![o] = @ - 1] EXCEPT ![r] = @ - 1]
    BY <1>2, <1>7, <2>1, <2>2
  <2>3. CASE at'[t] = "forRole" /\ free' = [free EXCEPT ![o] = @ - 1]
    BY <1>2, <1>7, <2>1, <2>3
  <2>4. CASE at'[t] = "forTotal" /\ free' = free
    BY <1>7, <2>4
  <2>. QED  BY <1>6, <2>2, <2>3, <2>4
<1>9. CASE t \in Holders(m)'
  BY <1>1, <1>5, <1>8, <1>9, Taken
<1>10. CASE t \notin Holders(m)'
  BY <1>1, <1>5, <1>8, <1>10, Kept
<1>. QED  BY <1>9, <1>10

(* A task that has its slot of total takes one of its role, or waits.        *)
LEMMA BalanceContinue ==
  ASSUME TypeOK, NEW m \in Semaphores, Balanced(m), NEW t \in Limited, Continue(t)
  PROVE  Balanced(m)'
<1>. DEFINE r == RoleOf(t)
            o == TotalOf(t)
<1>1. t \in Tasks /\ at[t] = "hasTotal" /\ cap' = cap /\ mine' = mine
  BY DEF Continue, Limited
<1>2. r \in Semaphores /\ o \in Semaphores /\ r # o /\ r' = r /\ o' = o
  BY <1>1, TwoSemaphores DEF RoleOf, TotalOf
<1>3. \/ at'[t] = "inside" /\ free' = [free EXCEPT ![r] = @ - 1]
      \/ at'[t] = "forRole" /\ free' = free
  BY <1>1 DEF Continue, TakeRole, TypeOK
<1>4. Holders(m)' = IF t \in Holders(m)' THEN Holders(m) \union {t} ELSE Holders(m) \ {t}
  <2>1. \A u \in Limited \ {t} : at'[u] = at[u]
    BY <1>1 DEF Continue, TakeRole, TypeOK, Limited
  <2>. QED  BY <1>1, <2>1, HoldersOf
<1>5. t \in Holders(m) <=> m = o
  BY <1>1 DEF Holders, Limited
<1>6. t \in Holders(m)' <=> m = o \/ (m = r /\ at'[t] = "inside")
  BY <1>1, <1>2, <1>3 DEF Holders, Limited
<1>7. CASE m = r /\ at'[t] = "inside"
  BY <1>1, <1>2, <1>3, <1>4, <1>5, <1>6, <1>7, Taken DEF TypeOK
<1>8. CASE ~(m = r /\ at'[t] = "inside")
  <2>1. Holders(m)' = Holders(m)
    <3>1. t \in Holders(m)' <=> t \in Holders(m)
      BY <1>5, <1>6, <1>8
    <3>2. \A u : u \in Holders(m)' <=> u \in Holders(m)
      BY <1>4, <3>1
    <3>. QED  BY <3>2
  <2>2. free'[m] = free[m]
    BY <1>2, <1>3, <1>8 DEF TypeOK
  <2>. QED  BY <1>1, <2>1, <2>2, Kept
<1>. QED  BY <1>7, <1>8

(* Each slot that is left goes to the head of its queue or is open again.   *)
LEMMA BalanceLeave ==
  ASSUME TypeOK, QueueInv, NEW m \in Semaphores, Balanced(m), NEW t \in Tasks, Leave(t)
  PROVE  Balanced(m)'
<1>. DEFINE r == RoleOf(t)
            o == TotalOf(t)
            hr == Head(queue[r])
            ho == Head(queue[o])
<1>1. /\ t \in Limited /\ at[t] = "inside"
      /\ r \in Semaphores /\ o \in Semaphores /\ r # o
      /\ mine' = mine /\ cap' = cap
      /\ free'[m] = IF m \in {r, o} /\ queue[m] = <<>> THEN free[m] + 1 ELSE free[m]
  <2>1. t \in Limited /\ ReleaseTo(t, {r, o}) /\ at[t] = "inside"
    BY DEF Leave, Limited
  <2>. QED  BY <2>1, TwoSemaphores DEF ReleaseTo
<1>2. /\ queue[r] # <<>> => hr \in Limited /\ at[hr] = "forRole" /\ RoleOf(hr) = r
      /\ queue[o] # <<>> => ho \in Limited /\ at[ho] = "forTotal" /\ TotalOf(ho) = o
      /\ \A u \in Tasks :
           at'[u] = IF u = t THEN "done"
                    ELSE IF queue[r] # <<>> /\ u = hr THEN "inside"
                    ELSE IF queue[o] # <<>> /\ u = ho THEN "hasTotal"
                    ELSE at[u]
  BY LeaveFacts
<1>3. \A u : RoleOf(u)' = RoleOf(u) /\ TotalOf(u)' = TotalOf(u)
  BY <1>1 DEF RoleOf, TotalOf
<1>4. Limited \subseteq Tasks /\ Holders(m) \subseteq Limited /\ Holders(m)' \subseteq Limited
  BY DEF Limited, Holders
<1>5. \A u \in Limited : RoleOf(u)[1] # "total" /\ TotalOf(u)[1] = "total"
  BY TwoSemaphores DEF RoleOf, TotalOf
<1>6. \A u \in Limited :
        u \in Holders(m) <=> \/ (at[u] = "inside" /\ m \in {RoleOf(u), TotalOf(u)})
                            \/ (at[u] \in {"hasTotal", "forRole"} /\ m = TotalOf(u))
  BY DEF Holders, Limited
<1>7. \A u \in Limited :
        u \in Holders(m)' <=> \/ (at'[u] = "inside" /\ m \in {RoleOf(u), TotalOf(u)})
                             \/ (at'[u] \in {"hasTotal", "forRole"} /\ m = TotalOf(u))
  BY <1>3 DEF Holders, Limited
<1>. HIDE DEF r, o, hr, ho
<1>8. t \notin Holders(m)' /\ (t \in Holders(m) <=> m \in {r, o})
  BY <1>1, <1>2, <1>4, <1>6, <1>7 DEF r, o
<1>9. \A u \in Limited \ {t} :
        ~(queue[r] # <<>> /\ u = hr) /\ ~(queue[o] # <<>> /\ u = ho) => (u \in Holders(m)' <=> u \in Holders(m))
  BY <1>2, <1>4, <1>6, <1>7
<1>10. queue[r] # <<>> => /\ hr \in Limited /\ hr # t
                          /\ m = r => hr \in Holders(m)' /\ hr \notin Holders(m)
                          /\ m # r => (hr \in Holders(m)' <=> hr \in Holders(m))
  BY <1>1, <1>2, <1>4, <1>5, <1>6, <1>7
<1>11. queue[o] # <<>> => /\ ho \in Limited /\ ho # t
                          /\ m = o => ho \in Holders(m)' /\ ho \notin Holders(m)
                          /\ m # o => (ho \in Holders(m)' <=> ho \in Holders(m))
  BY <1>1, <1>2, <1>4, <1>5, <1>6, <1>7
<1>12. CASE m \in {r, o} /\ queue[m] # <<>>
  <2>. DEFINE h == Head(queue[m])
  <2>1. h \in Holders(m)' /\ h \notin Holders(m)
    BY <1>10, <1>11, <1>12 DEF hr, ho
  <2>2. \A u \in Limited : u \in Holders(m)' <=> (u \in Holders(m) /\ u # t) \/ u = h
    BY <1>1, <1>8, <1>9, <1>10, <1>11, <1>12 DEF hr, ho
  <2>3. Holders(m)' = (Holders(m) \ {t}) \union {h}
    BY <1>4, <2>1, <2>2
  <2>4. IsFiniteSet(Holders(m)') /\ Cardinality(Holders(m)') = Cardinality(Holders(m))
    BY <1>8, <1>12, <2>1, <2>3, HandOver DEF Balanced
  <2>. QED  BY <1>1, <1>12, <2>4 DEF Balanced
<1>13. CASE m \in {r, o} /\ queue[m] = <<>>
  <2>1. \A u \in Limited : u \in Holders(m)' <=> u \in Holders(m) /\ u # t
    BY <1>1, <1>8, <1>9, <1>10, <1>11, <1>13
  <2>2. Holders(m)' = Holders(m) \ {t}
    BY <1>4, <2>1
  <2>3. Cardinality(Holders(m)) \in Nat /\ free[m] \in Nat /\ t \in Holders(m)
    BY <1>8, <1>13, FS_CardinalityType DEF Balanced, TypeOK
  <2>4. IsFiniteSet(Holders(m)') /\ Cardinality(Holders(m)') = Cardinality(Holders(m)) - 1
    BY <2>2, <2>3, FS_RemoveElement DEF Balanced
  <2>. QED  BY <1>1, <1>13, <2>3, <2>4 DEF Balanced
<1>14. CASE m \notin {r, o}
  <2>1. \A u \in Limited : u \in Holders(m)' <=> u \in Holders(m)
    BY <1>1, <1>8, <1>9, <1>10, <1>11, <1>14
  <2>2. Holders(m)' = Holders(m)
    BY <1>4, <2>1
  <2>. QED  BY <1>1, <1>14, <2>2, Kept
<1>. QED  BY <1>12, <1>13, <1>14

(* A semaphore that a request makes has no holders yet; the others stay.    *)
LEMMA BalancePatch ==
  ASSUME TypeOK, MadeInv, NEW m \in Semaphores, Balanced(m),
         NEW s \in Slots, NEW v \in Values, PatchLimit(s, v)
  PROVE  Balanced(m)'
<1>1. /\ UpdateLimits(config') /\ UNCHANGED <<at, mine>>
      /\ patches' = patches + 1 /\ patches \in Nat
      /\ config' \in [Slots -> Nat]
  <2>1. patches \in Nat /\ patches' = patches + 1
    BY CountedType DEF PatchLimit, TypeOK, Reloads
  <2>2. config' \in [Slots -> Nat]
    BY DEF PatchLimit, TypeOK
  <2>. QED  BY <2>1, <2>2 DEF PatchLimit
<1>2. Holders(m)' = Holders(m)
  BY <1>1 DEF Holders, RoleOf, TotalOf
<1>3. CASE m[1] \in Swapped(config') /\ m[2] = patches'
  <2>1. Holders(m) = {}
    <3>1. ASSUME NEW t \in Holders(m) PROVE FALSE
      <4>1. t \in Tasks /\ (m = RoleOf(t) \/ m = TotalOf(t))
        BY <3>1 DEF Holders
      <4>2. m[2] <= patches /\ m[2] \in Nat
        BY <4>1 DEF MadeInv, RoleOf, TotalOf, TypeOK, Reloads
      <4>. QED  BY <1>1, <1>3, <4>2
    <3>. QED  BY <3>1
  <2>2. free'[m] = config'[m[1]] /\ cap'[m] = config'[m[1]] /\ config'[m[1]] \in Nat
    BY <1>1, <1>3, SwappedFacts DEF UpdateLimits
  <2>. QED  BY <1>2, <2>1, <2>2, FS_EmptySet DEF Balanced
<1>4. CASE ~(m[1] \in Swapped(config') /\ m[2] = patches')
  BY <1>1, <1>2, <1>4, Kept DEF UpdateLimits
<1>. QED  BY <1>3, <1>4

(* Every step moves the slots of a semaphore between open and held.          *)
LEMMA BalanceStep ==
  ASSUME TypeOK, MadeInv, QueueInv, \A m \in Semaphores : Balanced(m), [Next]_vars
  PROVE  \A m \in Semaphores : Balanced(m)'
<1>. SUFFICES ASSUME NEW m \in Semaphores PROVE Balanced(m)'
  OBVIOUS
<1>1. ASSUME NEW t \in Tasks, Enter(t) PROVE Balanced(m)'
  BY <1>1, BalanceEnter
<1>2. ASSUME NEW t \in Tasks, Continue(t) PROVE Balanced(m)'
  <2>1. CASE t \in Limited
    BY <1>2, <2>1, BalanceContinue
  <2>2. CASE t \notin Limited
    <3>1. RoleOf(t) \notin Semaphores
      BY <2>2, FourSlots DEF Limited, RoleOf, Semaphores
    <3>2. free'[m] = free[m] /\ cap' = cap /\ mine' = mine
      BY <1>2, <3>1 DEF Continue, TakeRole, TypeOK
    <3>3. \A u \in Limited : at'[u] = at[u]
      BY <1>2, <2>2 DEF Continue, TakeRole, TypeOK, Limited
    <3>4. Holders(m)' = Holders(m)
      BY <3>2, <3>3 DEF Holders, Limited, RoleOf, TotalOf
    <3>. QED  BY <3>2, <3>4, Kept
  <2>. QED  BY <2>1, <2>2
<1>3. ASSUME NEW t \in Tasks, Leave(t) PROVE Balanced(m)'
  BY <1>3, BalanceLeave
<1>4. ASSUME NEW t \in Tasks, PassUnlimited(t) PROVE Balanced(m)'
  <2>1. free' = free /\ cap' = cap /\ mine' = mine /\ \A u \in Limited : at'[u] = at[u]
    BY <1>4 DEF PassUnlimited, semaphores, Limited, TypeOK
  <2>2. Holders(m)' = Holders(m)
    BY <2>1 DEF Holders, Limited, RoleOf, TotalOf
  <2>. QED  BY <2>1, <2>2, Kept
<1>5. ASSUME NEW s \in Slots, NEW v \in Values, PatchLimit(s, v) PROVE Balanced(m)'
  BY <1>5, BalancePatch
<1>6. CASE UNCHANGED <<cap, free, at, mine>>
  BY <1>6, Kept DEF Holders, RoleOf, TotalOf
<1>. QED  BY <1>1, <1>2, <1>3, <1>4, <1>5, <1>6
          DEF Next, TaskStep, Patch, PatchProfile, PatchRefused, semaphores, vars

-------------------------------------------------------------------------------
(* The inductive invariant.                                                 *)
RInv ==
  /\ TypeOK /\ MadeInv /\ QueueInv
  /\ CurrentPairs /\ MinePairs /\ RecordInv
  /\ \A m \in Semaphores : Balanced(m)

(* The limiter and its requests never leave the inductive invariant.         *)
THEOREM ReloadInvariant == Spec => []RInv
<1>1. Init => RInv
  BY TypeInit, MadeInit, QueueInit, PairsInit, RecordInit, BalanceInit DEF RInv
<1>2. RInv /\ [Next]_vars => RInv'
  <2>1. RInv /\ [Next]_vars => TypeOK' /\ MadeInv' /\ QueueInv' /\ CurrentPairs' /\ MinePairs' /\ RecordInv'
    BY TypeStep, MadeStep, QueueStep, PairsStep, RecordStep DEF RInv
  <2>2. RInv /\ [Next]_vars => (\A m \in Semaphores : Balanced(m))'
    BY BalanceStep DEF RInv
  <2>. QED  BY <2>1, <2>2 DEF RInv
<1>. QED  BY <1>1, <1>2, PTL DEF Spec

(* The limiter's variables have their types whatever is requested.          *)
THEOREM ReloadTyping == Spec => []TypeOK
<1>1. RInv => TypeOK
  BY DEF RInv
<1>. QED  BY <1>1, ReloadInvariant, PTL

(* However often the semaphores are replaced, the slots of each of them add *)
(* up to the limit it was made with.                                        *)
THEOREM SlotsOfEachReload == Spec => []SlotsPerReload
<1>1. RInv => SlotsPerReload
  BY DEF RInv, Balanced, SlotsPerReload
<1>. QED  BY <1>1, ReloadInvariant, PTL

(* A task's two semaphores come from one request, unless that broke off.    *)
THEOREM OneConfiguration == Spec => []PairsOfOneReload
<1>1. RInv => PairsOfOneReload
  BY DEF RInv, MinePairs, PairsOfOneReload, Limited
<1>. QED  BY <1>1, ReloadInvariant, PTL

(* After "applied" config, record and semaphores agree on all four limits.  *)
THEOREM AppliedMeansApplied == Spec => []AppliedIsApplied
<1>1. RInv => AppliedIsApplied
  BY DEF RInv, RecordInv, AppliedIsApplied
<1>. QED  BY <1>1, ReloadInvariant, PTL

-------------------------------------------------------------------------------
(* The dashboard's feed.                                                     *)
HIDE ReloadAssumption

Broadcast == [event : Nat, state : {"new", "sending", "done"}, todo : Seq(Conns),
              dead : SUBSET Conns, calm : BOOLEAN]

FeedTyping ==
  /\ subscribed \in BOOLEAN /\ published \in 0 .. MaxEvents
  /\ broadcasts \in Seq(Broadcast)
  /\ phase \in [Conns -> Phases] /\ alive \in [Conns -> BOOLEAN]
  /\ base \in [Conns -> 0 .. MaxEvents]
  /\ clients \in Seq(Conns) /\ IsInjective(clients)
  /\ Range(clients) \subseteq {c \in Conns : phase[c] \in {"live", "closing"}}
  /\ draining \in [Conns -> Seq(Nat)]
  /\ inbox \in [Conns -> Seq([by : Nat, calm : BOOLEAN])]
  /\ missed \in [Conns -> SUBSET (1 .. MaxEvents)]

Todo(b) == broadcasts[b].todo
Sending(b) == b \in DOMAIN broadcasts /\ broadcasts[b].state = "sending"
Sent(c, b) == \E i \in DOMAIN inbox[c] : inbox[c][i].by = b

(* Broadcasts are created in the order of the events and begin in it, and    *)
(* what disturbs one disturbs those that came later.                         *)
EventInv ==
  /\ \A b \in DOMAIN broadcasts : broadcasts[b].event \in 1 .. published
  /\ \A a, b \in DOMAIN broadcasts : a < b =>
       /\ broadcasts[a].event < broadcasts[b].event
       /\ broadcasts[a].state = "new" => broadcasts[b].state = "new"
       /\ broadcasts[a].calm /\ broadcasts[a].state # "done" => broadcasts[b].calm

(* One that sends has a client before it, and goes to each once.             *)
TodoInv ==
  \A b \in DOMAIN broadcasts : /\ IsInjective(Todo(b))
                               /\ broadcasts[b].state = "sending" <=> Todo(b) # <<>>

(* It waits for the client before it, behind those that came first.          *)
DrainInv ==
  /\ \A c \in Conns : \A i \in DOMAIN draining[c] :
       Sending(draining[c][i]) /\ Todo(draining[c][i])[1] = c
  /\ \A b \in DOMAIN broadcasts : Sending(b) =>
       \E i \in DOMAIN draining[Todo(b)[1]] : draining[Todo(b)[1]][i] = b
  /\ \A c \in Conns : \A i, j \in DOMAIN draining[c] : i < j =>
       /\ draining[c][i] # draining[c][j]
       /\ draining[c][i] > draining[c][j] => ~broadcasts[draining[c][j]].calm

(* s is the end of the list of clients.                                      *)
EndOfClients(s) ==
  /\ Len(s) <= Len(clients)
  /\ \A i \in 1 .. Len(s) : s[i] = clients[i + (Len(clients) - Len(s))]

(* While nothing disturbs it, it waits for a client that is connected, and   *)
(* goes on with those that come after it.                                    *)
CalmInv ==
  \A b \in DOMAIN broadcasts : Sending(b) /\ broadcasts[b].calm =>
    Connected(Todo(b)[1]) /\ EndOfClients(Todo(b))

(* No later one overtakes it.                                                *)
OrderInv ==
  \A a, b \in DOMAIN broadcasts : a < b /\ Sending(a) /\ broadcasts[a].calm =>
    /\ Sending(b) => Len(Todo(a)) <= Len(Todo(b))
    /\ \A c \in Conns : Sent(c, b) => \A k \in 2 .. Len(Todo(a)) : Todo(a)[k] # c

(* Who has sent to a connection has begun, and has not to send to it again.  *)
SentInv ==
  \A c \in Conns : \A b \in Nat : Sent(c, b) =>
    /\ b \in DOMAIN broadcasts /\ broadcasts[b].state # "new"
    /\ \A k \in 2 .. Len(Todo(b)) : Todo(b)[k] # c

(* The property, by the places of the broadcasts.                            *)
InboxInv ==
  \A c \in Conns : \A i, j \in DOMAIN inbox[c] : i < j =>
    /\ inbox[c][i].by # inbox[c][j].by
    /\ inbox[c][i].by > inbox[c][j].by => ~inbox[c][j].calm

FeedInv == /\ FeedTyping /\ EventInv /\ TodoInv /\ DrainInv /\ CalmInv /\ OrderInv
           /\ SentInv /\ InboxInv

LEMMA ElementIs == ASSUME NEW S, NEW q \in Seq(S), NEW i \in DOMAIN q PROVE q[i] \in S
OBVIOUS

(* A list is finite.                                                         *)
LEMMA ListFinite ==
  ASSUME NEW S, NEW s \in Seq(S)
  PROVE  IsFiniteSet(Range(s)) /\ Range(s) \in SUBSET S
<1>1. s \in [1 .. Len(s) -> S] /\ Len(s) \in Nat
  OBVIOUS
<1>2. IsFiniteSet(1 .. Len(s))
  BY <1>1, FS_Interval
<1>3. s \in [1 .. Len(s) -> Range(s)] /\ \A y \in Range(s) : \E x \in 1 .. Len(s) : s[x] = y
  BY <1>1 DEF Range
<1>4. s \in Surjection(1 .. Len(s), Range(s))
  BY <1>3 DEF Surjection
<1>. QED  BY <1>1, <1>2, <1>4, FS_Surjection DEF Range

(* A finite set of connections in some order.                                *)
LEMMA OrdersAre ==
  ASSUME NEW cs, IsFiniteSet(cs), NEW t \in Orders(cs)
  PROVE  t \in Seq(cs) /\ IsInjective(t) /\ Range(t) = cs
<1>1. PICK n \in Nat : n = Cardinality(cs)
  BY FS_CardinalityType
<1>2. t \in [1 .. n -> cs] /\ IsInjective(t)
  BY <1>1 DEF Orders
<1>3. t \in Injection(1 .. n, cs)
  BY <1>2 DEF Injection
<1>4. Cardinality(1 .. n) = n
  BY FS_Interval
<1>5. t \in Surjection(1 .. n, cs)
  BY <1>1, <1>3, <1>4, FS_Injection
<1>. QED  BY <1>1, <1>2, <1>5 DEF Range, Surjection

(* Clients that are removed leave a list of the others.                      *)
LEMMA RemainingAre ==
  ASSUME clients \in Seq(Conns), NEW cs, NEW t \in Remaining(cs)
  PROVE  t \in Seq(Conns) /\ IsInjective(t) /\ Range(t) = Range(clients) \ cs
<1>. DEFINE R == Range(clients)
           D == Range(clients) \ cs
<1>1. IsFiniteSet(R) /\ R \in SUBSET Conns
  BY ListFinite
<1>2. IsFiniteSet(D) /\ D \in SUBSET Conns
  <2>1. D \in SUBSET R
    OBVIOUS
  <2>. HIDE DEF D, R
  <2>. QED  BY <1>1, <2>1, FS_Subset
<1>3. t \in Orders(D)
  BY DEF Remaining
<1>4. t \in Seq(D) /\ IsInjective(t) /\ Range(t) = D
  <2>. HIDE DEF D
  <2>. QED  BY <1>2, <1>3, OrdersAre
<1>5. t \in Seq(Conns)
  <2>. HIDE DEF D
  <2>. QED  BY <1>2, <1>4
<1>. QED  BY <1>4, <1>5

(* A client that is registered makes it a list of one more.                  *)
LEMMA OneMore ==
  ASSUME clients \in Seq(Conns), NEW c \in Conns, NEW t \in Orders(Range(clients) \union {c})
  PROVE  t \in Seq(Conns) /\ IsInjective(t) /\ Range(t) = Range(clients) \union {c}
<1>. DEFINE R == Range(clients)
           D == Range(clients) \union {c}
<1>1. IsFiniteSet(R) /\ R \in SUBSET Conns
  BY ListFinite
<1>2. IsFiniteSet(D) /\ D \in SUBSET Conns
  <2>1. D = R \cup {c} /\ D \in SUBSET Conns
    BY <1>1
  <2>. HIDE DEF D, R
  <2>. QED  BY <1>1, <2>1, FS_AddElement
<1>3. t \in Orders(D)
  OBVIOUS
<1>. HIDE DEF D
<1>4. t \in Seq(D) /\ IsInjective(t) /\ Range(t) = D
  BY <1>2, <1>3, OrdersAre
<1>5. t \in Seq(Conns)
  BY <1>2, <1>4
<1>. QED  BY <1>4, <1>5 DEF D

(* What a change of the connections does to the broadcasts.                  *)
LEMMA DisturbedIs ==
  ASSUME broadcasts \in Seq(Broadcast), NEW ds, ds = Disturbed
  PROVE  /\ ds \in Seq(Broadcast) /\ Len(ds) = Len(broadcasts) /\ DOMAIN ds = DOMAIN broadcasts
         /\ \A a \in DOMAIN broadcasts :
              /\ ds[a].event = broadcasts[a].event /\ ds[a].state = broadcasts[a].state
              /\ ds[a].todo = broadcasts[a].todo /\ ds[a].dead = broadcasts[a].dead
              /\ ds[a].calm => broadcasts[a].calm /\ broadcasts[a].state = "done"
<1>1. DOMAIN broadcasts = 1 .. Len(broadcasts) /\ Len(broadcasts) \in Nat
  OBVIOUS
<1>2. ASSUME NEW a \in DOMAIN broadcasts
      PROVE  /\ ds[a] \in Broadcast
             /\ ds[a].event = broadcasts[a].event /\ ds[a].state = broadcasts[a].state
             /\ ds[a].todo = broadcasts[a].todo /\ ds[a].dead = broadcasts[a].dead
             /\ ds[a].calm => broadcasts[a].calm /\ broadcasts[a].state = "done"
  <2>1. broadcasts[a] \in Broadcast
    BY <1>1
  <2>2. ds[a] = [broadcasts[a] EXCEPT !.calm = @ /\ broadcasts[a].state = "done"]
    BY DEF Disturbed
  <2>3. (broadcasts[a].calm /\ broadcasts[a].state = "done") \in BOOLEAN
    OBVIOUS
  <2>. QED  BY <2>1, <2>2, <2>3 DEF Broadcast
<1>3. ds \in [1 .. Len(broadcasts) -> Broadcast]
  BY <1>1, <1>2 DEF Disturbed
<1>4. ds \in Seq(Broadcast) /\ Len(ds) = Len(broadcasts) /\ DOMAIN ds = DOMAIN broadcasts
  BY <1>1, <1>3
<1>. QED  BY <1>2, <1>4

(* What a broadcast b that goes through n of the clients in todo leaves of   *)
(* the others: it disturbs them if it drops a client.                        *)
OthersAsBefore(b) ==
  /\ broadcasts' \in Seq(Broadcast) /\ DOMAIN broadcasts' = DOMAIN broadcasts
  /\ broadcasts'[b].event = broadcasts[b].event
  /\ \A a \in DOMAIN broadcasts \ {b} :
       /\ broadcasts'[a].event = broadcasts[a].event /\ broadcasts'[a].state = broadcasts[a].state
       /\ Todo(a)' = Todo(a)
       /\ broadcasts'[a].calm => broadcasts[a].calm
       /\ broadcasts'[a].calm /\ broadcasts[a].state # "done" => clients' = clients
       /\ clients' = clients => broadcasts'[a].calm = broadcasts[a].calm

Finished(b, todo, waiting, n) ==
  /\ n = Len(todo) /\ draining' = waiting
  /\ broadcasts'[b].state = "done" /\ Todo(b)' = <<>> /\ broadcasts'[b].calm
  /\ clients' \in Seq(Conns) /\ IsInjective(clients') /\ Range(clients') \subseteq Range(clients)

Suspended(b, todo, waiting, n) ==
  /\ n < Len(todo) /\ Connected(todo[n + 1])
  /\ broadcasts'[b].state = "sending" /\ broadcasts'[b].calm = broadcasts[b].calm
  /\ Todo(b)' = SubSeq(todo, n + 1, Len(todo))
  /\ draining' = [waiting EXCEPT ![todo[n + 1]] = Append(@, b)]
  /\ clients' = clients

(* What it has sent.                                                         *)
SentBy(b, todo, waiting, n) ==
  /\ inbox' \in [Conns -> Seq([by : Nat, calm : BOOLEAN])]
  /\ \A c \in Conns : \/ inbox'[c] = inbox[c]
                      \/ /\ inbox'[c] = Append(inbox[c], [by |-> b, calm |-> broadcasts[b].calm])
                         /\ Connected(c)
                         /\ \E i \in 1 .. Len(todo) : i <= n + 1 /\ todo[i] = c
  /\ \A i \in 1 .. n : Connected(todo[i]) => waiting[todo[i]] = <<>>

(* Whom that reaches, and whom it drops.                                     *)
Reached(b, todo, dead, n) ==
  /\ \A a \in DOMAIN broadcasts \ {b} : broadcasts'[a].dead = broadcasts[a].dead
  /\ \A i \in 1 .. Len(todo) : i <= n + 1 /\ Connected(todo[i]) =>
       inbox'[todo[i]] = Append(inbox[todo[i]], [by |-> b, calm |-> broadcasts[b].calm])
  /\ \A c \in Range(clients) : Connected(c) /\ c \notin dead => c \in Range(clients')
  /\ \A c \in broadcasts'[b].dead :
       c \in dead \/ (~Connected(c) /\ \E i \in 1 .. Len(todo) : todo[i] = c)

LEMMA RunIs ==
  ASSUME FeedTyping, NEW b \in DOMAIN broadcasts, NEW todo \in Seq(Conns), NEW dead \in SUBSET Conns,
         NEW waiting \in [Conns -> Seq(Nat)], Run(b, todo, dead, waiting)
  PROVE  \E n \in 0 .. Len(todo) :
           /\ SentBy(b, todo, waiting, n) /\ OthersAsBefore(b) /\ Reached(b, todo, dead, n)
           /\ Finished(b, todo, waiting, n) \/ Suspended(b, todo, waiting, n)
<1>. DEFINE Tried(n) == {todo[i] : i \in 1 .. n}
            Written(n) == {c \in Tried(n) \union {todo[i] : i \in {n + 1} \cap DOMAIN todo} : Connected(c)}
            Failures(n) == {c \in Tried(n) : ~Connected(c)}
            Dropped(n) == dead \union Failures(n)
            Ends(n) == /\ n = Len(todo) \/ ~GoesOn(Failures(n))
                       /\ clients' \in Remaining(Dropped(n))
                       /\ broadcasts' = [IF clients' = clients THEN broadcasts ELSE Disturbed
                                          EXCEPT ![b] = [event |-> @.event, state |-> "done",
                                                         todo |-> <<>>, dead |-> {}, calm |-> TRUE]]
                       /\ draining' = waiting
            Waits(n) == /\ n < Len(todo) /\ GoesOn(Failures(n)) /\ Connected(todo[n + 1])
                        /\ broadcasts' = [broadcasts EXCEPT
                             ![b].state = "sending", ![b].dead = Dropped(n),
                             ![b].todo = SubSeq(todo, n + 1, Len(todo))]
                        /\ draining' = [waiting EXCEPT ![todo[n + 1]] = Append(@, b)]
                        /\ UNCHANGED clients
<1>1. PICK n \in 0 .. Len(todo) :
        /\ \A c \in Tried(n) : Connected(c) => waiting[c] = <<>>
        /\ inbox' = [c \in Conns |->
             IF c \in Written(n) THEN Append(inbox[c], [by |-> b, calm |-> broadcasts[b].calm])
             ELSE inbox[c]]
        /\ Ends(n) \/ Waits(n)
  BY DEF Run
<1>2. /\ broadcasts \in Seq(Broadcast) /\ DOMAIN broadcasts = 1 .. Len(broadcasts)
      /\ Len(broadcasts) \in Nat /\ broadcasts[b] \in Broadcast /\ b \in Nat
      /\ broadcasts[b].calm \in BOOLEAN /\ broadcasts[b].event \in Nat
  <2>1. broadcasts \in Seq(Broadcast)
    BY DEF FeedTyping
  <2>2. /\ DOMAIN broadcasts = 1 .. Len(broadcasts) /\ Len(broadcasts) \in Nat
        /\ broadcasts[b] \in Broadcast
    BY <2>1
  <2>3. b \in Nat
    BY <2>2
  <2>. QED  BY <2>1, <2>2, <2>3 DEF Broadcast
<1>3. SentBy(b, todo, waiting, n)
  <2>1. ASSUME NEW c \in Conns
        PROVE  /\ inbox'[c] \in Seq([by : Nat, calm : BOOLEAN])
               /\ \/ inbox'[c] = inbox[c]
                  \/ /\ inbox'[c] = Append(inbox[c], [by |-> b, calm |-> broadcasts[b].calm])
                     /\ Connected(c)
                     /\ \E i \in 1 .. Len(todo) : i <= n + 1 /\ todo[i] = c
    <3>1. inbox[c] \in Seq([by : Nat, calm : BOOLEAN])
      BY DEF FeedTyping
    <3>2. CASE c \notin Written(n)
      <4>1. inbox'[c] = inbox[c]
        BY <1>1, <3>2
      <4>. QED  BY <3>1, <4>1
    <3>3. CASE c \in Written(n)
      <4>1. inbox'[c] = Append(inbox[c], [by |-> b, calm |-> broadcasts[b].calm])
        BY <1>1, <3>3
      <4>2. [by |-> b, calm |-> broadcasts[b].calm] \in [by : Nat, calm : BOOLEAN]
        BY <1>2
      <4>3. Connected(c) /\ \E i \in 1 .. Len(todo) : i <= n + 1 /\ todo[i] = c
        <5>1. DOMAIN todo = 1 .. Len(todo) /\ Len(todo) \in Nat /\ n \in Nat /\ n <= Len(todo)
          OBVIOUS
        <5>2. CASE \E i \in 1 .. n : todo[i] = c
          BY <3>3, <5>1, <5>2
        <5>3. CASE \E i \in {n + 1} \cap DOMAIN todo : todo[i] = c
          BY <3>3, <5>1, <5>3
        <5>. QED  BY <3>3, <5>2, <5>3
      <4>. QED  BY <3>1, <4>1, <4>2, <4>3
    <3>. QED  BY <3>2, <3>3
  <2>2. inbox' \in [Conns -> Seq([by : Nat, calm : BOOLEAN])]
    <3>. HIDE DEF Written
    <3>. QED  BY <1>1, <2>1
  <2>3. \A i \in 1 .. n : Connected(todo[i]) => waiting[todo[i]] = <<>>
    BY <1>1
  <2>. QED  BY <2>1, <2>2, <2>3 DEF SentBy
<1>4. /\ \A i \in 1 .. Len(todo) : i <= n + 1 /\ Connected(todo[i]) =>
           inbox'[todo[i]] = Append(inbox[todo[i]], [by |-> b, calm |-> broadcasts[b].calm])
      /\ \A c \in Dropped(n) :
           c \in dead \/ (~Connected(c) /\ \E i \in 1 .. Len(todo) : todo[i] = c)
  <2>1. DOMAIN todo = 1 .. Len(todo) /\ Len(todo) \in Nat /\ n \in Nat /\ n <= Len(todo)
    OBVIOUS
  <2>2. ASSUME NEW i \in 1 .. Len(todo), i <= n + 1, Connected(todo[i])
        PROVE  inbox'[todo[i]] = Append(inbox[todo[i]], [by |-> b, calm |-> broadcasts[b].calm])
    <3>1. i \in 1 .. n \/ i = n + 1
      BY <2>1, <2>2
    <3>2. todo[i] \in Written(n) /\ todo[i] \in Conns
      BY <2>1, <2>2, <3>1
    <3>. HIDE DEF Written
    <3>. QED  BY <1>1, <3>2
  <2>3. ASSUME NEW c \in Failures(n)
        PROVE  ~Connected(c) /\ \E i \in 1 .. Len(todo) : todo[i] = c
    BY <2>1
  <2>. QED  BY <2>2, <2>3
<1>5. CASE Ends(n)
  <2>. DEFINE old == IF clients' = clients THEN broadcasts ELSE Disturbed
              over == [event |-> old[b].event, state |-> "done", todo |-> <<>>, dead |-> {},
                       calm |-> TRUE]
  <2>1. /\ n = Len(todo) /\ draining' = waiting /\ clients' \in Remaining(Dropped(n))
        /\ broadcasts' = [old EXCEPT ![b] = over]
    BY <1>5 DEF GoesOn
  <2>2. /\ clients' \in Seq(Conns) /\ IsInjective(clients')
        /\ Range(clients') = Range(clients) \ Dropped(n)
    <3>1. clients \in Seq(Conns)
      BY DEF FeedTyping
    <3>2. PICK t \in Remaining(Dropped(n)) : t = clients'
      BY <2>1
    <3>3. t \in Seq(Conns) /\ IsInjective(t) /\ Range(t) = Range(clients) \ Dropped(n)
      <4>. HIDE DEF Dropped
      <4>. QED  BY <3>1, RemainingAre
    <3>. QED  BY <3>2, <3>3
  <2>3. /\ old \in Seq(Broadcast) /\ DOMAIN old = DOMAIN broadcasts /\ Len(old) = Len(broadcasts)
        /\ \A a \in DOMAIN broadcasts :
             /\ old[a].event = broadcasts[a].event /\ old[a].state = broadcasts[a].state
             /\ old[a].todo = broadcasts[a].todo /\ old[a].dead = broadcasts[a].dead
             /\ old[a].calm => broadcasts[a].calm
             /\ old[a].calm /\ broadcasts[a].state # "done" => clients' = clients
             /\ clients' = clients => old[a].calm = broadcasts[a].calm
    <3>1. CASE clients' = clients
      BY <1>2, <3>1
    <3>2. CASE clients' # clients
      <4>1. PICK ds : ds = Disturbed
        OBVIOUS
      <4>2. old = ds
        BY <3>2, <4>1
      <4>. QED  BY <1>2, <3>2, <4>1, <4>2, DisturbedIs
    <3>. QED  BY <3>1, <3>2
  <2>4. over \in Broadcast /\ over.event = broadcasts[b].event
    <3>1. over.event = broadcasts[b].event
      BY <2>3
    <3>2. <<>> \in Seq(Conns) /\ {} \in SUBSET Conns
      OBVIOUS
    <3>. QED  BY <1>2, <2>3, <3>1, <3>2 DEF Broadcast
  <2>. HIDE DEF old
  <2>5. /\ broadcasts' \in Seq(Broadcast) /\ DOMAIN broadcasts' = DOMAIN broadcasts
        /\ broadcasts'[b] = over /\ \A a \in DOMAIN broadcasts \ {b} : broadcasts'[a] = old[a]
    <3>. HIDE DEF over
    <3>. QED  BY <2>1, <2>3, <2>4
  <2>6. Finished(b, todo, waiting, n)
    BY <2>1, <2>2, <2>5 DEF Finished, Todo
  <2>7. OthersAsBefore(b)
    <3>1. broadcasts'[b].event = broadcasts[b].event
      BY <2>4, <2>5
    <3>. QED  BY <2>3, <2>5, <3>1 DEF OthersAsBefore, Todo
  <2>8. Reached(b, todo, dead, n)
    <3>1. \A a \in DOMAIN broadcasts \ {b} : broadcasts'[a].dead = broadcasts[a].dead
      BY <2>3, <2>5
    <3>2. broadcasts'[b].dead = {}
      BY <2>5
    <3>3. \A c \in Range(clients) : Connected(c) /\ c \notin dead => c \in Range(clients')
      BY <2>2
    <3>. HIDE DEF Dropped, over
    <3>. QED  BY <1>4, <3>1, <3>2, <3>3 DEF Reached
  <2>. QED  BY <1>3, <2>6, <2>7, <2>8
<1>6. CASE Waits(n)
  <2>. DEFINE rest == SubSeq(todo, n + 1, Len(todo))
              on == [broadcasts[b] EXCEPT !.state = "sending", !.dead = Dropped(n), !.todo = rest]
  <2>1. rest \in Seq(Conns) /\ Dropped(n) \in SUBSET Conns
    <3>1. n + 1 \in 1 .. Len(todo)
      <4>1. n < Len(todo)
        BY ONLY <1>6, Zenon
      <4>2. n \in 0 .. Len(todo) /\ Len(todo) \in Nat
        BY <1>1
      <4>. QED  BY ONLY <4>1, <4>2
    <3>2. rest \in Seq(Conns)
      BY <3>1
    <3>. QED  BY <3>2
  <2>2. broadcasts' = [broadcasts EXCEPT ![b] = on]
    BY <1>2, <1>6 DEF Broadcast
  <2>3. /\ on \in Broadcast /\ on.event = broadcasts[b].event /\ on.state = "sending"
        /\ on.todo = rest /\ on.calm = broadcasts[b].calm /\ on.dead = Dropped(n)
    <3>. HIDE DEF rest, Dropped
    <3>. QED  BY <1>2, <2>1 DEF Broadcast
  <2>4. /\ broadcasts' \in Seq(Broadcast) /\ DOMAIN broadcasts' = DOMAIN broadcasts
        /\ broadcasts'[b] = on /\ \A a \in DOMAIN broadcasts \ {b} : broadcasts'[a] = broadcasts[a]
    <3>. HIDE DEF on
    <3>. QED  BY <1>2, <2>2, <2>3
  <2>. HIDE DEF on
  <2>5. Suspended(b, todo, waiting, n)
    BY <1>6, <2>3, <2>4 DEF Suspended, Todo
  <2>6. OthersAsBefore(b)
    BY <1>6, <2>3, <2>4 DEF OthersAsBefore, Todo
  <2>7. Reached(b, todo, dead, n)
    <3>1. \A a \in DOMAIN broadcasts \ {b} : broadcasts'[a].dead = broadcasts[a].dead
      BY <2>4
    <3>2. broadcasts'[b].dead = Dropped(n) /\ clients' = clients
      BY <1>6, <2>3, <2>4
    <3>. HIDE DEF Dropped
    <3>. QED  BY <1>4, <3>1, <3>2 DEF Reached
  <2>. QED  BY <1>3, <2>5, <2>6, <2>7
<1>. QED  BY <1>1, <1>5, <1>6

(* Broadcast b is about to go through todo, and the others wait as waiting   *)
(* says: it has sent to none of them, and no later one has overtaken it.     *)
Ready(b, todo, waiting) ==
  /\ b \in DOMAIN broadcasts /\ broadcasts[b].state # "done"
  /\ todo \in Seq(Conns) /\ IsInjective(todo)
  /\ waiting \in [Conns -> Seq(Nat)]
  /\ \A c \in Conns : \A i \in DOMAIN waiting[c] :
       waiting[c][i] # b /\ Sending(waiting[c][i]) /\ Todo(waiting[c][i])[1] = c
  /\ \A a \in DOMAIN broadcasts \ {b} : Sending(a) =>
       \E i \in DOMAIN waiting[Todo(a)[1]] : waiting[Todo(a)[1]][i] = a
  /\ \A c \in Conns : \A i, j \in DOMAIN waiting[c] : i < j =>
       /\ waiting[c][i] # waiting[c][j]
       /\ waiting[c][i] > waiting[c][j] => ~broadcasts[waiting[c][j]].calm
  /\ \A a \in DOMAIN broadcasts : a < b =>
       /\ broadcasts[a].state # "new"
       /\ Sending(a) /\ broadcasts[a].calm => Len(Todo(a)) <= Len(todo)
  /\ \A i \in DOMAIN todo : ~Sent(todo[i], b)
  /\ broadcasts[b].calm =>
       /\ EndOfClients(todo)
       /\ \A a \in DOMAIN broadcasts : b < a =>
            /\ Sending(a) => Len(todo) < Len(Todo(a))
            /\ \A i \in DOMAIN todo : ~Sent(todo[i], a)

(* It has gone through n of them.                                            *)
Going(b, todo, waiting, n) ==
  /\ FeedInv /\ Ready(b, todo, waiting) /\ n \in 0 .. Len(todo)
  /\ SentBy(b, todo, waiting, n) /\ OthersAsBefore(b)
  /\ Finished(b, todo, waiting, n) \/ Suspended(b, todo, waiting, n)
  /\ UNCHANGED <<subscribed, published, phase, alive, base>>
  /\ missed' \in [Conns -> SUBSET (1 .. MaxEvents)]

(* What the broadcasts are.                                                  *)
LEMMA BroadcastsAre ==
  ASSUME broadcasts \in Seq(Broadcast)
  PROVE  /\ DOMAIN broadcasts = 1 .. Len(broadcasts) /\ Len(broadcasts) \in Nat
         /\ \A a \in DOMAIN broadcasts :
              /\ a \in Nat /\ broadcasts[a].event \in Nat /\ broadcasts[a].calm \in BOOLEAN
              /\ broadcasts[a].state \in {"new", "sending", "done"}
              /\ Todo(a) \in Seq(Conns) /\ Len(Todo(a)) \in Nat
              /\ DOMAIN Todo(a) = 1 .. Len(Todo(a))
<1>1. DOMAIN broadcasts = 1 .. Len(broadcasts) /\ Len(broadcasts) \in Nat
  OBVIOUS
<1>2. ASSUME NEW a \in DOMAIN broadcasts
      PROVE  /\ a \in Nat /\ broadcasts[a].event \in Nat /\ broadcasts[a].calm \in BOOLEAN
             /\ broadcasts[a].state \in {"new", "sending", "done"}
             /\ Todo(a) \in Seq(Conns)
  <2>1. broadcasts[a] \in Broadcast /\ a \in Nat
    BY <1>1
  <2>. QED  BY <2>1 DEF Broadcast, Todo
<1>. QED  BY <1>1, <1>2

(* What is left is the end of what was to do.                                *)
LEMMA RestIs ==
  ASSUME NEW todo \in Seq(Conns), NEW n \in Nat, n < Len(todo),
         NEW rest, rest = SubSeq(todo, n + 1, Len(todo))
  PROVE  /\ rest \in Seq(Conns) /\ Len(rest) = Len(todo) - n /\ rest # <<>>
         /\ \A k \in 1 .. Len(rest) : rest[k] = todo[n + k] /\ n + k \in 1 .. Len(todo)
<1>1. Len(todo) \in Nat /\ n + 1 \in 1 .. Len(todo)
  OBVIOUS
<1>2. rest \in Seq(Conns) /\ Len(rest) = Len(todo) - n
  BY <1>1
<1>3. ASSUME NEW k \in 1 .. Len(rest)
      PROVE  rest[k] = todo[n + k] /\ n + k \in 1 .. Len(todo)
  <2>1. rest[k] = todo[(n + 1) + k - 1] /\ k \in Nat
    BY <1>1, <1>2
  <2>2. (n + 1) + k - 1 = n + k /\ n + k \in 1 .. Len(todo)
    BY <1>1, <1>2
  <2>. QED  BY <2>1, <2>2
<1>4. rest # <<>>
  <2>1. Len(todo) - n # 0
    BY <1>1
  <2>2. rest = <<>> => Len(rest) = 0
    OBVIOUS
  <2>. QED  BY ONLY <1>2, <2>1, <2>2
<1>. QED  BY <1>2, <1>3, <1>4

(* Who has been sent something, and by whom.                                 *)
LEMMA GoingSent ==
  ASSUME NEW b, NEW todo, NEW waiting, NEW n, Going(b, todo, waiting, n), NEW c \in Conns
  PROVE  /\ \A i \in DOMAIN inbox'[c] :
              \/ i \in DOMAIN inbox[c] /\ inbox'[c][i] = inbox[c][i]
              \/ /\ i = Len(inbox[c]) + 1
                 /\ inbox'[c][i].by = b /\ inbox'[c][i].calm = broadcasts[b].calm
                 /\ \E k \in 1 .. Len(todo) : k <= n + 1 /\ todo[k] = c
         /\ \A y : Sent(c, y)' => \/ Sent(c, y)
                                  \/ y = b /\ \E k \in 1 .. Len(todo) : k <= n + 1 /\ todo[k] = c
<1>1. inbox[c] \in Seq([by : Nat, calm : BOOLEAN]) /\ SentBy(b, todo, waiting, n)
  BY DEF Going, FeedInv, FeedTyping
<1>2. \A i \in DOMAIN inbox'[c] :
        \/ i \in DOMAIN inbox[c] /\ inbox'[c][i] = inbox[c][i]
        \/ /\ i = Len(inbox[c]) + 1
           /\ inbox'[c][i].by = b /\ inbox'[c][i].calm = broadcasts[b].calm
           /\ \E k \in 1 .. Len(todo) : k <= n + 1 /\ todo[k] = c
  <2>1. CASE inbox'[c] = inbox[c]
    BY <2>1
  <2>2. CASE /\ inbox'[c] = Append(inbox[c], [by |-> b, calm |-> broadcasts[b].calm])
             /\ \E k \in 1 .. Len(todo) : k <= n + 1 /\ todo[k] = c
    <3>1. PICK q \in Seq([by : Nat, calm : BOOLEAN]) : q = inbox[c]
      BY <1>1
    <3>2. PICK m : m = [by |-> b, calm |-> broadcasts[b].calm]
      OBVIOUS
    <3>3. m \in [by : Nat, calm : BOOLEAN]
      <4>1. b \in Nat /\ broadcasts[b].calm \in BOOLEAN
        BY BroadcastsAre DEF Going, FeedInv, FeedTyping, Ready
      <4>. QED  BY <3>2, <4>1
    <3>4. \A i \in DOMAIN Append(q, m) :
            (i \in DOMAIN q /\ Append(q, m)[i] = q[i]) \/ (i = Len(q) + 1 /\ Append(q, m)[i] = m)
      BY <3>3
    <3>5. m.by = b /\ m.calm = broadcasts[b].calm
      BY <3>2
    <3>. QED  BY ONLY <2>2, <3>1, <3>2, <3>4, <3>5
  <2>. QED  BY <1>1, <2>1, <2>2 DEF SentBy
<1>. QED  BY <1>2 DEF Sent

(* An earlier one that is calm stays ahead.                                  *)
LEMMA GoingBehind ==
  ASSUME NEW b, NEW todo, NEW waiting, NEW n, Going(b, todo, waiting, n),
         NEW a \in DOMAIN broadcasts, a < b, Sending(a), broadcasts[a].calm
  PROVE  /\ n < Len(todo) /\ Len(Todo(a)) <= Len(todo) - n
         /\ \A k \in 2 .. Len(Todo(a)) : \A i \in 1 .. Len(todo) :
              i <= n + 1 => todo[i] # Todo(a)[k]
<1>1. /\ FeedTyping /\ EventInv /\ TodoInv /\ CalmInv /\ Ready(b, todo, waiting)
      /\ SentBy(b, todo, waiting, n) /\ n \in 0 .. Len(todo)
  BY DEF Going, FeedInv
<1>2. /\ a \in Nat /\ Todo(a) \in Seq(Conns) /\ Len(Todo(a)) \in Nat
      /\ b \in DOMAIN broadcasts /\ b \in Nat
  BY <1>1, BroadcastsAre DEF FeedTyping, Ready
<1>3. broadcasts[b].calm
  BY <1>1, <1>2 DEF EventInv, Ready, Sending
<1>4. /\ Connected(Todo(a)[1]) /\ EndOfClients(Todo(a)) /\ EndOfClients(todo)
      /\ Len(Todo(a)) <= Len(todo) /\ Todo(a) # <<>>
      /\ \E i \in DOMAIN waiting[Todo(a)[1]] : waiting[Todo(a)[1]][i] = a
  <2>1. Connected(Todo(a)[1]) /\ EndOfClients(Todo(a))
    BY <1>1 DEF CalmInv
  <2>2. EndOfClients(todo)
    BY <1>1, <1>3 DEF Ready
  <2>3. Len(Todo(a)) <= Len(todo)
    BY <1>1 DEF Ready
  <2>4. Todo(a) # <<>>
    BY <1>1 DEF TodoInv, Sending
  <2>5. \E i \in DOMAIN waiting[Todo(a)[1]] : waiting[Todo(a)[1]][i] = a
    BY <1>1, <1>2 DEF Ready
  <2>. QED  BY <2>1, <2>2, <2>3, <2>4, <2>5
<1>5. PICK s \in Seq(Conns) : s = Todo(a)
  BY <1>2
<1>6. todo \in Seq(Conns) /\ IsInjective(todo) /\ n \in Nat /\ Len(todo) \in Nat /\ Len(s) \in Nat \ {0}
      /\ Len(s) <= Len(todo) /\ clients \in Seq(Conns) /\ Len(clients) \in Nat
  <2>1. todo \in Seq(Conns) /\ IsInjective(todo) /\ clients \in Seq(Conns)
    BY <1>1 DEF Ready, FeedTyping
  <2>2. s # <<>> /\ Len(s) <= Len(todo)
    BY <1>4, <1>5
  <2>3. Len(s) \in Nat \ {0}
    BY <2>2
  <2>. QED  BY <1>1, <2>1, <2>2, <2>3
<1>7. PICK p \in Nat : p = Len(todo) - Len(s)
  BY <1>6
<1>8. \A k \in 1 .. Len(s) : p + k \in 1 .. Len(todo) /\ s[k] = todo[p + k]
  <2>. SUFFICES ASSUME NEW k \in 1 .. Len(s) PROVE p + k \in 1 .. Len(todo) /\ s[k] = todo[p + k]
    OBVIOUS
  <2>1. p + k \in 1 .. Len(todo)
    BY <1>6, <1>7
  <2>2. s[k] = clients[k + (Len(clients) - Len(s))]
    BY <1>4, <1>5 DEF EndOfClients
  <2>3. todo[p + k] = clients[(p + k) + (Len(clients) - Len(todo))]
    BY <1>4, <2>1 DEF EndOfClients
  <2>4. (p + k) + (Len(clients) - Len(todo)) = k + (Len(clients) - Len(s))
    BY <1>6, <1>7
  <2>. QED  BY <2>1, <2>2, <2>3, <2>4
<1>9. ~(p + 1 <= n)
  <2>. SUFFICES ASSUME p + 1 <= n PROVE FALSE
    OBVIOUS
  <2>1. 1 \in 1 .. Len(s) /\ p + 1 \in 1 .. n
    BY <1>6
  <2>2. s[1] = todo[p + 1]
    BY <1>8, <2>1
  <2>3. waiting[s[1]] = <<>>
    BY <1>1, <1>4, <1>5, <2>1, <2>2 DEF SentBy
  <2>. QED  BY <1>4, <1>5, <2>3
<1>10. n < Len(todo) /\ Len(s) <= Len(todo) - n
  BY <1>6, <1>7, <1>9
<1>11. ASSUME NEW k \in 2 .. Len(s), NEW i \in 1 .. Len(todo), i <= n + 1 PROVE todo[i] # s[k]
  <2>1. k \in 1 .. Len(s) /\ i # p + k
    BY <1>6, <1>9, <1>11
  <2>2. s[k] = todo[p + k] /\ p + k \in DOMAIN todo /\ i \in DOMAIN todo
    BY <1>6, <1>8, <2>1
  <2>. QED  BY <1>6, <2>1, <2>2 DEF IsInjective
<1>. QED  BY <1>5, <1>10, <1>11

(* What is left of b after n clients.                                        *)
LEMMA GoingRest ==
  ASSUME NEW b, NEW todo, NEW waiting, NEW n, Going(b, todo, waiting, n),
         Suspended(b, todo, waiting, n)
  PROVE  /\ Todo(b)' \in Seq(Conns) /\ Len(Todo(b)') = Len(todo) - n /\ Todo(b)' # <<>>
         /\ \A k \in 1 .. Len(Todo(b)') : Todo(b)'[k] = todo[n + k] /\ n + k \in 1 .. Len(todo)
         /\ n \in Nat /\ n < Len(todo) /\ Len(todo) \in Nat
         /\ todo \in Seq(Conns) /\ IsInjective(todo)
<1>1. todo \in Seq(Conns) /\ IsInjective(todo) /\ n \in 0 .. Len(todo) /\ n < Len(todo)
  BY DEF Going, Ready, Suspended
<1>2. Len(todo) \in Nat /\ n \in Nat
  BY <1>1
<1>3. PICK rest : rest = SubSeq(todo, n + 1, Len(todo))
  OBVIOUS
<1>4. Todo(b)' = rest
  BY <1>3 DEF Suspended
<1>5. /\ rest \in Seq(Conns) /\ Len(rest) = Len(todo) - n /\ rest # <<>>
      /\ \A k \in 1 .. Len(rest) : rest[k] = todo[n + k] /\ n + k \in 1 .. Len(todo)
  BY ONLY <1>1, <1>2, <1>3, RestIs
<1>. QED  BY ONLY <1>1, <1>2, <1>4, <1>5

LEMMA GoingTyping ==
  ASSUME NEW b, NEW todo, NEW waiting, NEW n, Going(b, todo, waiting, n)
  PROVE  FeedTyping'
<1>1. FeedTyping /\ waiting \in [Conns -> Seq(Nat)] /\ b \in Nat /\ todo \in Seq(Conns)
  BY BroadcastsAre DEF Going, FeedInv, FeedTyping, Ready
<1>2. /\ clients' \in Seq(Conns) /\ IsInjective(clients') /\ Range(clients') \subseteq Range(clients)
  BY <1>1 DEF Going, Finished, Suspended, FeedTyping
<1>3. draining' \in [Conns -> Seq(Nat)]
  <2>1. CASE Finished(b, todo, waiting, n)
    BY <1>1, <2>1 DEF Finished
  <2>2. CASE Suspended(b, todo, waiting, n)
    <3>1. PICK c \in Conns : c = todo[n + 1]
      <4>1. n \in 0 .. Len(todo) /\ n < Len(todo) /\ Len(todo) \in Nat
        BY <1>1, <2>2 DEF Going, Suspended
      <4>2. n + 1 \in 1 .. Len(todo)
        BY <4>1
      <4>. QED  BY <1>1, <4>2
    <3>2. draining' = [waiting EXCEPT ![c] = Append(@, b)]
      BY <2>2, <3>1 DEF Suspended
    <3>3. Append(waiting[c], b) \in Seq(Nat)
      BY <1>1
    <3>. QED  BY <1>1, <3>2, <3>3
  <2>. QED  BY <2>1, <2>2 DEF Going
<1>4. /\ broadcasts' \in Seq(Broadcast) /\ inbox' \in [Conns -> Seq([by : Nat, calm : BOOLEAN])]
      /\ missed' \in [Conns -> SUBSET (1 .. MaxEvents)]
      /\ UNCHANGED <<subscribed, published, phase, alive, base>>
  BY DEF Going, OthersAsBefore, SentBy
<1>. QED  BY <1>1, <1>2, <1>3, <1>4 DEF FeedTyping

LEMMA GoingEvents ==
  ASSUME NEW b, NEW todo, NEW waiting, NEW n, Going(b, todo, waiting, n)
  PROVE  EventInv'
<1>1. /\ FeedTyping /\ EventInv /\ Ready(b, todo, waiting) /\ OthersAsBefore(b)
      /\ b \in DOMAIN broadcasts /\ published' = published
      /\ Finished(b, todo, waiting, n) \/ Suspended(b, todo, waiting, n)
  BY DEF Going, FeedInv, Ready
<1>2. /\ DOMAIN broadcasts' = DOMAIN broadcasts
      /\ \A a \in DOMAIN broadcasts : a \in Nat /\ broadcasts'[a].event = broadcasts[a].event
  BY <1>1, BroadcastsAre DEF OthersAsBefore, FeedTyping
<1>3. ASSUME NEW a \in DOMAIN broadcasts, NEW z \in DOMAIN broadcasts, a < z
      PROVE  /\ broadcasts'[a].state = "new" => broadcasts'[z].state = "new"
             /\ broadcasts'[a].calm /\ broadcasts'[a].state # "done" => broadcasts'[z].calm
  <2>1. broadcasts'[b].state # "new"
    BY <1>1 DEF Finished, Suspended
  <2>2. /\ broadcasts[a].state = "new" => broadcasts[z].state = "new"
        /\ broadcasts[a].calm /\ broadcasts[a].state # "done" => broadcasts[z].calm
    BY <1>1, <1>3 DEF EventInv
  <2>3. CASE a # b /\ z # b
    <3>1. /\ broadcasts'[a].state = broadcasts[a].state /\ broadcasts'[z].state = broadcasts[z].state
          /\ broadcasts'[a].calm => broadcasts[a].calm
          /\ broadcasts'[a].calm /\ broadcasts[a].state # "done" => clients' = clients
          /\ clients' = clients => broadcasts'[z].calm = broadcasts[z].calm
      BY <1>1, <2>3 DEF OthersAsBefore
    <3>. QED  BY ONLY <2>2, <3>1
  <2>4. CASE z = b
    <3>1. a # b /\ broadcasts[a].state # "new" /\ broadcasts'[a].state = broadcasts[a].state
      BY <1>1, <1>2, <1>3, <2>4 DEF Ready, OthersAsBefore
    <3>2. /\ broadcasts'[a].calm => broadcasts[a].calm
          /\ broadcasts'[b].calm \/ broadcasts'[b].calm = broadcasts[b].calm
      BY <1>1, <3>1 DEF OthersAsBefore, Finished, Suspended
    <3>. QED  BY ONLY <2>2, <2>4, <3>1, <3>2
  <2>5. CASE a = b
    <3>1. z # b
      BY <1>2, <1>3, <2>5
    <3>2. CASE Finished(b, todo, waiting, n)
      BY <2>1, <2>5, <3>2 DEF Finished
    <3>3. CASE Suspended(b, todo, waiting, n)
      <4>1. clients' = clients /\ broadcasts'[b].calm = broadcasts[b].calm /\ broadcasts[b].state # "done"
        BY <1>1, <3>3 DEF Suspended, Ready
      <4>2. broadcasts'[z].calm = broadcasts[z].calm
        BY <1>1, <3>1, <4>1 DEF OthersAsBefore
      <4>. QED  BY ONLY <2>1, <2>2, <2>5, <4>1, <4>2
    <3>. QED  BY <1>1, <3>2, <3>3
  <2>. QED  BY <2>3, <2>4, <2>5
<1>4. /\ \A a \in DOMAIN broadcasts : broadcasts'[a].event \in 1 .. published'
      /\ \A a, z \in DOMAIN broadcasts : a < z => broadcasts'[a].event < broadcasts'[z].event
  BY <1>1, <1>2 DEF EventInv
<1>. QED  BY <1>2, <1>3, <1>4 DEF EventInv

LEMMA GoingTodo ==
  ASSUME NEW b, NEW todo, NEW waiting, NEW n, Going(b, todo, waiting, n)
  PROVE  TodoInv'
<1>1. /\ TodoInv /\ OthersAsBefore(b) /\ b \in DOMAIN broadcasts
      /\ Finished(b, todo, waiting, n) \/ Suspended(b, todo, waiting, n)
  BY DEF Going, FeedInv, Ready
<1>2. ASSUME NEW a \in DOMAIN broadcasts
      PROVE  IsInjective(Todo(a)') /\ (broadcasts'[a].state = "sending" <=> Todo(a)' # <<>>)
  <2>1. CASE a # b
    BY <1>1, <2>1 DEF OthersAsBefore, TodoInv
  <2>2. CASE a = b /\ Finished(b, todo, waiting, n)
    BY <2>2 DEF Finished, IsInjective
  <2>3. CASE a = b /\ Suspended(b, todo, waiting, n)
    <3>1. PICK rest : rest = Todo(b)'
      OBVIOUS
    <3>2. /\ rest \in Seq(Conns) /\ rest # <<>> /\ todo \in Seq(Conns) /\ n \in Nat
          /\ \A k \in 1 .. Len(rest) : rest[k] = todo[n + k] /\ n + k \in 1 .. Len(todo)
          /\ IsInjective(todo)
      BY <2>3, <3>1, GoingRest
    <3>3. IsInjective(rest)
      <4>1. DOMAIN rest = 1 .. Len(rest) /\ DOMAIN todo = 1 .. Len(todo)
        BY <3>2
      <4>. SUFFICES ASSUME NEW k \in 1 .. Len(rest), NEW l \in 1 .. Len(rest), rest[k] = rest[l]
           PROVE  k = l
        BY <4>1 DEF IsInjective
      <4>2. n + k \in DOMAIN todo /\ n + l \in DOMAIN todo /\ todo[n + k] = todo[n + l]
        BY <3>2, <4>1
      <4>3. n + k = n + l
        BY <3>2, <4>2 DEF IsInjective
      <4>. QED  BY <3>2, <4>3
    <3>4. broadcasts'[b].state = "sending"
      BY <2>3 DEF Suspended
    <3>. QED  BY <2>3, <3>1, <3>2, <3>3, <3>4
  <2>. QED  BY <1>1, <2>1, <2>2, <2>3
<1>3. DOMAIN broadcasts' = DOMAIN broadcasts
  BY <1>1 DEF OthersAsBefore
<1>. QED  BY <1>2, <1>3 DEF TodoInv, Todo

LEMMA GoingCalm ==
  ASSUME NEW b, NEW todo, NEW waiting, NEW n, Going(b, todo, waiting, n)
  PROVE  CalmInv'
<1>1. /\ FeedTyping /\ CalmInv /\ Ready(b, todo, waiting) /\ OthersAsBefore(b) /\ b \in DOMAIN broadcasts
      /\ Finished(b, todo, waiting, n) \/ Suspended(b, todo, waiting, n)
      /\ UNCHANGED <<phase, alive>> /\ DOMAIN broadcasts' = DOMAIN broadcasts
  BY DEF Going, FeedInv, Ready, OthersAsBefore
<1>2. ASSUME NEW a \in DOMAIN broadcasts, broadcasts'[a].state = "sending", broadcasts'[a].calm
      PROVE  Connected(Todo(a)[1])' /\ EndOfClients(Todo(a))'
  <2>1. CASE a # b
    <3>1. /\ Sending(a) /\ broadcasts[a].calm /\ clients' = clients /\ Todo(a)' = Todo(a)
      BY <1>1, <1>2, <2>1 DEF OthersAsBefore, Sending
    <3>2. Connected(Todo(a)[1]) /\ EndOfClients(Todo(a))
      BY <1>1, <3>1 DEF CalmInv
    <3>. QED  BY <1>1, <3>1, <3>2 DEF Connected, EndOfClients
  <2>2. CASE a = b
    <3>1. Suspended(b, todo, waiting, n)
      BY <1>1, <1>2, <2>2 DEF Finished
    <3>2. broadcasts[b].calm /\ clients' = clients /\ Connected(todo[n + 1])
      BY <1>2, <2>2, <3>1 DEF Suspended
    <3>3. EndOfClients(todo)
      BY <1>1, <3>2 DEF Ready
    <3>4. PICK rest : rest = Todo(b)'
      OBVIOUS
    <3>5. /\ rest \in Seq(Conns) /\ rest # <<>> /\ todo \in Seq(Conns) /\ n \in Nat
          /\ \A k \in 1 .. Len(rest) : rest[k] = todo[n + k] /\ n + k \in 1 .. Len(todo)
          /\ Len(rest) = Len(todo) - n /\ n < Len(todo) /\ Len(todo) \in Nat
      BY <3>1, <3>4, GoingRest
    <3>6. rest[1] = todo[n + 1]
      <4>1. 1 \in 1 .. Len(rest)
        BY <3>5
      <4>. QED  BY <3>5, <4>1
    <3>7. EndOfClients(rest)
      <4>1. Len(clients) \in Nat /\ Len(todo) <= Len(clients) /\ Len(rest) <= Len(clients)
        <5>1. clients \in Seq(Conns)
          BY <1>1 DEF FeedTyping
        <5>2. Len(clients) \in Nat /\ Len(todo) <= Len(clients)
          BY <3>3, <5>1 DEF EndOfClients
        <5>. QED  BY <3>5, <5>2
      <4>2. ASSUME NEW i \in 1 .. Len(rest) PROVE rest[i] = clients[i + (Len(clients) - Len(rest))]
        <5>1. rest[i] = todo[n + i] /\ n + i \in 1 .. Len(todo)
          BY <3>5
        <5>2. todo[n + i] = clients[(n + i) + (Len(clients) - Len(todo))]
          BY <3>3, <5>1 DEF EndOfClients
        <5>3. (n + i) + (Len(clients) - Len(todo)) = i + (Len(clients) - Len(rest))
          BY <3>5, <4>1
        <5>. QED  BY <5>1, <5>2, <5>3
      <4>. QED  BY <4>1, <4>2 DEF EndOfClients
    <3>. QED  BY <1>1, <2>2, <3>2, <3>4, <3>6, <3>7 DEF Connected, EndOfClients
  <2>. QED  BY <2>1, <2>2
<1>. QED  BY <1>1, <1>2 DEF CalmInv, Sending

LEMMA GoingSince ==
  ASSUME NEW b, NEW todo, NEW waiting, NEW n, Going(b, todo, waiting, n)
  PROVE  SentInv'
<1>1. /\ FeedTyping /\ SentInv /\ Ready(b, todo, waiting) /\ OthersAsBefore(b) /\ b \in DOMAIN broadcasts
      /\ Finished(b, todo, waiting, n) \/ Suspended(b, todo, waiting, n)
      /\ DOMAIN broadcasts' = DOMAIN broadcasts
  BY DEF Going, FeedInv, Ready, OthersAsBefore
<1>2. ASSUME NEW c \in Conns, NEW y \in Nat, Sent(c, y)'
      PROVE  /\ y \in DOMAIN broadcasts' /\ broadcasts'[y].state # "new"
             /\ \A k \in 2 .. Len(Todo(y)') : Todo(y)'[k] # c
  <2>1. \/ Sent(c, y)
        \/ y = b /\ \E k \in 1 .. Len(todo) : k <= n + 1 /\ todo[k] = c
    BY <1>2, GoingSent
  <2>2. CASE y # b
    <3>1. Sent(c, y)
      BY <2>1, <2>2
    <3>2. /\ y \in DOMAIN broadcasts /\ broadcasts[y].state # "new"
          /\ \A k \in 2 .. Len(Todo(y)) : Todo(y)[k] # c
      BY <1>1, <3>1 DEF SentInv
    <3>. QED  BY <1>1, <2>2, <3>2 DEF OthersAsBefore
  <2>3. CASE y = b
    <3>1. broadcasts'[b].state # "new" /\ b \in DOMAIN broadcasts'
      BY <1>1 DEF Finished, Suspended
    <3>2. CASE Finished(b, todo, waiting, n)
      <4>1. Todo(b)' = <<>>
        BY <3>2 DEF Finished
      <4>2. \A k \in 2 .. Len(<<>>) : FALSE
        OBVIOUS
      <4>. QED  BY <2>3, <3>1, <4>1, <4>2
    <3>3. CASE Suspended(b, todo, waiting, n)
      <4>1. PICK rest : rest = Todo(b)'
        OBVIOUS
      <4>2. /\ rest \in Seq(Conns) /\ todo \in Seq(Conns) /\ n \in Nat
            /\ \A k \in 1 .. Len(rest) : rest[k] = todo[n + k] /\ n + k \in 1 .. Len(todo)
            /\ IsInjective(todo) /\ Len(rest) \in Nat
        BY <3>3, <4>1, GoingRest
      <4>3. ASSUME NEW k \in 2 .. Len(rest) PROVE rest[k] # c
        <5>1. k \in 1 .. Len(rest) /\ k \in Nat /\ DOMAIN todo = 1 .. Len(todo)
          BY <4>2
        <5>2. rest[k] = todo[n + k] /\ n + k \in DOMAIN todo
          BY <4>2, <5>1
        <5>3. CASE Sent(c, y)
          BY <1>1, <2>3, <5>2, <5>3 DEF Ready
        <5>4. CASE \E l \in 1 .. Len(todo) : l <= n + 1 /\ todo[l] = c
          <6>1. PICK l \in 1 .. Len(todo) : l <= n + 1 /\ todo[l] = c
            BY <5>4
          <6>2. l # n + k /\ l \in DOMAIN todo
            BY <4>2, <4>3, <5>1, <6>1
          <6>. QED  BY <4>2, <5>2, <6>1, <6>2 DEF IsInjective
        <5>. QED  BY <2>1, <5>3, <5>4
      <4>. QED  BY <2>3, <3>1, <4>1, <4>3
    <3>. QED  BY <1>1, <3>2, <3>3
  <2>. QED  BY <2>2, <2>3
<1>. QED  BY <1>2 DEF SentInv

LEMMA GoingInbox ==
  ASSUME NEW b, NEW todo, NEW waiting, NEW n, Going(b, todo, waiting, n)
  PROVE  InboxInv'
<1>1. /\ FeedTyping /\ SentInv /\ InboxInv /\ Ready(b, todo, waiting) /\ b \in DOMAIN broadcasts
  BY DEF Going, FeedInv, Ready
<1>2. ASSUME NEW c \in Conns, NEW i \in DOMAIN inbox'[c], NEW j \in DOMAIN inbox'[c], i < j
      PROVE  /\ inbox'[c][i].by # inbox'[c][j].by
             /\ inbox'[c][i].by > inbox'[c][j].by => ~inbox'[c][j].calm
  <2>1. inbox[c] \in Seq([by : Nat, calm : BOOLEAN]) /\ DOMAIN inbox[c] = 1 .. Len(inbox[c])
    BY <1>1 DEF FeedTyping
  <2>2. CASE j \in DOMAIN inbox[c] /\ inbox'[c][j] = inbox[c][j]
    <3>1. i \in DOMAIN inbox[c] /\ inbox'[c][i] = inbox[c][i]
      <4>1. i # Len(inbox[c]) + 1
        BY <1>2, <2>1, <2>2
      <4>. QED  BY <4>1, GoingSent
    <3>. QED  BY <1>1, <1>2, <2>2, <3>1 DEF InboxInv
  <2>3. CASE /\ j = Len(inbox[c]) + 1
             /\ inbox'[c][j].by = b /\ inbox'[c][j].calm = broadcasts[b].calm
             /\ \E k \in 1 .. Len(todo) : k <= n + 1 /\ todo[k] = c
    <3>1. PICK k \in 1 .. Len(todo) : todo[k] = c
      BY <2>3
    <3>2. k \in DOMAIN todo
      BY <1>1, <3>1 DEF Ready
    <3>3. i \in DOMAIN inbox[c] /\ inbox'[c][i] = inbox[c][i]
      <4>1. i # Len(inbox[c]) + 1
        BY <1>2, <2>3
      <4>. QED  BY <4>1, GoingSent
    <3>4. PICK x \in Nat : x = inbox[c][i].by
      <4>1. PICK q \in Seq([by : Nat, calm : BOOLEAN]) : q = inbox[c]
        BY <2>1
      <4>2. i \in DOMAIN q
        BY <3>3, <4>1
      <4>3. q[i] \in [by : Nat, calm : BOOLEAN]
        BY ONLY <4>2, ElementIs
      <4>4. \A m \in [by : Nat, calm : BOOLEAN] : m.by \in Nat
        OBVIOUS
      <4>. QED  BY ONLY <4>1, <4>2, <4>3, <4>4
    <3>5. Sent(c, x) /\ ~Sent(c, b) /\ b \in Nat
      <4>1. Sent(c, x)
        BY <3>3, <3>4 DEF Sent
      <4>2. ~Sent(todo[k], b)
        BY <1>1, <3>2 DEF Ready
      <4>3. b \in Nat
        BY <1>1, BroadcastsAre DEF FeedTyping
      <4>. QED  BY <3>1, <4>1, <4>2, <4>3 DEF Sent
    <3>6. x \in DOMAIN broadcasts /\ x # b
      BY <1>1, <3>5 DEF SentInv
    <3>7. b < x => ~broadcasts[b].calm
      BY <1>1, <3>1, <3>2, <3>5, <3>6 DEF Ready
    <3>8. x > b => b < x
      BY <3>5
    <3>. QED  BY <2>3, <3>3, <3>4, <3>6, <3>7, <3>8
  <2>. QED  BY <2>2, <2>3, GoingSent
<1>. QED  BY <1>2 DEF InboxInv

LEMMA GoingOrder ==
  ASSUME NEW b, NEW todo, NEW waiting, NEW n, Going(b, todo, waiting, n)
  PROVE  OrderInv'
<1>1. /\ FeedTyping /\ OrderInv /\ Ready(b, todo, waiting) /\ OthersAsBefore(b) /\ b \in DOMAIN broadcasts
      /\ Finished(b, todo, waiting, n) \/ Suspended(b, todo, waiting, n)
      /\ DOMAIN broadcasts' = DOMAIN broadcasts
  BY DEF Going, FeedInv, Ready, OthersAsBefore
<1>2. \A a \in DOMAIN broadcasts : a \in Nat /\ Todo(a) \in Seq(Conns) /\ Len(Todo(a)) \in Nat
  BY <1>1, BroadcastsAre DEF FeedTyping
<1>3. ASSUME NEW a \in DOMAIN broadcasts, NEW z \in DOMAIN broadcasts, a < z,
             broadcasts'[a].state = "sending", broadcasts'[a].calm
      PROVE  /\ broadcasts'[z].state = "sending" => Len(Todo(a)') <= Len(Todo(z)')
             /\ \A c \in Conns : Sent(c, z)' => \A k \in 2 .. Len(Todo(a)') : Todo(a)'[k] # c
  <2>1. a # z
    BY <1>2, <1>3
  <2>2. CASE a # b
    <3>1. Sending(a) /\ broadcasts[a].calm /\ Todo(a)' = Todo(a) /\ clients' = clients
      BY <1>1, <1>3, <2>2 DEF OthersAsBefore, Sending
    <3>2. /\ Sending(z) => Len(Todo(a)) <= Len(Todo(z))
          /\ \A c \in Conns : Sent(c, z) => \A k \in 2 .. Len(Todo(a)) : Todo(a)[k] # c
      BY <1>1, <1>3, <3>1 DEF OrderInv
    <3>4. CASE z # b
      <4>1. Todo(z)' = Todo(z) /\ broadcasts'[z].state = broadcasts[z].state
        BY <1>1, <3>4 DEF OthersAsBefore
      <4>2. \A k \in 2 .. Len(Todo(a)) : \A c \in Conns : c = Todo(a)[k] => ~Sent(c, z)'
        BY <3>2, <3>4, GoingSent
      <4>. QED  BY <3>1, <3>2, <4>1, <4>2 DEF Sending
    <3>5. CASE z = b
      <4>1. /\ n < Len(todo) /\ Len(Todo(a)) <= Len(todo) - n
            /\ \A k \in 2 .. Len(Todo(a)) : \A i \in 1 .. Len(todo) :
                 i <= n + 1 => todo[i] # Todo(a)[k]
        BY <1>3, <3>1, <3>5, GoingBehind
      <4>2. broadcasts'[b].state = "sending" => Len(Todo(a)) <= Len(Todo(b)')
        <5>. SUFFICES ASSUME broadcasts'[b].state = "sending" PROVE Len(Todo(a)) <= Len(Todo(b)')
          OBVIOUS
        <5>1. Suspended(b, todo, waiting, n)
          BY <1>1 DEF Finished
        <5>. QED  BY <4>1, <5>1, GoingRest
      <4>3. ASSUME NEW k \in 2 .. Len(Todo(a)), NEW c \in Conns, c = Todo(a)[k] PROVE ~Sent(c, b)'
        <5>2. ~Sent(c, b) /\ ~\E i \in 1 .. Len(todo) : i <= n + 1 /\ todo[i] = c
          BY <3>2, <3>5, <4>1, <4>3
        <5>. QED  BY <5>2, GoingSent
      <4>. QED  BY <3>1, <3>5, <4>2, <4>3
    <3>. QED  BY <3>4, <3>5
  <2>3. CASE a = b
    <3>1. Suspended(b, todo, waiting, n)
      BY <1>1, <1>3, <2>3 DEF Finished
    <3>2. broadcasts[b].calm /\ z # b
      BY <1>3, <2>1, <2>3, <3>1 DEF Suspended
    <3>3. PICK rest : rest = Todo(b)'
      OBVIOUS
    <3>4. /\ rest \in Seq(Conns) /\ todo \in Seq(Conns) /\ n \in Nat
          /\ \A k \in 1 .. Len(rest) : rest[k] = todo[n + k] /\ n + k \in 1 .. Len(todo)
          /\ Len(rest) = Len(todo) - n /\ Len(todo) \in Nat
      BY <3>1, <3>3, GoingRest
    <3>5. /\ Sending(z) => Len(todo) < Len(Todo(z))
          /\ \A i \in DOMAIN todo : ~Sent(todo[i], z)
      BY <1>1, <1>3, <2>3, <3>2 DEF Ready
    <3>6. Todo(z)' = Todo(z) /\ broadcasts'[z].state = broadcasts[z].state
      BY <1>1, <3>2 DEF OthersAsBefore
    <3>7. broadcasts'[z].state = "sending" => Len(rest) <= Len(Todo(z)')
      BY <1>2, <3>4, <3>5, <3>6 DEF Sending
    <3>8. ASSUME NEW k \in 2 .. Len(rest), NEW c \in Conns, c = rest[k] PROVE ~Sent(c, z)'
      <4>1. k \in 1 .. Len(rest) /\ DOMAIN todo = 1 .. Len(todo)
        BY <3>4
      <4>2. ~Sent(c, z)
        BY <3>4, <3>5, <3>8, <4>1
      <4>. QED  BY <3>2, <4>2, GoingSent
    <3>. QED  BY <2>3, <3>3, <3>7, <3>8
  <2>. QED  BY <2>2, <2>3
<1>. QED  BY <1>1, <1>3 DEF OrderInv, Sending

(* A client of a shorter end is not the first of a longer one.               *)
LEMMA Apart ==
  ASSUME clients \in Seq(Conns), IsInjective(clients),
         NEW s \in Seq(Conns), NEW t \in Seq(Conns), Len(t) < Len(s),
         EndOfClients(s), EndOfClients(t), NEW i \in 1 .. Len(t)
  PROVE  t[i] # s[1]
<1>1. /\ Len(clients) \in Nat /\ Len(s) \in Nat /\ Len(t) \in Nat
      /\ Len(s) <= Len(clients) /\ Len(t) <= Len(clients) /\ DOMAIN clients = 1 .. Len(clients)
  BY DEF EndOfClients
<1>2. PICK p \in Nat, q \in Nat : p = 1 + (Len(clients) - Len(s)) /\ q = i + (Len(clients) - Len(t))
  <2>1. 1 + (Len(clients) - Len(s)) \in Nat /\ i + (Len(clients) - Len(t)) \in Nat
    BY <1>1
  <2>. QED  BY <2>1
<1>3. p \in DOMAIN clients /\ q \in DOMAIN clients /\ p # q
  BY <1>1, <1>2
<1>4. 1 \in 1 .. Len(s)
  BY <1>1
<1>5. s[1] = clients[p] /\ t[i] = clients[q]
  BY <1>2, <1>4 DEF EndOfClients
<1>. QED  BY <1>3, <1>5 DEF IsInjective

LEMMA GoingDrains ==
  ASSUME NEW b, NEW todo, NEW waiting, NEW n, Going(b, todo, waiting, n)
  PROVE  DrainInv'
<1>1. /\ FeedTyping /\ EventInv /\ CalmInv
      /\ Ready(b, todo, waiting) /\ OthersAsBefore(b) /\ b \in DOMAIN broadcasts
      /\ Finished(b, todo, waiting, n) \/ Suspended(b, todo, waiting, n)
      /\ DOMAIN broadcasts' = DOMAIN broadcasts
  BY DEF Going, FeedInv, Ready, OthersAsBefore
<1>2. waiting \in [Conns -> Seq(Nat)] /\ b \in Nat /\ todo \in Seq(Conns)
  BY <1>1, BroadcastsAre DEF Ready, FeedTyping
<1>3. ASSUME NEW a \in DOMAIN broadcasts \ {b}
      PROVE  /\ Todo(a)' = Todo(a) /\ Sending(a)' = Sending(a)
             /\ ~broadcasts[a].calm => ~broadcasts'[a].calm
  BY <1>1 DEF OthersAsBefore, Sending
<1>4. ASSUME NEW c \in Conns, NEW i \in DOMAIN waiting[c]
      PROVE  /\ waiting[c][i] \in DOMAIN broadcasts \ {b} /\ Sending(waiting[c][i])' /\ waiting[c][i] \in Nat
             /\ \A a : a = waiting[c][i] => Todo(a)'[1] = c
  <2>1. PICK a : a = waiting[c][i]
    OBVIOUS
  <2>2. a # b /\ Sending(a) /\ Todo(a)[1] = c /\ a \in DOMAIN broadcasts
    BY <1>1, <2>1 DEF Ready, Sending
  <2>3. Todo(a)' = Todo(a) /\ Sending(a)' /\ a \in Nat
    BY <1>1, <1>3, <2>2, BroadcastsAre DEF FeedTyping
  <2>4. Sending(waiting[c][i])'
    BY <2>1, <2>3 DEF Sending
  <2>. QED  BY <2>1, <2>2, <2>3, <2>4
<1>5. ASSUME NEW c \in Conns, NEW i \in DOMAIN waiting[c], NEW j \in DOMAIN waiting[c], i < j
      PROVE  /\ waiting[c][i] # waiting[c][j]
             /\ waiting[c][i] > waiting[c][j] => ~broadcasts'[waiting[c][j]].calm
  BY <1>1, <1>3, <1>4, <1>5 DEF Ready
<1>6. CASE Finished(b, todo, waiting, n)
  <2>1. draining' = waiting /\ ~Sending(b)'
    BY <1>6 DEF Finished, Sending
  <2>2. \A a \in DOMAIN broadcasts : Sending(a)' => a # b
    BY <2>1
  <2>3. ASSUME NEW a \in DOMAIN broadcasts', Sending(a)'
        PROVE  \E i \in DOMAIN draining'[Todo(a)'[1]] : draining'[Todo(a)'[1]][i] = a
    <3>1. a \in DOMAIN broadcasts \ {b}
      BY <1>1, <2>1, <2>3
    <3>2. Sending(a) /\ Todo(a)' = Todo(a)
      BY <1>3, <2>3, <3>1
    <3>. QED  BY <1>1, <2>1, <3>1, <3>2 DEF Ready
  <2>. QED  BY <1>4, <1>5, <2>1, <2>3 DEF DrainInv, Todo
<1>7. CASE Suspended(b, todo, waiting, n)
  <2>1. PICK d \in Conns : d = todo[n + 1]
    <3>1. n < Len(todo) /\ n \in Nat /\ Len(todo) \in Nat
      BY <1>7, GoingRest
    <3>2. n + 1 \in 1 .. Len(todo)
      BY <3>1
    <3>. QED  BY <1>2, <3>2
  <2>2. /\ draining' = [waiting EXCEPT ![d] = Append(@, b)] /\ Sending(b)' /\ Todo(b)'[1] = d
    <3>1. PICK rest : rest = Todo(b)'
      OBVIOUS
    <3>2. /\ rest \in Seq(Conns) /\ rest # <<>> /\ Len(rest) \in Nat
          /\ \A k \in 1 .. Len(rest) : rest[k] = todo[n + k]
      BY <1>7, <3>1, GoingRest
    <3>3. 1 \in 1 .. Len(rest)
      BY <3>2
    <3>4. rest[1] = todo[n + 1]
      BY <3>2, <3>3
    <3>. QED  BY <1>1, <1>7, <2>1, <3>1, <3>4 DEF Suspended, Sending
  <2>3. PICK q \in Seq(Nat) : q = waiting[d]
    BY <1>2
  <2>4. PICK r : r = Append(q, b)
    OBVIOUS
  <2>5. /\ DOMAIN q = 1 .. Len(q) /\ Len(q) \in Nat /\ DOMAIN r = 1 .. (Len(q) + 1)
        /\ r[Len(q) + 1] = b /\ \A i \in DOMAIN q : r[i] = q[i]
    BY <1>2, <2>4
  <2>6. draining'[d] = r /\ \A c \in Conns \ {d} : draining'[c] = waiting[c]
    BY <1>2, <2>2, <2>3, <2>4
  <2>7. \A i \in DOMAIN r : i \in DOMAIN q \/ i = Len(q) + 1
    BY <2>5
  <2>8. ASSUME NEW c \in Conns, NEW i \in DOMAIN draining'[c], NEW a, a = draining'[c][i]
        PROVE  Sending(a)' /\ Todo(a)'[1] = c
    <3>1. CASE c # d
      BY <1>4, <2>6, <2>8, <3>1
    <3>2. CASE c = d /\ i \in DOMAIN q
      <4>1. i \in DOMAIN waiting[d] /\ a = waiting[d][i]
        BY <2>3, <2>5, <2>6, <2>8, <3>2
      <4>. QED  BY <1>4, <3>2, <4>1
    <3>3. CASE c = d /\ i = Len(q) + 1
      BY <2>2, <2>5, <2>6, <2>8, <3>3
    <3>. QED  BY <2>6, <2>7, <3>1, <3>2, <3>3
  <2>9. ASSUME NEW a \in DOMAIN broadcasts', Sending(a)', NEW c, c = Todo(a)'[1]
        PROVE  \E i \in DOMAIN draining'[c] : draining'[c][i] = a
    <3>1. CASE a = b
      <4>1. c = d /\ Len(q) + 1 \in DOMAIN r
        BY <2>2, <2>5, <2>9, <3>1
      <4>. QED  BY <2>5, <2>6, <3>1, <4>1
    <3>2. CASE a # b
      <4>1. Sending(a) /\ c = Todo(a)[1] /\ a \in DOMAIN broadcasts \ {b}
        BY <1>1, <1>3, <2>9, <3>2
      <4>2. PICK i \in DOMAIN waiting[c] : waiting[c][i] = a
        BY <1>1, <4>1 DEF Ready
      <4>3. CASE c = d
        <5>1. i \in DOMAIN q /\ q[i] = a
          BY <2>3, <4>2, <4>3
        <5>2. i \in DOMAIN r /\ r[i] = a
          BY ONLY <2>5, <5>1
        <5>. QED  BY <2>6, <4>3, <5>2
      <4>4. CASE c # d
        <5>1. c \in Conns
          <6>1. PICK s \in Seq(Conns) : s = Todo(a)
            BY <1>1, <4>1, BroadcastsAre DEF FeedTyping
          <6>2. s # <<>>
            BY <4>1, <6>1 DEF Going, FeedInv, TodoInv, Sending
          <6>3. s[1] \in Conns
            BY <6>2
          <6>. QED  BY <4>1, <6>1, <6>3
        <5>. QED  BY <2>6, <4>2, <4>4, <5>1
      <4>. QED  BY <4>3, <4>4
    <3>. QED  BY <3>1, <3>2
  <2>10. ASSUME NEW c \in Conns, NEW i \in DOMAIN draining'[c], NEW j \in DOMAIN draining'[c], i < j
         PROVE  /\ draining'[c][i] # draining'[c][j]
                /\ draining'[c][i] > draining'[c][j] => ~broadcasts'[draining'[c][j]].calm
    <3>1. CASE c # d
      BY <1>5, <2>6, <2>10, <3>1
    <3>2. CASE c = d /\ i \in DOMAIN q /\ j \in DOMAIN q
      <4>1. /\ i \in DOMAIN waiting[d] /\ j \in DOMAIN waiting[d]
            /\ draining'[c][i] = waiting[d][i] /\ draining'[c][j] = waiting[d][j]
        BY <2>3, <2>5, <2>6, <3>2
      <4>. QED  BY <1>5, <2>10, <4>1
    <3>3. CASE c = d /\ i \in DOMAIN q /\ j = Len(q) + 1
      <4>1. i \in DOMAIN waiting[d] /\ draining'[c][i] = waiting[d][i] /\ draining'[c][j] = b
        BY <2>3, <2>5, <2>6, <3>3
      <4>2. PICK a \in DOMAIN broadcasts \ {b} : a = waiting[d][i]
        BY <1>4, <4>1
      <4>3. Sending(a) /\ a \in Nat
        BY <1>1, <1>4, <4>1, <4>2 DEF Ready
      <4>4. a > b => ~broadcasts'[b].calm
        <5>. SUFFICES ASSUME a > b, broadcasts'[b].calm PROVE FALSE
          OBVIOUS
        <5>1. broadcasts[b].calm
          BY <1>7 DEF Suspended
        <5>2. PICK s \in Seq(Conns) : s = Todo(a)
          BY <1>1, <4>2, BroadcastsAre DEF FeedTyping
        <5>3. b < a
          BY <1>2, <4>3
        <5>4. Len(todo) < Len(s)
          BY <1>1, <4>2, <4>3, <5>1, <5>2, <5>3 DEF Ready
        <5>5. broadcasts[a].calm
          BY <1>1, <4>2, <5>1, <5>3 DEF EventInv, Ready
        <5>6. EndOfClients(todo) /\ EndOfClients(s) /\ s[1] = d
          BY <1>1, <4>1, <4>2, <4>3, <5>1, <5>2, <5>5 DEF Ready, CalmInv
        <5>7. clients \in Seq(Conns) /\ IsInjective(clients)
          BY <1>1 DEF FeedTyping
        <5>8. PICK l \in 1 .. Len(todo) : l = n + 1
          <6>1. n < Len(todo) /\ n \in Nat /\ Len(todo) \in Nat
            BY <1>7, GoingRest
          <6>2. n + 1 \in 1 .. Len(todo)
            BY <6>1
          <6>. QED  BY <6>2
        <5>9. todo[l] # s[1]
          BY ONLY <1>2, <5>4, <5>6, <5>7, Apart
        <5>. QED  BY <2>1, <5>6, <5>8, <5>9
      <4>. QED  BY <4>1, <4>2, <4>4
    <3>4. i # Len(q) + 1 \/ c # d
      BY <2>5, <2>6, <2>10
    <3>. QED  BY <2>6, <2>7, <3>1, <3>2, <3>3, <3>4
  <2>. QED  BY <2>8, <2>9, <2>10 DEF DrainInv
<1>. QED  BY <1>1, <1>6, <1>7

(* A broadcast that was ready and has run keeps the invariant.               *)
LEMMA RunKeeps ==
  ASSUME FeedInv, NEW b, NEW todo, NEW dead \in SUBSET Conns, NEW waiting,
         Ready(b, todo, waiting), Run(b, todo, dead, waiting),
         UNCHANGED <<subscribed, published, phase, alive, base>>,
         missed' \in [Conns -> SUBSET (1 .. MaxEvents)]
  PROVE  FeedInv'
<1>1. PICK n \in 0 .. Len(todo) :
        /\ SentBy(b, todo, waiting, n) /\ OthersAsBefore(b)
        /\ Finished(b, todo, waiting, n) \/ Suspended(b, todo, waiting, n)
  BY RunIs DEF FeedInv, Ready
<1>2. Going(b, todo, waiting, n)
  BY <1>1 DEF Going
<1>3. FeedTyping' /\ EventInv' /\ TodoInv'
  BY <1>2, GoingTyping, GoingEvents, GoingTodo
<1>4. DrainInv' /\ CalmInv' /\ OrderInv'
  BY <1>2, GoingDrains, GoingCalm, GoingOrder
<1>5. SentInv' /\ InboxInv'
  BY <1>2, GoingSince, GoingInbox
<1>. QED  BY <1>3, <1>4, <1>5 DEF FeedInv

(* The first that is new starts with all the clients before it.              *)
LEMMA StartReady ==
  ASSUME FeedInv, NEW b \in DOMAIN broadcasts, broadcasts[b].state = "new",
         \A a \in 1 .. b - 1 : broadcasts[a].state # "new"
  PROVE  Ready(b, clients, draining)
<1>1. FeedTyping /\ EventInv /\ DrainInv /\ CalmInv /\ SentInv
  BY DEF FeedInv
<1>2. /\ DOMAIN broadcasts = 1 .. Len(broadcasts) /\ Len(broadcasts) \in Nat
      /\ \A a \in DOMAIN broadcasts : a \in Nat
  BY <1>1, BroadcastsAre DEF FeedTyping
<1>3. /\ clients \in Seq(Conns) /\ IsInjective(clients) /\ draining \in [Conns -> Seq(Nat)]
  BY <1>1 DEF FeedTyping
<1>4. ~Sending(b)
  BY DEF Sending
<1>5. \A c \in Conns : \A i \in DOMAIN draining[c] :
        draining[c][i] # b /\ Sending(draining[c][i]) /\ Todo(draining[c][i])[1] = c
  BY <1>1, <1>4 DEF DrainInv
<1>6. ASSUME NEW a \in DOMAIN broadcasts, a < b
      PROVE  /\ broadcasts[a].state # "new"
             /\ Sending(a) /\ broadcasts[a].calm => Len(Todo(a)) <= Len(clients)
  <2>1. a \in 1 .. b - 1
    BY <1>2, <1>6
  <2>. QED  BY <1>1, <2>1 DEF CalmInv, EndOfClients
<1>7. \A c \in Conns : ~Sent(c, b)
  BY <1>1, <1>2 DEF SentInv
<1>8. \A i \in DOMAIN clients : clients[i] \in Conns
  BY <1>3
<1>9. EndOfClients(clients)
  BY <1>3 DEF EndOfClients
<1>10. ASSUME NEW a \in DOMAIN broadcasts, b < a
       PROVE  ~Sending(a) /\ \A c \in Conns : ~Sent(c, a)
  <2>1. broadcasts[a].state = "new"
    BY <1>1, <1>10 DEF EventInv
  <2>. QED  BY <1>1, <1>2, <2>1 DEF Sending, SentInv
<1>11. \A i \in DOMAIN clients : ~Sent(clients[i], b)
  BY <1>7, <1>8
<1>12. \A a \in DOMAIN broadcasts : b < a => ~Sending(a) /\ \A i \in DOMAIN clients : ~Sent(clients[i], a)
  BY <1>8, <1>10
<1>. QED  BY <1>1, <1>3, <1>5, <1>6, <1>9, <1>11, <1>12 DEF Ready, DrainInv

(* r is the tail of q, element by element.                                   *)
IsTail(r, q) ==
  /\ Len(q) \in Nat /\ Len(r) \in Nat /\ Len(r) + 1 = Len(q)
  /\ DOMAIN q = 1 .. Len(q) /\ DOMAIN r = 1 .. Len(r) /\ Head(q) = q[1]
  /\ \A i \in DOMAIN r : i \in Nat /\ i + 1 \in DOMAIN q /\ i + 1 # 1 /\ r[i] = q[i + 1]
  /\ \A i \in DOMAIN q : i = 1 \/ \E l \in DOMAIN r : l + 1 = i

LEMMA TailIs ==
  ASSUME NEW S, NEW q \in Seq(S), q # <<>>, NEW r, r = Tail(q)
  PROVE  r \in Seq(S) /\ IsTail(r, q)
<1>1. /\ r \in Seq(S) /\ Len(q) \in Nat /\ Len(r) \in Nat /\ Len(r) + 1 = Len(q)
      /\ DOMAIN q = 1 .. Len(q) /\ DOMAIN r = 1 .. Len(r) /\ Head(q) = q[1]
  OBVIOUS
<1>2. ASSUME NEW i \in DOMAIN r
      PROVE  i \in Nat /\ i + 1 \in DOMAIN q /\ i + 1 # 1 /\ r[i] = q[i + 1]
  <2>1. i \in Nat /\ i + 1 \in DOMAIN q /\ i + 1 # 1
    BY <1>1
  <2>2. r[i] = q[i + 1]
    BY <1>1
  <2>. QED  BY <2>1, <2>2
<1>3. ASSUME NEW i \in DOMAIN q, i # 1 PROVE \E l \in DOMAIN r : l + 1 = i
  <2>1. i - 1 \in DOMAIN r /\ (i - 1) + 1 = i
    BY <1>1, <1>3
  <2>. QED  BY <2>1
<1>. QED  BY <1>1, <1>2, <1>3 DEF IsTail

(* Who is first in a queue of a client goes on behind all that came before.  *)
LEMMA ResumeReady ==
  ASSUME FeedInv, NEW c \in Conns, draining[c] # <<>>, NEW b, b = Head(draining[c]),
         NEW todo, todo = Tail(Todo(b)), NEW waiting, waiting = [draining EXCEPT ![c] = Tail(@)]
  PROVE  Ready(b, todo, waiting)
<1>1. FeedTyping /\ EventInv /\ TodoInv /\ DrainInv /\ CalmInv /\ OrderInv /\ SentInv
  BY DEF FeedInv
<1>2. /\ draining \in [Conns -> Seq(Nat)] /\ clients \in Seq(Conns) /\ Len(clients) \in Nat
      /\ \A a \in DOMAIN broadcasts : a \in Nat /\ Todo(a) \in Seq(Conns) /\ Len(Todo(a)) \in Nat
  BY <1>1, BroadcastsAre DEF FeedTyping
<1>3. PICK q \in Seq(Nat) : q = draining[c]
  BY <1>2
<1>4. PICK r : r = Tail(q)
  OBVIOUS
<1>5. /\ q # <<>> /\ b = q[1] /\ 1 \in DOMAIN q /\ DOMAIN q = 1 .. Len(q) /\ Len(q) \in Nat
      /\ r \in Seq(Nat)
      /\ \A i \in DOMAIN r : i \in Nat /\ i + 1 \in DOMAIN q /\ i + 1 # 1 /\ r[i] = q[i + 1]
      /\ \A i \in DOMAIN q : i = 1 \/ \E l \in DOMAIN r : l + 1 = i
  <2>1. /\ q # <<>> /\ b = Head(q)
    BY <1>3
  <2>2. r \in Seq(Nat) /\ IsTail(r, q)
    BY ONLY <1>4, <2>1, TailIs, q \in Seq(Nat)
  <2>3. Len(q) \in Nat /\ 1 \in 1 .. Len(q)
    BY <2>2 DEF IsTail
  <2>. QED  BY <2>1, <2>2, <2>3 DEF IsTail
<1>q. /\ \A i \in DOMAIN q : Sending(q[i]) /\ Todo(q[i])[1] = c
      /\ \A i, j \in DOMAIN q :
           i < j => q[i] # q[j] /\ (q[i] > q[j] => ~broadcasts[q[j]].calm)
  BY <1>1, <1>3 DEF DrainInv
<1>6. waiting[c] = r /\ \A d \in Conns \ {c} : waiting[d] = draining[d]
  BY <1>2, <1>3, <1>4
<1>7. waiting \in [Conns -> Seq(Nat)]
  BY <1>2, <1>3, <1>4, <1>5
<1>8. Sending(b) /\ Todo(b)[1] = c /\ b \in DOMAIN broadcasts /\ b \in Nat
  BY <1>1, <1>2, <1>3, <1>5 DEF DrainInv, Sending
<1>9. PICK s \in Seq(Conns) : s = Todo(b)
  BY <1>2, <1>8
<1>10. /\ s # <<>> /\ IsInjective(s) /\ s[1] = c /\ Len(s) \in Nat
       /\ todo \in Seq(Conns) /\ Len(todo) \in Nat /\ Len(todo) + 1 = Len(s)
       /\ DOMAIN todo = 1 .. Len(todo) /\ DOMAIN s = 1 .. Len(s)
       /\ \A i \in DOMAIN todo : i \in Nat /\ i + 1 \in DOMAIN s /\ i + 1 # 1 /\ todo[i] = s[i + 1]
  <2>1. s # <<>> /\ IsInjective(s) /\ s[1] = c /\ todo = Tail(s)
    BY <1>1, <1>8, <1>9 DEF TodoInv, Sending
  <2>2. todo \in Seq(Conns) /\ IsTail(todo, s)
    BY ONLY <2>1, TailIs, s \in Seq(Conns)
  <2>. QED  BY <2>1, <2>2 DEF IsTail
<1>11. IsInjective(todo)
  <2>. SUFFICES ASSUME NEW i \in DOMAIN todo, NEW j \in DOMAIN todo, todo[i] = todo[j] PROVE i = j
    BY DEF IsInjective
  <2>1. i + 1 = j + 1 /\ i \in Nat /\ j \in Nat
    BY <1>10 DEF IsInjective
  <2>. QED  BY <2>1
<1>12. ASSUME NEW d \in Conns, NEW i \in DOMAIN waiting[d]
       PROVE  waiting[d][i] # b /\ Sending(waiting[d][i]) /\ Todo(waiting[d][i])[1] = d
  <2>1. CASE d = c
    <3>1. i \in DOMAIN r
      BY <1>6, <1>12, <2>1
    <3>2. waiting[d][i] = q[i + 1] /\ i + 1 \in DOMAIN q /\ i + 1 # 1 /\ i \in Nat
      BY <1>5, <1>6, <2>1, <3>1
    <3>3. 1 < i + 1
      BY <1>5, <3>2
    <3>4. PICK k \in DOMAIN q : k = i + 1
      BY <3>2
    <3>5. q[1] # q[k] /\ Sending(q[k]) /\ Todo(q[k])[1] = c
      BY <1>q, <1>5, <3>3, <3>4
    <3>. QED  BY <1>5, <2>1, <3>2, <3>4, <3>5
  <2>2. CASE d # c
    <3>1. PICK x : x = draining[d][i]
      OBVIOUS
    <3>2. waiting[d][i] = x /\ Sending(x) /\ Todo(x)[1] = d
      BY <1>1, <1>6, <1>12, <2>2, <3>1 DEF DrainInv
    <3>. QED  BY <1>8, <2>2, <3>2
  <2>. QED  BY <2>1, <2>2
<1>13. ASSUME NEW a \in DOMAIN broadcasts \ {b}, Sending(a)
       PROVE  \E i \in DOMAIN waiting[Todo(a)[1]] : waiting[Todo(a)[1]][i] = a
  <2>1. PICK i \in DOMAIN draining[Todo(a)[1]] : draining[Todo(a)[1]][i] = a
    BY <1>1, <1>13 DEF DrainInv
  <2>2. CASE Todo(a)[1] = c
    <3>1. i \in DOMAIN q /\ q[i] = a /\ i # 1
      BY <1>3, <1>5, <1>13, <2>1, <2>2
    <3>2. PICK l \in DOMAIN r : l + 1 = i
      BY <1>5, <3>1
    <3>3. r[l] = a
      BY <1>5, <3>1, <3>2
    <3>. QED  BY <1>6, <2>2, <3>3
  <2>3. CASE Todo(a)[1] # c
    <3>1. Todo(a)[1] \in Conns
      <4>1. PICK t \in Seq(Conns) : t = Todo(a)
        BY <1>2
      <4>2. t # <<>>
        BY <1>1, <1>13, <4>1 DEF TodoInv, Sending
      <4>3. t[1] \in Conns
        BY <4>2
      <4>. QED  BY <4>1, <4>3
    <3>. QED  BY <1>6, <2>1, <2>3, <3>1
  <2>. QED  BY <2>2, <2>3
<1>14. ASSUME NEW d \in Conns, NEW i \in DOMAIN waiting[d], NEW j \in DOMAIN waiting[d], i < j
       PROVE  /\ waiting[d][i] # waiting[d][j]
              /\ waiting[d][i] > waiting[d][j] => ~broadcasts[waiting[d][j]].calm
  <2>1. CASE d = c
    <3>1. /\ i \in DOMAIN r /\ j \in DOMAIN r /\ waiting[d][i] = q[i + 1] /\ waiting[d][j] = q[j + 1]
          /\ i + 1 \in DOMAIN q /\ j + 1 \in DOMAIN q /\ i \in Nat /\ j \in Nat
      BY <1>5, <1>6, <1>14, <2>1
    <3>2. i + 1 < j + 1
      BY <1>14, <3>1
    <3>3. PICK k \in DOMAIN q, l \in DOMAIN q : k = i + 1 /\ l = j + 1
      BY <3>1
    <3>4. q[k] # q[l] /\ (q[k] > q[l] => ~broadcasts[q[l]].calm)
      BY <1>q, <3>2, <3>3
    <3>. QED  BY <3>1, <3>3, <3>4
  <2>2. CASE d # c
    BY <1>1, <1>6, <1>14, <2>2 DEF DrainInv
  <2>. QED  BY <2>1, <2>2
<1>15. ASSUME NEW a \in DOMAIN broadcasts, a < b
       PROVE  /\ broadcasts[a].state # "new"
              /\ Sending(a) /\ broadcasts[a].calm => Len(Todo(a)) <= Len(todo)
  <2>1. broadcasts[a].state # "new"
    BY <1>1, <1>8, <1>15 DEF EventInv, Sending
  <2>2. ASSUME Sending(a), broadcasts[a].calm PROVE Len(Todo(a)) <= Len(todo)
    <3>1. broadcasts[b].calm
      BY <1>1, <1>8, <1>15, <2>2 DEF EventInv, Sending
    <3>2. PICK t \in Seq(Conns) : t = Todo(a)
      BY <1>2
    <3>3. Len(t) <= Len(s) /\ EndOfClients(t) /\ EndOfClients(s) /\ t # <<>> /\ Len(t) \in Nat
      <4>1. Len(t) <= Len(s)
        BY <1>1, <1>8, <1>9, <1>15, <2>2, <3>2 DEF OrderInv
      <4>2. EndOfClients(t) /\ EndOfClients(s)
        BY <1>1, <1>8, <1>9, <2>2, <3>1, <3>2 DEF CalmInv
      <4>3. t # <<>>
        BY <1>1, <2>2, <3>2 DEF TodoInv, Sending
      <4>. QED  BY <4>1, <4>2, <4>3
    <3>4. Len(t) # Len(s)
      <4>. SUFFICES ASSUME Len(t) = Len(s) PROVE FALSE
        OBVIOUS
      <4>1. 1 \in 1 .. Len(t) /\ 1 \in 1 .. Len(s)
        <5>1. Len(t) # 0
          BY <3>3
        <5>. QED  BY <3>3, <5>1
      <4>2. t[1] = clients[1 + (Len(clients) - Len(t))] /\ s[1] = clients[1 + (Len(clients) - Len(s))]
        BY <3>3, <4>1 DEF EndOfClients
      <4>3. t[1] = c
        BY <1>10, <4>2
      <4>4. PICK i \in DOMAIN q : q[i] = a
        BY <1>1, <1>3, <2>2, <3>2, <4>3 DEF DrainInv
      <4>5. a # b /\ a \in Nat
        BY <1>2, <1>8, <1>15
      <4>6. i # 1
        BY <1>5, <4>4, <4>5
      <4>7. 1 < i /\ b > a
        BY <1>2, <1>5, <1>8, <1>15, <4>6
      <4>8. q[1] > q[i] => ~broadcasts[q[i]].calm
        BY <1>1, <1>3, <1>5, <4>7 DEF DrainInv
      <4>. QED  BY <1>5, <2>2, <4>4, <4>7, <4>8
    <3>. QED  BY <1>10, <3>2, <3>3, <3>4
  <2>. QED  BY <2>1, <2>2
<1>16. ASSUME NEW i \in DOMAIN todo
       PROVE  ~Sent(todo[i], b) /\ (broadcasts[b].calm =>
                \A a \in DOMAIN broadcasts : b < a => ~Sent(todo[i], a))
  <2>1. PICK d \in Conns : d = todo[i]
    BY <1>10
  <2>2. i + 1 \in 2 .. Len(Todo(b)) /\ Todo(b)[i + 1] = d
    BY <1>9, <1>10, <2>1
  <2>3. ~Sent(d, b)
    BY <1>1, <1>8, <2>2 DEF SentInv
  <2>4. ASSUME broadcasts[b].calm, NEW a \in DOMAIN broadcasts, b < a PROVE ~Sent(d, a)
    BY <1>1, <1>8, <2>2, <2>4 DEF OrderInv
  <2>. QED  BY <2>1, <2>3, <2>4
<1>17. ASSUME broadcasts[b].calm PROVE EndOfClients(todo)
  <2>1. EndOfClients(s)
    BY <1>1, <1>8, <1>9, <1>17 DEF CalmInv
  <2>2. Len(s) <= Len(clients) /\ Len(todo) <= Len(clients)
    BY <1>2, <1>10, <2>1 DEF EndOfClients
  <2>3. ASSUME NEW i \in 1 .. Len(todo) PROVE todo[i] = clients[i + (Len(clients) - Len(todo))]
    <3>1. todo[i] = s[i + 1] /\ i + 1 \in 1 .. Len(s) /\ i \in Nat
      BY <1>10
    <3>2. s[i + 1] = clients[(i + 1) + (Len(clients) - Len(s))]
      BY <2>1, <3>1 DEF EndOfClients
    <3>3. (i + 1) + (Len(clients) - Len(s)) = i + (Len(clients) - Len(todo))
      <4>1. PICK l \in Nat, m \in Nat, k \in Nat : l = Len(clients) /\ m = Len(todo) /\ k = Len(s)
        BY <1>2, <1>10
      <4>2. k = m + 1 /\ i \in Nat
        BY <1>10, <3>1, <4>1
      <4>3. (i + 1) + (l - k) = i + (l - m)
        BY ONLY <4>2, l \in Nat, m \in Nat
      <4>. QED  BY ONLY <4>1, <4>3
    <3>. QED  BY <3>1, <3>2, <3>3
  <2>. QED  BY <2>2, <2>3 DEF EndOfClients
<1>18. ASSUME broadcasts[b].calm, NEW a \in DOMAIN broadcasts, b < a, Sending(a)
       PROVE  Len(todo) < Len(Todo(a))
  <2>1. Len(s) <= Len(Todo(a))
    BY <1>1, <1>8, <1>9, <1>18 DEF OrderInv
  <2>. QED  BY <1>2, <1>10, <2>1
<1>19. broadcasts[b].state # "done"
  BY <1>8 DEF Sending
<1>. QED  BY <1>7, <1>8, <1>10, <1>11, <1>12, <1>13, <1>14, <1>15, <1>16, <1>17, <1>18, <1>19 DEF Ready

(* A broadcast that starts.                                                  *)
LEMMA StartKeeps ==
  ASSUME FeedInv, NEW b \in DOMAIN broadcasts, Start(b)
  PROVE  FeedInv'
<1>1. /\ broadcasts[b].state = "new" /\ \A a \in 1 .. b - 1 : broadcasts[a].state # "new"
      /\ Run(b, clients, {}, draining)
      /\ UNCHANGED <<subscribed, published, phase, alive, base>>
  BY DEF Start, Lists, endpoint
<1>2. missed' \in [Conns -> SUBSET (1 .. MaxEvents)]
  <2>1. broadcasts[b].event \in 1 .. published /\ published \in 0 .. MaxEvents
    BY DEF FeedInv, EventInv, FeedTyping
  <2>2. broadcasts[b].event \in 1 .. MaxEvents
    BY <2>1, FeedAssumption
  <2>3. missed \in [Conns -> SUBSET (1 .. MaxEvents)]
    BY DEF FeedInv, FeedTyping
  <2>. QED  BY <2>2, <2>3 DEF Start
<1>3. Ready(b, clients, draining)
  BY <1>1, StartReady
<1>4. {} \in SUBSET Conns
  OBVIOUS
<1>. QED  BY <1>1, <1>2, <1>3, <1>4, RunKeeps

(* A send that returns.                                                      *)
LEMMA ResumeKeeps ==
  ASSUME FeedInv, NEW c \in Conns, Resume(c)
  PROVE  FeedInv'
<1>1. PICK b : b = Head(draining[c])
  OBVIOUS
<1>2. PICK waiting : waiting = [draining EXCEPT ![c] = Tail(@)]
  OBVIOUS
<1>3. PICK todo : todo = Tail(Todo(b))
  OBVIOUS
<1>4. PICK dead : dead = broadcasts[b].dead \union (IF alive[c] THEN {} ELSE {c})
  OBVIOUS
<1>5. /\ draining[c] # <<>> /\ Run(b, todo, dead, waiting)
      /\ UNCHANGED <<subscribed, published, phase, alive, base, missed>>
  BY <1>1, <1>2, <1>3, <1>4 DEF Resume, Todo, endpoint
<1>6. Ready(b, todo, waiting)
  BY <1>1, <1>2, <1>3, <1>5, ResumeReady
<1>7. dead \in SUBSET Conns
  <2>1. broadcasts \in Seq(Broadcast) /\ b \in DOMAIN broadcasts
    BY <1>6 DEF FeedInv, FeedTyping, Ready
  <2>2. broadcasts[b] \in Broadcast
    BY ONLY <2>1, ElementIs
  <2>3. broadcasts[b].dead \in SUBSET Conns
    BY <2>2 DEF Broadcast
  <2>. QED  BY <1>4, <2>3
<1>8. missed' \in [Conns -> SUBSET (1 .. MaxEvents)]
  BY <1>5 DEF FeedInv, FeedTyping
<1>. QED  BY <1>5, <1>6, <1>7, <1>8, RunKeeps

(* A step that leaves broadcasts where they are, and disturbs them if it     *)
(* changes the connections.                                                  *)
LEMMA QuietKeeps ==
  ASSUME FeedInv, FeedTyping', published' = published, draining' = draining, inbox' = inbox,
         DOMAIN broadcasts' = DOMAIN broadcasts,
         \A a \in DOMAIN broadcasts :
           /\ broadcasts'[a].event = broadcasts[a].event
           /\ broadcasts'[a].state = broadcasts[a].state
           /\ broadcasts'[a].todo = broadcasts[a].todo,
         \/ broadcasts' = broadcasts /\ clients' = clients
            /\ \A c \in Conns : Connected(c) => Connected(c)'
         \/ \A a \in DOMAIN broadcasts :
              broadcasts'[a].calm => broadcasts[a].calm /\ broadcasts[a].state = "done"
  PROVE  FeedInv'
<1>1. /\ FeedTyping /\ EventInv /\ TodoInv /\ DrainInv /\ CalmInv /\ OrderInv /\ SentInv /\ InboxInv
  BY DEF FeedInv
<1>2. /\ \A a : Sending(a)' = Sending(a)
      /\ \A a \in DOMAIN broadcasts : /\ Todo(a)' = Todo(a)
                                      /\ broadcasts'[a].state = broadcasts[a].state
                                      /\ broadcasts'[a].event = broadcasts[a].event
      /\ \A c, a : Sent(c, a)' = Sent(c, a)
  BY DEF Sending, Todo, Sent
<1>3. \A a \in DOMAIN broadcasts : broadcasts'[a].calm => broadcasts[a].calm
  OBVIOUS
<1>4. \/ broadcasts' = broadcasts /\ clients' = clients /\ \A c \in Conns : Connected(c) => Connected(c)'
      \/ \A a \in DOMAIN broadcasts : broadcasts[a].state = "done" \/ ~broadcasts'[a].calm
  OBVIOUS
<1>5. EventInv'
  BY <1>1, <1>2, <1>4 DEF EventInv
<1>6. TodoInv'
  BY <1>1, <1>2 DEF TodoInv
<1>7. DrainInv'
  <2>1. ASSUME NEW c \in Conns, NEW i \in DOMAIN draining[c], NEW a, a = draining[c][i]
        PROVE  a \in DOMAIN broadcasts /\ Sending(a)' /\ Todo(a)'[1] = c
    BY <1>1, <1>2, <2>1 DEF DrainInv, Sending
  <2>2. ASSUME NEW a \in DOMAIN broadcasts, Sending(a)', NEW c, c = Todo(a)'[1]
        PROVE  \E i \in DOMAIN draining[c] : draining[c][i] = a
    BY <1>1, <1>2, <2>2 DEF DrainInv
  <2>3. ASSUME NEW c \in Conns, NEW i \in DOMAIN draining[c], NEW j \in DOMAIN draining[c], i < j
        PROVE  /\ draining[c][i] # draining[c][j]
               /\ draining[c][i] > draining[c][j] => ~broadcasts'[draining[c][j]].calm
    BY <1>1, <1>3, <2>1, <2>3 DEF DrainInv
  <2>. QED  BY <2>1, <2>2, <2>3 DEF DrainInv
<1>8. CalmInv'
  <2>. SUFFICES ASSUME NEW a \in DOMAIN broadcasts, Sending(a)', broadcasts'[a].calm
                PROVE  (Connected(Todo(a)[1]) /\ EndOfClients(Todo(a)))'
    BY DEF CalmInv
  <2>1. Sending(a) /\ broadcasts' = broadcasts /\ clients' = clients
        /\ \A c \in Conns : Connected(c) => Connected(c)'
    BY <1>2, <1>4 DEF Sending
  <2>2. PICK s \in Seq(Conns) : s = Todo(a)
    BY <1>1, BroadcastsAre DEF FeedTyping
  <2>3. s # <<>> /\ Connected(s[1]) /\ EndOfClients(s)
    BY <1>1, <2>1, <2>2 DEF CalmInv, TodoInv, Sending
  <2>4. s[1] \in Conns
    BY <2>3
  <2>5. Connected(s[1])' /\ EndOfClients(s)' /\ Todo(a)' = s
    BY <1>2, <2>1, <2>2, <2>3, <2>4 DEF EndOfClients
  <2>. QED  BY <2>5 DEF Connected, EndOfClients
<1>9. OrderInv'
  BY <1>1, <1>2, <1>3 DEF OrderInv
<1>10. SentInv'
  BY <1>1, <1>2 DEF SentInv
<1>11. InboxInv'
  BY <1>1 DEF InboxInv
<1>. QED  BY <1>5, <1>6, <1>7, <1>8, <1>9, <1>10, <1>11 DEF FeedInv

(* A connection that is registered, and what Connect and SnapshotSent leave. *)
LEMMA RegisterKeeps ==
  ASSUME FeedInv, NEW c \in Conns, Register(c), subscribed' \in BOOLEAN,
         alive' \in [Conns -> BOOLEAN], base' \in [Conns -> 0 .. MaxEvents],
         UNCHANGED <<published, draining, inbox, missed>>
  PROVE  FeedInv'
<1>1. FeedTyping
  BY DEF FeedInv
<1>2. PICK ds : ds = Disturbed
  OBVIOUS
<1>3. broadcasts' = ds /\ phase' = [phase EXCEPT ![c] = "live"]
  BY <1>2 DEF Register
<1>4. /\ ds \in Seq(Broadcast) /\ DOMAIN ds = DOMAIN broadcasts
      /\ \A a \in DOMAIN broadcasts :
           /\ ds[a].event = broadcasts[a].event /\ ds[a].state = broadcasts[a].state
           /\ ds[a].todo = broadcasts[a].todo
           /\ ds[a].calm => broadcasts[a].calm /\ broadcasts[a].state = "done"
  BY <1>1, <1>2, DisturbedIs DEF FeedTyping
<1>5. /\ clients' \in Seq(Conns) /\ IsInjective(clients')
      /\ Range(clients') \subseteq Range(clients) \union {c}
  <2>1. PICK t \in Orders(Range(clients) \union {c}) : t = clients'
    BY DEF Register
  <2>2. t \in Seq(Conns) /\ IsInjective(t) /\ Range(t) \subseteq Range(clients) \union {c}
    BY <1>1, OneMore DEF FeedTyping
  <2>. QED  BY <2>1, <2>2
<1>6. FeedTyping'
  <2>1. phase' \in [Conns -> Phases] /\ phase'[c] = "live" /\ \A d \in Conns \ {c} : phase'[d] = phase[d]
    BY <1>1, <1>3 DEF FeedTyping, Phases
  <2>2. Range(clients') \subseteq {d \in Conns : phase'[d] \in {"live", "closing"}}
    BY <1>1, <1>5, <2>1 DEF FeedTyping
  <2>. QED  BY <1>1, <1>3, <1>4, <1>5, <2>1, <2>2 DEF FeedTyping
<1>. QED  BY <1>3, <1>4, <1>6, QuietKeeps

LEMMA ConnectKeeps == ASSUME FeedInv, NEW c \in Conns, Connect(c) PROVE FeedInv'
<1>1. FeedTyping
  BY DEF FeedInv
<1>2. /\ subscribed' \in BOOLEAN /\ alive' \in [Conns -> BOOLEAN]
      /\ base' \in [Conns -> 0 .. MaxEvents]
      /\ UNCHANGED <<published, draining, inbox, missed>>
  BY <1>1 DEF Connect, FeedTyping
<1>3. CASE Register(c)
  BY <1>2, <1>3, RegisterKeeps
<1>4. CASE phase' = [phase EXCEPT ![c] = "snapshot"] /\ UNCHANGED <<clients, broadcasts>>
  <2>1. /\ phase[c] = "unused" /\ phase' \in [Conns -> Phases]
        /\ \A d \in Conns \ {c} : phase'[d] = phase[d] /\ alive'[d] = alive[d]
    BY <1>1, <1>4 DEF Connect, FeedTyping, Phases
  <2>2. Range(clients') \subseteq {d \in Conns : phase'[d] \in {"live", "closing"}}
    BY <1>1, <1>4, <2>1 DEF FeedTyping
  <2>3. FeedTyping'
    BY <1>1, <1>2, <1>4, <2>1, <2>2 DEF FeedTyping
  <2>4. ASSUME NEW d \in Conns, Connected(d) PROVE Connected(d)'
    BY <2>1, <2>4 DEF Connected
  <2>. QED  BY <1>2, <1>4, <2>3, <2>4, QuietKeeps
<1>. QED  BY <1>3, <1>4 DEF Connect

LEMMA SnapshotSentKeeps == ASSUME FeedInv, NEW c \in Conns, SnapshotSent(c) PROVE FeedInv'
  BY RegisterKeeps DEF SnapshotSent, FeedInv, FeedTyping

(* A connection that breaks or is unregistered.                              *)
LEMMA DisturbedKeeps ==
  ASSUME FeedInv, broadcasts' = Disturbed,
         alive' \in [Conns -> BOOLEAN], phase' \in [Conns -> Phases],
         clients' \in Seq(Conns), IsInjective(clients'),
         Range(clients') \subseteq {d \in Conns : phase'[d] \in {"live", "closing"}},
         UNCHANGED <<subscribed, published, base, draining, inbox, missed>>
  PROVE  FeedInv'
<1>1. FeedTyping
  BY DEF FeedInv
<1>2. PICK ds : ds = Disturbed
  OBVIOUS
<1>3. broadcasts' = ds
  BY <1>2
<1>4. /\ ds \in Seq(Broadcast) /\ DOMAIN ds = DOMAIN broadcasts
      /\ \A a \in DOMAIN broadcasts :
           /\ ds[a].event = broadcasts[a].event /\ ds[a].state = broadcasts[a].state
           /\ ds[a].todo = broadcasts[a].todo
           /\ ds[a].calm => broadcasts[a].calm /\ broadcasts[a].state = "done"
  BY <1>1, <1>2, DisturbedIs DEF FeedTyping
<1>5. FeedTyping'
  BY <1>1, <1>3, <1>4 DEF FeedTyping
<1>. QED  BY <1>3, <1>4, <1>5, QuietKeeps

LEMMA BreakKeeps == ASSUME FeedInv, NEW c \in Conns, Break(c) PROVE FeedInv'
<1>1. /\ alive' \in [Conns -> BOOLEAN] /\ phase' \in [Conns -> Phases]
      /\ clients' \in Seq(Conns) /\ IsInjective(clients')
      /\ Range(clients') \subseteq {d \in Conns : phase'[d] \in {"live", "closing"}}
  BY DEF Break, FeedInv, FeedTyping
<1>. QED  BY <1>1, DisturbedKeeps DEF Break

LEMMA UnregisterKeeps == ASSUME FeedInv, NEW c \in Conns, Unregister(c) PROVE FeedInv'
<1>1. FeedTyping
  BY DEF FeedInv
<1>2. /\ phase' \in [Conns -> Phases] /\ \A d \in Conns \ {c} : phase'[d] = phase[d]
      /\ alive' \in [Conns -> BOOLEAN]
  BY <1>1 DEF Unregister, FeedTyping, Phases
<1>3. /\ clients' \in Seq(Conns) /\ IsInjective(clients')
      /\ Range(clients') \subseteq Range(clients) \ {c}
  <2>1. PICK t \in Remaining({c}) : t = clients'
    BY DEF Unregister
  <2>2. t \in Seq(Conns) /\ IsInjective(t) /\ Range(t) \subseteq Range(clients) \ {c}
    BY <1>1, RemainingAre DEF FeedTyping
  <2>. QED  BY <2>1, <2>2
<1>4. Range(clients') \subseteq {d \in Conns : phase'[d] \in {"live", "closing"}}
  BY <1>1, <1>2, <1>3 DEF FeedTyping
<1>. QED  BY <1>2, <1>3, <1>4, DisturbedKeeps DEF Unregister

LEMMA NoticeKeeps == ASSUME FeedInv, NEW c \in Conns, Notice(c) PROVE FeedInv'
<1>1. FeedTyping
  BY DEF FeedInv
<1>2. /\ phase' \in [Conns -> Phases] /\ phase'[c] = "closing" /\ ~alive[c]
      /\ \A d \in Conns \ {c} : phase'[d] = phase[d]
      /\ UNCHANGED <<subscribed, published, broadcasts, alive, base, clients, draining, inbox, missed>>
  BY <1>1 DEF Notice, FeedTyping, Phases
<1>3. FeedTyping'
  <2>1. Range(clients') \subseteq {d \in Conns : phase'[d] \in {"live", "closing"}}
    BY <1>1, <1>2 DEF FeedTyping
  <2>. QED  BY <1>1, <1>2, <2>1 DEF FeedTyping
<1>4. ASSUME NEW d \in Conns, Connected(d) PROVE Connected(d)'
  BY <1>2, <1>4 DEF Connected
<1>. QED  BY <1>2, <1>3, <1>4, QuietKeeps

(* A sequence and one element more.                                         *)
LEMMA OneLonger ==
  ASSUME NEW S, NEW q \in Seq(S), NEW one \in Seq(S), Len(one) = 1
  PROVE  /\ q \o one \in Seq(S) /\ Len(q \o one) = Len(q) + 1
         /\ \A i \in 1 .. Len(q) : (q \o one)[i] = q[i]
         /\ (q \o one)[Len(q) + 1] = one[1]
<1>1. q \o one \in Seq(S) /\ Len(q \o one) = Len(q) + 1 /\ Len(q) \in Nat
  BY ConcatProperties, SMT
<1>2. \A i \in 1 .. Len(q) : (q \o one)[i] = q[i]
  BY ConcatProperties, SMT
<1>3. (q \o one)[Len(q) + 1] = one[1]
  BY <1>1, ConcatProperties
<1>. QED  BY <1>1, <1>2, <1>3

(* An event is published, and its broadcast is the last.                     *)
LEMMA PublishIs ==
  ASSUME FeedTyping, Publish
  PROVE  \E n \in Broadcast, l \in Nat, m \in 0 .. 1 :
           /\ n.event = published + 1 /\ n.state = "new" /\ n.todo = <<>> /\ n.calm /\ n.dead = {}
           /\ l = Len(broadcasts) /\ m = Bridges
           /\ broadcasts' \in Seq(Broadcast)
           /\ DOMAIN broadcasts = 1 .. l /\ DOMAIN broadcasts' = 1 .. (l + m)
           /\ \A a \in 1 .. l : broadcasts'[a] = broadcasts[a]
           /\ \A a \in 1 .. (l + m) : a \in 1 .. l \/ (a = l + 1 /\ broadcasts'[a] = n)
<1>1. PICK n : n = [event |-> published + 1, state |-> "new", todo |-> <<>>,
                    dead |-> {}, calm |-> TRUE]
  OBVIOUS
<1>2. /\ n \in Broadcast /\ n.event = published + 1 /\ n.state = "new" /\ n.todo = <<>>
      /\ n.calm /\ n.dead = {}
  <2>1. <<>> \in Seq(Conns) /\ {} \in SUBSET Conns /\ published + 1 \in Nat
    BY DEF FeedTyping
  <2>. QED  BY <1>1, <2>1 DEF Broadcast
<1>3. PICK l \in Nat : l = Len(broadcasts)
  BY BroadcastsAre DEF FeedTyping
<1>4. PICK m \in 0 .. 1 : m = Bridges
  BY DEF Bridges
<1>5. /\ broadcasts' \in Seq(Broadcast) /\ DOMAIN broadcasts = 1 .. l /\ DOMAIN broadcasts' = 1 .. (l + m)
      /\ \A a \in 1 .. l : broadcasts'[a] = broadcasts[a]
      /\ \A a \in 1 .. (l + m) : a \in 1 .. l \/ (a = l + 1 /\ broadcasts'[a] = n)
  <2>1. broadcasts \in Seq(Broadcast)
    BY DEF FeedTyping
  <2>2. broadcasts' = broadcasts \o [i \in 1 .. m |-> n]
    BY <1>1, <1>4 DEF Publish
  <2>3. CASE m = 0
    <3>1. [i \in 1 .. m |-> n] = <<>>
      BY <2>3
    <3>. QED  BY <1>3, <2>1, <2>2, <2>3, <3>1
  <2>4. CASE m = 1
    <3>1. PICK one : one = [i \in 1 .. m |-> n]
      OBVIOUS
    <3>2. one \in Seq(Broadcast) /\ Len(one) = 1 /\ one[1] = n
      BY <1>2, <2>4, <3>1
    <3>3. broadcasts' = broadcasts \o one
      BY <2>2, <3>1
    <3>4. /\ broadcasts' \in Seq(Broadcast) /\ Len(broadcasts') = l + 1
          /\ \A a \in 1 .. l : broadcasts'[a] = broadcasts[a]
          /\ broadcasts'[l + 1] = n
      BY ONLY <1>3, <2>1, <3>2, <3>3, OneLonger
    <3>5. /\ DOMAIN broadcasts = 1 .. l /\ DOMAIN broadcasts' = 1 .. (l + 1)
      BY ONLY <1>3, <2>1, <3>4, SMT
    <3>6. 1 .. (l + 1) = 1 .. (l + m) /\ \A a \in 1 .. (l + 1) : a \in 1 .. l \/ a = l + 1
      BY ONLY <1>3, <2>4, SMT
    <3>. QED  BY ONLY <3>4, <3>5, <3>6, Zenon
  <2>. QED  BY <2>3, <2>4
<1>. QED  BY <1>2, <1>3, <1>4, <1>5

LEMMA PublishKeeps == ASSUME FeedInv, Publish PROVE FeedInv'
<1>1. /\ FeedTyping /\ EventInv /\ TodoInv /\ DrainInv /\ CalmInv /\ OrderInv /\ SentInv /\ InboxInv
  BY DEF FeedInv
<1>2. PICK n \in Broadcast, l \in Nat, m \in 0 .. 1 :
        /\ n.event = published + 1 /\ n.state = "new" /\ n.todo = <<>> /\ n.calm
        /\ broadcasts' \in Seq(Broadcast)
        /\ DOMAIN broadcasts = 1 .. l /\ DOMAIN broadcasts' = 1 .. (l + m)
        /\ \A a \in 1 .. l : broadcasts'[a] = broadcasts[a]
        /\ \A a \in 1 .. (l + m) : a \in 1 .. l \/ (a = l + 1 /\ broadcasts'[a] = n)
  BY <1>1, PublishIs
<1>3. /\ n \in Broadcast /\ n.event = published + 1 /\ n.state = "new" /\ n.todo = <<>> /\ n.calm
  BY <1>2
<1>4. /\ broadcasts' \in Seq(Broadcast) /\ DOMAIN broadcasts = 1 .. l /\ DOMAIN broadcasts' = 1 .. (l + m)
      /\ \A a \in 1 .. l : broadcasts'[a] = broadcasts[a]
      /\ \A a \in 1 .. (l + m) : a \in 1 .. l \/ (a = l + 1 /\ broadcasts'[a] = n)
  BY <1>2
<1>5. published' = published + 1 /\ published' \in 0 .. MaxEvents /\ published \in Nat
  BY <1>1, FeedAssumption DEF Publish, FeedTyping
<1>6. UNCHANGED <<subscribed, phase, alive, base, clients, draining, inbox, missed>>
  BY DEF Publish, endpoint
<1>7. FeedTyping'
  BY <1>1, <1>4, <1>5, <1>6 DEF FeedTyping
<1>8. /\ \A a : Sending(a)' <=> Sending(a)
      /\ \A a \in DOMAIN broadcasts : Todo(a)' = Todo(a) /\ a \in DOMAIN broadcasts'
      /\ \A c, a : Sent(c, a)' <=> Sent(c, a)
  <2>1. ASSUME NEW a PROVE Sending(a)' <=> Sending(a)
    BY <1>3, <1>4 DEF Sending
  <2>. QED  BY <1>4, <1>6, <2>1 DEF Todo, Sent
<1>9. EventInv'
  <2>1. ASSUME NEW a \in DOMAIN broadcasts' PROVE broadcasts'[a].event \in 1 .. published'
    BY <1>1, <1>3, <1>4, <1>5 DEF EventInv
  <2>2. ASSUME NEW a \in DOMAIN broadcasts', NEW b \in DOMAIN broadcasts', a < b
        PROVE  /\ broadcasts'[a].event < broadcasts'[b].event
               /\ broadcasts'[a].state = "new" => broadcasts'[b].state = "new"
               /\ broadcasts'[a].calm /\ broadcasts'[a].state # "done" => broadcasts'[b].calm
    <3>1. a \in 1 .. l
      BY <1>4, <2>2
    <3>2. CASE b \in 1 .. l
      BY <1>1, <1>4, <2>2, <3>1, <3>2 DEF EventInv
    <3>3. CASE b = l + 1 /\ broadcasts'[b] = n
      <4>1. broadcasts'[a].event \in 1 .. published
        BY <1>1, <1>4, <3>1 DEF EventInv
      <4>. QED  BY <1>3, <1>5, <3>3, <4>1
    <3>. QED  BY <1>4, <3>2, <3>3
  <2>. QED  BY <2>1, <2>2 DEF EventInv
<1>10. TodoInv'
  <2>1. IsInjective(<<>>)
    BY DEF IsInjective
  <2>. QED  BY <1>1, <1>3, <1>4, <2>1 DEF TodoInv, Todo
<1>11. DrainInv'
  <2>1. ASSUME NEW c \in Conns, NEW i \in DOMAIN draining[c], NEW a, a = draining[c][i]
        PROVE  /\ a \in DOMAIN broadcasts /\ Sending(a)' /\ Todo(a)'[1] = c
               /\ broadcasts'[a] = broadcasts[a]
    BY <1>1, <1>4, <1>8, <2>1 DEF DrainInv, Sending
  <2>2. ASSUME NEW a, Sending(a)', NEW c, c = Todo(a)'[1]
        PROVE  \E i \in DOMAIN draining[c] : draining[c][i] = a
    <3>1. Sending(a) /\ a \in DOMAIN broadcasts
      BY <1>8, <2>2 DEF Sending
    <3>. QED  BY <1>1, <1>8, <2>2, <3>1 DEF DrainInv
  <2>3. ASSUME NEW c \in Conns, NEW i \in DOMAIN draining[c], NEW j \in DOMAIN draining[c], i < j
        PROVE  /\ draining[c][i] # draining[c][j]
               /\ draining[c][i] > draining[c][j] => ~broadcasts'[draining[c][j]].calm
    BY <1>1, <2>1, <2>3 DEF DrainInv
  <2>. QED  BY <1>6, <2>1, <2>2, <2>3 DEF DrainInv
<1>12. CalmInv'
  <2>. SUFFICES ASSUME NEW a \in DOMAIN broadcasts', Sending(a)', broadcasts'[a].calm
                PROVE  (Connected(Todo(a)[1]) /\ EndOfClients(Todo(a)))'
    BY DEF CalmInv
  <2>1. Sending(a) /\ a \in DOMAIN broadcasts
    BY <1>8 DEF Sending
  <2>2. broadcasts[a].calm /\ Todo(a)' = Todo(a)
    BY <1>4, <1>8, <2>1
  <2>3. Connected(Todo(a)[1]) /\ EndOfClients(Todo(a))
    BY <1>1, <2>1, <2>2 DEF CalmInv
  <2>. QED  BY <1>6, <2>2, <2>3 DEF Connected, EndOfClients
<1>13. OrderInv'
  <2>. SUFFICES ASSUME NEW a \in DOMAIN broadcasts', NEW b \in DOMAIN broadcasts', a < b,
                       Sending(a)', broadcasts'[a].calm
                PROVE  /\ Sending(b)' => Len(Todo(a)') <= Len(Todo(b)')
                       /\ \A c \in Conns : Sent(c, b)' =>
                            \A k \in 2 .. Len(Todo(a)') : Todo(a)'[k] # c
    BY DEF OrderInv
  <2>1. Sending(a) /\ a \in DOMAIN broadcasts
    BY <1>8 DEF Sending
  <2>2. broadcasts[a].calm /\ Todo(a)' = Todo(a)
    BY <1>4, <1>8, <2>1
  <2>3. \A c : Sent(c, b)' => Sent(c, b)
    BY <1>8
  <2>4. CASE b \in DOMAIN broadcasts
    <3>1. Todo(b)' = Todo(b) /\ (Sending(b)' <=> Sending(b))
      BY <1>8, <2>4
    <3>2. /\ Sending(b) => Len(Todo(a)) <= Len(Todo(b))
          /\ \A c \in Conns : Sent(c, b) => \A k \in 2 .. Len(Todo(a)) : Todo(a)[k] # c
      BY <1>1, <2>1, <2>2, <2>4 DEF OrderInv
    <3>. QED  BY <2>2, <2>3, <3>1, <3>2
  <2>5. CASE b \notin DOMAIN broadcasts
    <3>1. ~Sending(b)' /\ b \in Nat
      BY <1>4, <1>8, <2>5 DEF Sending
    <3>2. \A c \in Conns : ~Sent(c, b)
      BY <1>1, <2>5, <3>1 DEF SentInv
    <3>. QED  BY <2>3, <3>1, <3>2
  <2>. QED  BY <2>4, <2>5
<1>14. SentInv'
  <2>. SUFFICES ASSUME NEW c \in Conns, NEW b \in Nat, Sent(c, b)'
                PROVE  /\ b \in DOMAIN broadcasts' /\ broadcasts'[b].state # "new"
                       /\ \A k \in 2 .. Len(Todo(b)') : Todo(b)'[k] # c
    BY DEF SentInv
  <2>1. Sent(c, b)
    BY <1>8
  <2>. QED  BY <1>1, <1>4, <1>8, <2>1 DEF SentInv
<1>15. InboxInv'
  BY <1>1, <1>6 DEF InboxInv
<1>. QED  BY <1>7, <1>9, <1>10, <1>11, <1>12, <1>13, <1>14, <1>15 DEF FeedInv

LEMMA FeedBegins == ASSUME FeedInit PROVE FeedInv
<1>1. FeedTyping
  <2>1. <<>> \in Seq(Broadcast) /\ <<>> \in Seq(Conns) /\ <<>> \in Seq(Nat)
        /\ <<>> \in Seq([by : Nat, calm : BOOLEAN]) /\ 0 \in 0 .. MaxEvents
    BY FeedAssumption
  <2>2. IsInjective(<<>>) /\ Range(<<>>) = {}
    BY DEF IsInjective, Range
  <2>. QED  BY <2>1, <2>2 DEF FeedInit, FeedTyping, Phases
<1>2. /\ DOMAIN broadcasts = {} /\ \A c \in Conns : DOMAIN draining[c] = {} /\ DOMAIN inbox[c] = {}
  BY DEF FeedInit
<1>. QED  BY <1>1, <1>2
          DEF FeedInv, EventInv, TodoInv, DrainInv, CalmInv, OrderInv, SentInv, InboxInv, Sent

LEMMA FeedSteps == ASSUME FeedInv, [FeedNext]_feedVars PROVE FeedInv'
<1>1. CASE UNCHANGED feedVars
  <2>1. /\ UNCHANGED <<subscribed, published, broadcasts, phase, alive>>
        /\ UNCHANGED <<base, clients, draining, inbox, missed>>
    BY <1>1 DEF feedVars
  <2>2. FeedTyping /\ (FeedTyping)'
    BY <2>1 DEF FeedInv, FeedTyping
  <2>3. \A c \in Conns : Connected(c) => Connected(c)'
    BY <2>1 DEF Connected
  <2>. QED  BY <2>1, <2>2, <2>3, QuietKeeps
<1>2. CASE FeedNext
  BY <1>2, ConnectKeeps, SnapshotSentKeeps, NoticeKeeps, UnregisterKeeps, BreakKeeps,
     ResumeKeeps, StartKeeps, PublishKeeps
     DEF FeedNext, FeedStep, StartNext, EndpointStep
<1>. QED  BY <1>1, <1>2

(* The variables keep to their types, whoever connects, breaks or is slow    *)
(* (DashboardBroadcaster, dashboard_websocket_endpoint).                     *)
THEOREM FeedTypeCorrect == FeedSpec => []FeedTypeOK
<1>1. FeedInv => FeedTypeOK
  <2>. SUFFICES ASSUME FeedInv PROVE FeedTypeOK
    OBVIOUS
  <2>1. /\ FeedTyping /\ EventInv /\ TodoInv /\ DrainInv /\ SentInv
    BY DEF FeedInv
  <2>2. ASSUME NEW b \in Range(broadcasts)
        PROVE  /\ b.event \in 1 .. published /\ b.state \in {"new", "sending", "done"}
               /\ IsInjective(b.todo) /\ Range(b.todo) \union b.dead \subseteq Conns
    <3>1. PICK a \in DOMAIN broadcasts : broadcasts[a] = b
      BY DEF Range
    <3>2. b \in Broadcast
      BY <2>1, <3>1, ElementIs DEF FeedTyping
    <3>3. b.event \in 1 .. published /\ IsInjective(b.todo)
      BY <2>1, <3>1 DEF EventInv, TodoInv, Todo
    <3>4. b.state \in {"new", "sending", "done"} /\ b.todo \in Seq(Conns) /\ b.dead \in SUBSET Conns
      BY <3>2 DEF Broadcast
    <3>5. Range(b.todo) \subseteq Conns
      BY <3>4 DEF Range
    <3>. QED  BY <3>3, <3>4, <3>5
  <2>3. \A c \in Conns : Range(draining[c]) \subseteq DOMAIN broadcasts
    BY <2>1 DEF DrainInv, Sending, Range
  <2>4. ASSUME NEW c \in Conns, NEW m \in Range(inbox[c]) PROVE m.by \in DOMAIN broadcasts
    <3>1. PICK q \in Seq([by : Nat, calm : BOOLEAN]) : q = inbox[c]
      BY <2>1 DEF FeedTyping
    <3>2. PICK i \in DOMAIN q : q[i] = m
      BY <3>1 DEF Range
    <3>3. q[i] \in [by : Nat, calm : BOOLEAN]
      BY ONLY ElementIs
    <3>4. m.by \in Nat
      BY <3>2, <3>3
    <3>5. Sent(c, m.by)
      BY <3>1, <3>2 DEF Sent
    <3>. QED  BY <2>1, <3>4, <3>5 DEF SentInv
  <2>. QED  BY <2>1, <2>2, <2>3, <2>4 DEF FeedTyping, FeedTypeOK
<1>. QED  BY <1>1, FeedBegins, FeedSteps, PTL DEF FeedSpec

(* Whatever sends are slow and however often clients come and go, nobody is  *)
(* sent an event twice, and none out of order by a broadcast that no change  *)
(* of the connections disturbed (broadcast, _on_event, ensure_subscribed).   *)
THEOREM EventsInOrderOnce == FeedSpec => []InOrderOnce
<1>1. FeedInv => InOrderOnce
  <2>. SUFFICES ASSUME FeedInv, NEW c \in Conns, NEW i \in 1 .. 2 * MaxEvents,
                       NEW j \in 1 .. 2 * MaxEvents, i < j, j <= Len(inbox[c])
                PROVE  \/ broadcasts[inbox[c][i].by].event < broadcasts[inbox[c][j].by].event
                       \/ /\ broadcasts[inbox[c][i].by].event > broadcasts[inbox[c][j].by].event
                          /\ ~inbox[c][j].calm
    BY DEF InOrderOnce
  <2>1. FeedTyping /\ EventInv /\ SentInv /\ InboxInv
    BY DEF FeedInv
  <2>2. PICK q \in Seq([by : Nat, calm : BOOLEAN]) : q = inbox[c]
    BY <2>1 DEF FeedTyping
  <2>3. i \in DOMAIN q /\ j \in DOMAIN q
    BY <2>2, FeedAssumption
  <2>4. q[i] \in [by : Nat, calm : BOOLEAN] /\ q[j] \in [by : Nat, calm : BOOLEAN]
    BY ONLY <2>3, ElementIs
  <2>5. PICK a \in Nat, b \in Nat : a = q[i].by /\ b = q[j].by
    BY <2>4
  <2>6. Sent(c, a) /\ Sent(c, b)
    BY <2>2, <2>3, <2>5 DEF Sent
  <2>7. a \in DOMAIN broadcasts /\ b \in DOMAIN broadcasts
    BY <2>1, <2>6 DEF SentInv
  <2>8. a # b /\ (a > b => ~q[j].calm)
    BY <2>1, <2>2, <2>3, <2>5 DEF InboxInv
  <2>9. broadcasts[a].event \in Nat /\ broadcasts[b].event \in Nat
    BY <2>1, <2>7, BroadcastsAre DEF FeedTyping
  <2>10. CASE a < b
    <3>1. broadcasts[a].event < broadcasts[b].event
      BY <2>1, <2>7, <2>10 DEF EventInv
    <3>. QED  BY <2>2, <2>5, <3>1
  <2>11. CASE b < a
    <3>1. broadcasts[b].event < broadcasts[a].event
      BY <2>1, <2>7, <2>11 DEF EventInv
    <3>2. a > b /\ broadcasts[a].event > broadcasts[b].event
      BY <2>9, <2>11, <3>1
    <3>. QED  BY <2>2, <2>5, <2>8, <3>2
  <2>. QED  BY <2>8, <2>10, <2>11
<1>. QED  BY <1>1, FeedBegins, FeedSteps, PTL DEF FeedSpec

-------------------------------------------------------------------------------
(* Nobody is left out of the feed.                                           *)

(* Registered, now or in the past.                                           *)
Past(c) == phase[c] \in {"live", "closing", "closed"}

(* The first connection has the bridge subscribed to the bus.                *)
BridgeInv == \A c \in Conns : phase[c] # "unused" => subscribed

ListedInv == \A c \in Conns : Connected(c) => c \in Range(clients)

(* A broadcast goes to connections that were registered when it started, and *)
(* drops none that works.                                                    *)
PastInv ==
  \A b \in DOMAIN broadcasts :
    /\ \A k \in DOMAIN Todo(b) : Past(Todo(b)[k])
    /\ \A c \in broadcasts[b].dead : Past(c) /\ ~Connected(c)

(* Broadcast b will reach c, which may not be registered yet, or has.        *)
Reaches(c, b) ==
  \/ broadcasts[b].state = "new"
  \/ Connected(c) /\ (Sent(c, b) \/ \E k \in 2 .. Len(Todo(b)) : Todo(b)[k] = c)

HeardOf(c, e) ==
  \/ e <= base[c] \/ e \in missed[c]
  \/ \E b \in DOMAIN broadcasts : broadcasts[b].event = e /\ Reaches(c, b)

HeardInv ==
  \A c \in Conns : phase[c] = "snapshot" \/ Connected(c) =>
    \A e \in 1 .. published : HeardOf(c, e)

ViewInv == BridgeInv /\ ListedInv /\ PastInv /\ HeardInv

(* What no step takes back.                                                  *)
OneWay ==
  /\ subscribed => subscribed'
  /\ \A c \in Conns :
       /\ Past(c) => Past(c)' /\ (Connected(c)' => Connected(c))
       /\ phase[c] # "unused" => base'[c] = base[c]
       /\ missed[c] \subseteq missed'[c]
       /\ phase'[c] # "unused" => phase[c] # "unused" \/ subscribed'
       /\ phase'[c] = "snapshot" \/ Connected(c)' =>
            \/ phase[c] = "snapshot" \/ Connected(c)
            \/ base'[c] = published /\ published' = published

LEMMA ConnectOneWay == ASSUME FeedInv, NEW d \in Conns, Connect(d) PROVE OneWay
<1>1. FeedTyping
  BY DEF FeedInv
<1>2. /\ phase[d] = "unused" /\ base'[d] = published /\ published' = published
      /\ phase'[d] \in {"snapshot", "live"} /\ subscribed' /\ missed' = missed
      /\ \A c \in Conns \ {d} : phase'[c] = phase[c] /\ alive'[c] = alive[c] /\ base'[c] = base[c]
  BY <1>1 DEF Connect, Register, FeedTyping
<1>. QED  BY <1>2 DEF OneWay, Past, Connected

(* Steps that leave bridge, snapshots and history alone, and move only d on. *)
LEMMA EndpointOneWay ==
  ASSUME FeedInv, NEW d \in Conns, UNCHANGED <<subscribed, base, missed>>,
         \/ SnapshotSent(d) \/ Break(d) \/ Notice(d) \/ Unregister(d)
  PROVE  OneWay
<1>1. FeedTyping
  BY DEF FeedInv
<1>2. /\ \A c \in Conns \ {d} : phase'[c] = phase[c] /\ alive'[c] = alive[c]
      /\ alive'[d] => alive[d]
      /\ \/ phase[d] = "snapshot" /\ phase'[d] = "live"
         \/ phase'[d] = phase[d]
         \/ phase[d] \in {"live", "closing"} /\ phase'[d] \in {"closing", "closed"}
  <2>1. CASE SnapshotSent(d)
    BY <1>1, <2>1 DEF SnapshotSent, Register, FeedTyping
  <2>2. CASE Break(d)
    BY <1>1, <2>2 DEF Break, FeedTyping
  <2>3. CASE Notice(d)
    BY <1>1, <2>3 DEF Notice, FeedTyping
  <2>4. CASE Unregister(d)
    BY <1>1, <2>4 DEF Unregister, FeedTyping
  <2>. QED  BY <2>1, <2>2, <2>3, <2>4
<1>. QED  BY <1>2 DEF OneWay, Past, Connected

LEMMA LoopOneWay ==
  ASSUME FeedInv, UNCHANGED <<subscribed, phase, alive, base>>,
         \A c \in Conns : missed[c] \subseteq missed'[c]
  PROVE  OneWay
BY DEF OneWay, Past, Connected

(* What was heard of stays so.                                               *)
LEMMA HeardStays ==
  ASSUME FeedInv, HeardInv, OneWay, published' = published,
         \A a \in DOMAIN broadcasts :
           a \in DOMAIN broadcasts' /\ broadcasts'[a].event = broadcasts[a].event,
         \A c \in Conns : \A a \in DOMAIN broadcasts :
           (phase'[c] = "snapshot" \/ Connected(c)') /\ Reaches(c, a) =>
             Reaches(c, a)' \/ broadcasts[a].event \in missed'[c]
  PROVE  HeardInv'
<1>. SUFFICES ASSUME NEW c \in Conns, phase'[c] = "snapshot" \/ Connected(c)',
                     NEW e \in 1 .. published'
              PROVE  HeardOf(c, e)'
  BY DEF HeardInv
<1>1. FeedTyping /\ e \in Nat /\ published \in Nat /\ e <= published
  BY FeedAssumption DEF FeedInv, FeedTyping
<1>2. CASE base'[c] = published
  BY <1>1, <1>2 DEF HeardOf
<1>3. CASE phase[c] = "snapshot" \/ Connected(c)
  <2>1. HeardOf(c, e)
    BY <1>3 DEF HeardInv
  <2>2. base'[c] = base[c] /\ missed[c] \subseteq missed'[c]
    BY <1>3 DEF OneWay, Connected
  <2>3. CASE e <= base[c] \/ e \in missed[c]
    BY <2>2, <2>3 DEF HeardOf
  <2>4. CASE \E a \in DOMAIN broadcasts : broadcasts[a].event = e /\ Reaches(c, a)
    <3>1. PICK a \in DOMAIN broadcasts : broadcasts[a].event = e /\ Reaches(c, a)
      BY <2>4
    <3>2. a \in DOMAIN broadcasts' /\ broadcasts'[a].event = e
      BY <3>1
    <3>3. Reaches(c, a)' \/ e \in missed'[c]
      BY <3>1
    <3>. QED  BY <3>2, <3>3 DEF HeardOf
  <2>. QED  BY <2>1, <2>3, <2>4 DEF HeardOf
<1>. QED  BY <1>2, <1>3 DEF OneWay

(* Nobody broadcasts.                                                        *)
LEMMA QuietViews ==
  ASSUME FeedInv, ViewInv, OneWay, UNCHANGED <<published, inbox>>, ListedInv',
         DOMAIN broadcasts' = DOMAIN broadcasts,
         \A a \in DOMAIN broadcasts :
           /\ broadcasts'[a].event = broadcasts[a].event
           /\ broadcasts'[a].state = broadcasts[a].state
           /\ broadcasts'[a].todo = broadcasts[a].todo /\ broadcasts'[a].dead = broadcasts[a].dead
  PROVE  ViewInv'
<1>1. BridgeInv /\ PastInv /\ HeardInv /\ FeedTyping
  BY DEF ViewInv, FeedInv
<1>2. \A a \in DOMAIN broadcasts : /\ Todo(a)' = Todo(a) /\ Todo(a) \in Seq(Conns)
                                   /\ broadcasts[a].dead \in SUBSET Conns
  <2>1. ASSUME NEW a \in DOMAIN broadcasts PROVE broadcasts[a] \in Broadcast
    BY <1>1, <2>1, ElementIs DEF FeedTyping
  <2>. QED  BY <2>1 DEF Todo, Broadcast
<1>3. BridgeInv'
  BY <1>1 DEF BridgeInv, OneWay
<1>4. PastInv'
  <2>1. ASSUME NEW a \in DOMAIN broadcasts, NEW k \in DOMAIN Todo(a) PROVE Past(Todo(a)[k])'
    BY <1>1, <1>2 DEF PastInv, OneWay
  <2>2. ASSUME NEW a \in DOMAIN broadcasts, NEW c \in broadcasts[a].dead
        PROVE  Past(c)' /\ ~Connected(c)'
    BY <1>1, <1>2 DEF PastInv, OneWay
  <2>. QED  BY <1>2, <2>1, <2>2 DEF PastInv
<1>5. HeardInv'
  <2>1. ASSUME NEW c \in Conns, NEW a \in DOMAIN broadcasts,
               phase'[c] = "snapshot" \/ Connected(c)', Reaches(c, a)
        PROVE  Reaches(c, a)'
    <3>1. CASE broadcasts[a].state = "new"
      BY <3>1 DEF Reaches
    <3>2. CASE Connected(c) /\ (Sent(c, a) \/ \E k \in 2 .. Len(Todo(a)) : Todo(a)[k] = c)
      <4>1. Connected(c)'
        BY <2>1, <3>2 DEF OneWay, Past, Connected
      <4>2. Sent(c, a) => Sent(c, a)'
        BY DEF Sent
      <4>. QED  BY <1>2, <3>2, <4>1, <4>2 DEF Reaches
    <3>. QED  BY <2>1, <3>1, <3>2 DEF Reaches
  <2>. QED  BY <1>1, <2>1, HeardStays
<1>. QED  BY <1>3, <1>4, <1>5 DEF ViewInv

(* A connection that is registered, breaks, or is unregistered.              *)
LEMMA RegisterViews ==
  ASSUME FeedInv, ViewInv, OneWay, NEW d \in Conns, Register(d), UNCHANGED <<published, inbox>>,
         \A c \in Conns \ {d} : alive'[c] = alive[c]
  PROVE  ViewInv'
<1>1. FeedTyping /\ ListedInv
  BY DEF FeedInv, ViewInv
<1>2. PICK ds : ds = Disturbed
  OBVIOUS
<1>3. /\ DOMAIN ds = DOMAIN broadcasts
      /\ \A a \in DOMAIN broadcasts :
           /\ ds[a].event = broadcasts[a].event /\ ds[a].state = broadcasts[a].state
           /\ ds[a].todo = broadcasts[a].todo /\ ds[a].dead = broadcasts[a].dead
  BY <1>1, <1>2, DisturbedIs DEF FeedTyping
<1>4. broadcasts' = ds
  BY <1>2 DEF Register
<1>5. Range(clients') = Range(clients) \union {d}
  <2>1. PICK t \in Orders(Range(clients) \union {d}) : t = clients'
    BY DEF Register
  <2>2. Range(t) = Range(clients) \union {d}
    BY <1>1, OneMore DEF FeedTyping
  <2>. QED  BY <2>1, <2>2
<1>6. \A c \in Conns \ {d} : phase'[c] = phase[c]
  BY <1>1 DEF Register, FeedTyping
<1>7. ListedInv'
  BY <1>1, <1>5, <1>6 DEF ListedInv, Connected
<1>. QED  BY <1>3, <1>4, <1>7, QuietViews

LEMMA ConnectViews == ASSUME FeedInv, ViewInv, NEW d \in Conns, Connect(d) PROVE ViewInv'
<1>1. OneWay /\ FeedTyping /\ ListedInv
  BY ConnectOneWay DEF FeedInv, ViewInv
<1>2. UNCHANGED <<published, inbox>> /\ \A c \in Conns \ {d} : alive'[c] = alive[c]
  BY <1>1 DEF Connect, FeedTyping
<1>3. CASE Register(d)
  BY <1>1, <1>2, <1>3, RegisterViews
<1>4. CASE phase' = [phase EXCEPT ![d] = "snapshot"] /\ UNCHANGED <<clients, broadcasts>>
  <2>1. phase'[d] = "snapshot" /\ \A c \in Conns \ {d} : phase'[c] = phase[c]
    BY <1>1, <1>4 DEF FeedTyping
  <2>2. ListedInv'
    BY <1>1, <1>2, <1>4, <2>1 DEF ListedInv, Connected
  <2>. QED  BY <1>1, <1>2, <1>4, <2>2, QuietViews
<1>. QED  BY <1>3, <1>4 DEF Connect

LEMMA SnapshotSentViews == ASSUME FeedInv, ViewInv, NEW d \in Conns, SnapshotSent(d) PROVE ViewInv'
<1>1. UNCHANGED <<subscribed, base, missed, published, inbox, alive>> /\ Register(d)
  BY DEF SnapshotSent
<1>2. OneWay
  BY <1>1, EndpointOneWay
<1>. QED  BY <1>1, <1>2, RegisterViews

LEMMA NoticeViews == ASSUME FeedInv, ViewInv, NEW d \in Conns, Notice(d) PROVE ViewInv'
<1>1. UNCHANGED <<subscribed, base, missed, published, inbox, broadcasts, alive, clients>>
  BY DEF Notice
<1>2. OneWay
  BY <1>1, EndpointOneWay
<1>3. ListedInv'
  BY <1>1 DEF Notice, ViewInv, ListedInv, Connected, FeedInv, FeedTyping
<1>. QED  BY <1>1, <1>2, <1>3, QuietViews

LEMMA DisturbedViews ==
  ASSUME FeedInv, ViewInv, OneWay, broadcasts' = Disturbed, UNCHANGED <<published, inbox>>, ListedInv'
  PROVE  ViewInv'
<1>1. PICK ds : ds = Disturbed
  OBVIOUS
<1>2. /\ DOMAIN ds = DOMAIN broadcasts
      /\ \A a \in DOMAIN broadcasts :
           /\ ds[a].event = broadcasts[a].event /\ ds[a].state = broadcasts[a].state
           /\ ds[a].todo = broadcasts[a].todo /\ ds[a].dead = broadcasts[a].dead
  BY <1>1, DisturbedIs DEF FeedInv, FeedTyping
<1>3. broadcasts' = ds
  BY <1>1
<1>. QED  BY <1>2, <1>3, QuietViews

LEMMA BreakViews == ASSUME FeedInv, ViewInv, NEW d \in Conns, Break(d) PROVE ViewInv'
<1>1. /\ UNCHANGED <<subscribed, base, missed, published, inbox, phase, clients>>
      /\ broadcasts' = Disturbed /\ \A c \in Conns : alive'[c] => alive[c]
  BY DEF Break, FeedInv, FeedTyping
<1>2. OneWay
  BY <1>1, EndpointOneWay
<1>3. ListedInv'
  BY <1>1 DEF ViewInv, ListedInv, Connected
<1>. QED  BY <1>1, <1>2, <1>3, DisturbedViews

LEMMA UnregisterViews == ASSUME FeedInv, ViewInv, NEW d \in Conns, Unregister(d) PROVE ViewInv'
<1>1. /\ UNCHANGED <<subscribed, base, missed, published, inbox, alive>>
      /\ broadcasts' = Disturbed /\ phase'[d] = "closed"
      /\ \A c \in Conns \ {d} : phase'[c] = phase[c]
  BY DEF Unregister, FeedInv, FeedTyping
<1>2. OneWay
  BY <1>1, EndpointOneWay
<1>3. Range(clients') = Range(clients) \ {d}
  <2>1. PICK t \in Remaining({d}) : t = clients'
    BY DEF Unregister
  <2>2. Range(t) = Range(clients) \ {d}
    BY RemainingAre DEF FeedInv, FeedTyping
  <2>. QED  BY <2>1, <2>2
<1>4. ListedInv'
  BY <1>1, <1>3 DEF ViewInv, ListedInv, Connected
<1>. QED  BY <1>1, <1>2, <1>4, DisturbedViews

(* A broadcast goes on: with all clients, or with those it has not sent to.  *)
LEMMA RunViews ==
  ASSUME FeedInv, ViewInv, NEW b \in DOMAIN broadcasts, NEW todo \in Seq(Conns), NEW dead \in SUBSET Conns,
         NEW waiting \in [Conns -> Seq(Nat)], Run(b, todo, dead, waiting),
         UNCHANGED <<subscribed, published, phase, alive, base>>,
         \A k \in 1 .. Len(todo) : Past(todo[k]), \A c \in dead : Past(c) /\ ~Connected(c),
         \A c \in Conns : /\ missed[c] \subseteq missed'[c]
                          /\ phase[c] = "snapshot" /\ broadcasts[b].state = "new" =>
                               broadcasts[b].event \in missed'[c]
                          /\ Connected(c) /\ Reaches(c, b) =>
                               Sent(c, b) \/ \E k \in 1 .. Len(todo) : todo[k] = c
  PROVE  ViewInv'
<1>1. BridgeInv /\ ListedInv /\ PastInv /\ HeardInv /\ FeedTyping
  BY DEF ViewInv, FeedInv
<1>2. PICK n \in 0 .. Len(todo) :
        /\ SentBy(b, todo, waiting, n) /\ OthersAsBefore(b) /\ Reached(b, todo, dead, n)
        /\ Finished(b, todo, waiting, n) \/ Suspended(b, todo, waiting, n)
  BY <1>1, RunIs
<1>3. OneWay /\ \A c \in Conns : /\ Past(c)' <=> Past(c)
                                 /\ Connected(c)' <=> Connected(c)
  BY LoopOneWay DEF Past, Connected
<1>4. BridgeInv'
  BY <1>1 DEF BridgeInv
<1>5. ListedInv'
  BY <1>1, <1>2, <1>3 DEF ListedInv, Reached
<1>6. Len(todo) \in Nat /\ n \in Nat /\ DOMAIN todo = 1 .. Len(todo)
  OBVIOUS
<1>7. /\ Todo(b)' \in Seq(Conns)
      /\ \A k \in DOMAIN Todo(b)' : \E i \in 1 .. Len(todo) : Todo(b)'[k] = todo[i]
      /\ \A i \in 1 .. Len(todo) : i <= n + 1 \/ \E k \in 2 .. Len(Todo(b)') : Todo(b)'[k] = todo[i]
  <2>1. CASE Finished(b, todo, waiting, n)
    <3>1. n = Len(todo) /\ Todo(b)' = <<>>
      BY <2>1 DEF Finished
    <3>2. \A i \in 1 .. Len(todo) : i <= n + 1
      BY <1>6, <3>1
    <3>. QED  BY <3>1, <3>2
  <2>2. CASE Suspended(b, todo, waiting, n)
    <3>1. PICK rest : rest = SubSeq(todo, n + 1, Len(todo))
      OBVIOUS
    <3>2. n < Len(todo) /\ Todo(b)' = rest
      BY <2>2, <3>1 DEF Suspended
    <3>3. /\ rest \in Seq(Conns) /\ Len(rest) = Len(todo) - n
          /\ \A k \in 1 .. Len(rest) : rest[k] = todo[n + k] /\ n + k \in 1 .. Len(todo)
      BY <1>6, <3>1, <3>2, RestIs
    <3>4. DOMAIN rest = 1 .. Len(rest) /\ Len(rest) \in Nat
      BY <3>3
    <3>5. ASSUME NEW i \in 1 .. Len(todo), ~(i <= n + 1)
          PROVE  \E k \in 2 .. Len(rest) : rest[k] = todo[i]
      <4>1. PICK k \in Nat : k = i - n
        BY <1>6, <3>5
      <4>2. k \in 2 .. Len(rest) /\ k \in 1 .. Len(rest) /\ n + k = i
        BY <1>6, <3>3, <3>5, <4>1
      <4>. QED  BY <3>3, <4>2
    <3>. QED  BY <3>2, <3>3, <3>4, <3>5
  <2>. QED  BY <1>2, <2>1, <2>2
<1>8. PastInv'
  <2>1. ASSUME NEW a \in DOMAIN broadcasts \ {b}, NEW k \in DOMAIN Todo(a) PROVE Past(Todo(a)[k])'
    <3>1. Todo(a) \in Seq(Conns)
      BY <1>1, BroadcastsAre DEF FeedTyping
    <3>2. PICK c \in Conns : c = Todo(a)[k] /\ Past(c)
      BY <1>1, <3>1, ElementIs DEF PastInv
    <3>3. Todo(a)' = Todo(a)
      BY <1>2 DEF OthersAsBefore
    <3>4. Past(c)'
      BY <1>3, <3>2
    <3>. QED  BY ONLY <3>2, <3>3, <3>4 DEF Past
  <2>2. ASSUME NEW k \in DOMAIN Todo(b)' PROVE Past(Todo(b)[k])'
    <3>1. PICK i \in 1 .. Len(todo) : Todo(b)'[k] = todo[i]
      BY <1>7
    <3>2. Past(todo[i]) /\ todo[i] \in Conns
      BY <1>6
    <3>. QED  BY <3>1, <3>2 DEF Past
  <2>3. ASSUME NEW a \in DOMAIN broadcasts, NEW c \in broadcasts'[a].dead
        PROVE  Past(c)' /\ ~Connected(c)'
    <3>1. CASE a # b
      <4>1. c \in broadcasts[a].dead
        BY <1>2, <2>3, <3>1 DEF Reached
      <4>2. Past(c) /\ ~Connected(c)
        BY <1>1, <4>1 DEF PastInv
      <4>. QED  BY <4>2 DEF Past, Connected
    <3>2. CASE a = b
      <4>1. Past(c) /\ ~Connected(c)
        BY <1>2, <2>3, <3>2 DEF Reached
      <4>. QED  BY <4>1 DEF Past, Connected
    <3>. QED  BY <3>1, <3>2
  <2>4. DOMAIN broadcasts' = DOMAIN broadcasts
        /\ \A a \in DOMAIN broadcasts \ {b} : Todo(a)' = Todo(a)
    BY <1>2 DEF OthersAsBefore
  <2>. QED  BY <2>1, <2>2, <2>3, <2>4 DEF PastInv
<1>9. ASSUME NEW c \in Conns, NEW a PROVE Sent(c, a) => Sent(c, a)'
  <2>1. inbox[c] \in Seq([by : Nat, calm : BOOLEAN])
    BY <1>1 DEF FeedTyping
  <2>2. CASE inbox'[c] = inbox[c]
    BY <2>2 DEF Sent
  <2>3. CASE inbox'[c] = Append(inbox[c], [by |-> b, calm |-> broadcasts[b].calm])
    <3>1. PICK q \in Seq([by : Nat, calm : BOOLEAN]) : q = inbox[c]
      BY <2>1
    <3>2. PICK m : m = [by |-> b, calm |-> broadcasts[b].calm]
      OBVIOUS
    <3>3. m \in [by : Nat, calm : BOOLEAN]
      <4>1. b \in Nat /\ broadcasts[b].calm \in BOOLEAN
        BY <1>1, BroadcastsAre DEF FeedTyping
      <4>. QED  BY <3>2, <4>1
    <3>4. \A i \in DOMAIN q : i \in DOMAIN Append(q, m) /\ Append(q, m)[i] = q[i]
      BY <3>3
    <3>. QED  BY <2>3, <3>1, <3>2, <3>4 DEF Sent
  <2>. QED  BY <1>2, <2>2, <2>3 DEF SentBy
<1>10. ASSUME NEW i \in 1 .. Len(todo), i <= n + 1, Connected(todo[i]) PROVE Sent(todo[i], b)'
  <2>1. PICK q \in Seq([by : Nat, calm : BOOLEAN]) : q = inbox[todo[i]]
    <3>1. todo[i] \in Conns
      BY <1>6
    <3>2. inbox[todo[i]] \in Seq([by : Nat, calm : BOOLEAN])
      BY <1>1, <3>1 DEF FeedTyping
    <3>. QED  BY <3>2
  <2>2. PICK m : m = [by |-> b, calm |-> broadcasts[b].calm]
    OBVIOUS
  <2>3. m \in [by : Nat, calm : BOOLEAN] /\ m.by = b
    <3>1. b \in Nat /\ broadcasts[b].calm \in BOOLEAN
      BY <1>1, BroadcastsAre DEF FeedTyping
    <3>. QED  BY <2>2, <3>1
  <2>4. inbox'[todo[i]] = Append(q, m)
    BY <1>2, <1>10, <2>1, <2>2 DEF Reached
  <2>5. Len(q) + 1 \in DOMAIN Append(q, m) /\ Append(q, m)[Len(q) + 1] = m
    BY <2>3
  <2>. QED  BY <2>3, <2>4, <2>5 DEF Sent
<1>11. HeardInv'
  <2>1. ASSUME NEW c \in Conns, NEW a \in DOMAIN broadcasts,
               phase'[c] = "snapshot" \/ Connected(c)', Reaches(c, a)
        PROVE  Reaches(c, a)' \/ broadcasts[a].event \in missed'[c]
    <3>1. CASE a # b
      <4>1. broadcasts'[a].state = broadcasts[a].state /\ Todo(a)' = Todo(a)
        BY <1>2, <3>1 DEF OthersAsBefore
      <4>. QED  BY <1>3, <1>9, <2>1, <4>1 DEF Reaches
    <3>2. CASE a = b /\ phase[c] = "snapshot"
      BY <2>1, <3>2 DEF Reaches, Connected
    <3>3. CASE a = b /\ Connected(c)
      <4>1. CASE Sent(c, b)
        BY <1>3, <1>9, <3>3, <4>1 DEF Reaches
      <4>2. CASE \E k \in 1 .. Len(todo) : todo[k] = c
        <5>1. PICK i \in 1 .. Len(todo) : todo[i] = c
          BY <4>2
        <5>2. CASE i <= n + 1
          BY <1>3, <1>10, <3>3, <5>1, <5>2 DEF Reaches
        <5>3. CASE \E k \in 2 .. Len(Todo(b)') : Todo(b)'[k] = todo[i]
          BY <1>3, <3>3, <5>1, <5>3 DEF Reaches
        <5>. QED  BY <1>7, <5>2, <5>3
      <4>. QED  BY <2>1, <3>3, <4>1, <4>2
    <3>. QED  BY <1>3, <2>1, <3>1, <3>2, <3>3
  <2>2. DOMAIN broadcasts' = DOMAIN broadcasts
        /\ \A a \in DOMAIN broadcasts : broadcasts'[a].event = broadcasts[a].event
    BY <1>2 DEF OthersAsBefore
  <2>. QED  BY <1>1, <1>3, <2>1, <2>2, HeardStays
<1>. QED  BY <1>4, <1>5, <1>8, <1>11 DEF ViewInv

(* A broadcast that starts: whoever's snapshot is on its way misses it.      *)
LEMMA StartViews == ASSUME FeedInv, ViewInv, NEW b \in DOMAIN broadcasts, Start(b) PROVE ViewInv'
<1>1. /\ broadcasts[b].state = "new" /\ Run(b, clients, {}, draining)
      /\ UNCHANGED <<subscribed, published, phase, alive, base>>
      /\ missed' = [c \in Conns |-> IF phase[c] = "snapshot"
                                    THEN missed[c] \union {broadcasts[b].event} ELSE missed[c]]
  BY DEF Start, Lists, endpoint
<1>2. FeedTyping /\ ListedInv
  BY DEF FeedInv, ViewInv
<1>3. clients \in Seq(Conns) /\ draining \in [Conns -> Seq(Nat)]
  BY <1>2 DEF FeedTyping
<1>4. DOMAIN clients = 1 .. Len(clients)
  BY <1>3
<1>5. ASSUME NEW k \in 1 .. Len(clients) PROVE Past(clients[k])
  <2>1. clients[k] \in Range(clients)
    BY <1>4 DEF Range
  <2>. QED  BY <1>2, <2>1 DEF FeedTyping, Past
<1>6. ASSUME NEW c \in Conns
      PROVE  /\ missed[c] \subseteq missed'[c]
             /\ phase[c] = "snapshot" => broadcasts[b].event \in missed'[c]
             /\ Connected(c) => \E k \in 1 .. Len(clients) : clients[k] = c
  <2>1. Connected(c) => \E k \in DOMAIN clients : clients[k] = c
    BY <1>2 DEF ListedInv, Range
  <2>. QED  BY <1>1, <1>4, <2>1
<1>7. \A c \in Conns : /\ missed[c] \subseteq missed'[c]
                       /\ phase[c] = "snapshot" /\ broadcasts[b].state = "new" =>
                            broadcasts[b].event \in missed'[c]
                       /\ Connected(c) /\ Reaches(c, b) =>
                            Sent(c, b) \/ \E k \in 1 .. Len(clients) : clients[k] = c
  BY <1>6
<1>8. {} \in SUBSET Conns /\ \A c \in {} : Past(c) /\ ~Connected(c)
  OBVIOUS
<1>. QED  BY <1>1, <1>3, <1>5, <1>7, <1>8, RunViews

LEMMA ResumeViews == ASSUME FeedInv, ViewInv, NEW c \in Conns, Resume(c) PROVE ViewInv'
<1>1. PICK b : b = Head(draining[c])
  OBVIOUS
<1>2. PICK waiting : waiting = [draining EXCEPT ![c] = Tail(@)]
  OBVIOUS
<1>3. PICK todo : todo = Tail(Todo(b))
  OBVIOUS
<1>4. PICK dead : dead = broadcasts[b].dead \union (IF alive[c] THEN {} ELSE {c})
  OBVIOUS
<1>5. /\ draining[c] # <<>> /\ Run(b, todo, dead, waiting)
      /\ UNCHANGED <<subscribed, published, phase, alive, base, missed>>
  BY <1>1, <1>2, <1>3, <1>4 DEF Resume, Todo, endpoint
<1>6. FeedTyping /\ DrainInv /\ TodoInv /\ PastInv
  BY DEF FeedInv, ViewInv
<1>7. Sending(b) /\ Todo(b)[1] = c
  <2>1. PICK q \in Seq(Nat) : q = draining[c]
    BY <1>6 DEF FeedTyping
  <2>2. q # <<>> /\ b = q[1] /\ 1 \in DOMAIN q
    BY <1>1, <1>5, <2>1
  <2>. QED  BY <1>6, <2>1, <2>2 DEF DrainInv
<1>8. b \in DOMAIN broadcasts /\ broadcasts[b].state = "sending"
  BY <1>7 DEF Sending
<1>9. PICK s \in Seq(Conns) : s = Todo(b)
  BY <1>6, <1>8, BroadcastsAre DEF FeedTyping
<1>10. s # <<>>
  BY <1>6, <1>8, <1>9 DEF TodoInv
<1>11. todo \in Seq(Conns) /\ IsTail(todo, s)
  BY ONLY <1>3, <1>9, <1>10, TailIs
<1>12. broadcasts[b].dead \in SUBSET Conns
  <2>1. broadcasts \in Seq(Broadcast)
    BY <1>6 DEF FeedTyping
  <2>2. broadcasts[b] \in Broadcast
    BY ONLY <1>8, <2>1, ElementIs
  <2>. QED  BY <2>2 DEF Broadcast
<1>13. dead \in SUBSET Conns
  BY <1>4, <1>12
<1>14. waiting \in [Conns -> Seq(Nat)]
  <2>1. Ready(b, todo, waiting)
    BY <1>1, <1>2, <1>3, <1>5, ResumeReady
  <2>. QED  BY <2>1 DEF Ready
<1>15. \A k \in DOMAIN s : Past(s[k])
  BY <1>6, <1>8, <1>9 DEF PastInv
<1>16. \A k \in 1 .. Len(todo) : Past(todo[k])
  BY <1>11, <1>15 DEF IsTail
<1>17. Past(c)
  <2>1. 1 \in DOMAIN s
    BY <1>9, <1>10
  <2>. QED  BY <1>7, <1>9, <1>15, <2>1
<1>18. \A d \in dead : Past(d) /\ ~Connected(d)
  <2>1. \A d \in broadcasts[b].dead : Past(d) /\ ~Connected(d)
    BY <1>6, <1>8 DEF PastInv
  <2>. QED  BY <1>4, <1>17, <2>1 DEF Connected
<1>19. ASSUME NEW d \in Conns, Reaches(d, b)
       PROVE  Sent(d, b) \/ \E k \in 1 .. Len(todo) : todo[k] = d
  <2>1. Sent(d, b) \/ \E k \in 2 .. Len(s) : s[k] = d
    BY <1>8, <1>9, <1>19 DEF Reaches
  <2>2. ASSUME NEW k \in 2 .. Len(s), s[k] = d PROVE \E l \in 1 .. Len(todo) : todo[l] = d
    <3>1. k \in DOMAIN s /\ k # 1
      BY <1>9
    <3>2. PICK l \in DOMAIN todo : l + 1 = k
      BY <1>11, <3>1 DEF IsTail
    <3>3. todo[l] = s[l + 1] /\ DOMAIN todo = 1 .. Len(todo)
      BY <1>11 DEF IsTail
    <3>. QED  BY <2>2, <3>2, <3>3
  <2>. QED  BY <2>1, <2>2
<1>20. \A d \in Conns : /\ missed[d] \subseteq missed'[d]
                        /\ phase[d] = "snapshot" /\ broadcasts[b].state = "new" =>
                             broadcasts[b].event \in missed'[d]
                        /\ Connected(d) /\ Reaches(d, b) =>
                             Sent(d, b) \/ \E k \in 1 .. Len(todo) : todo[k] = d
  BY <1>5, <1>8, <1>19
<1>. QED  BY <1>5, <1>8, <1>11, <1>13, <1>14, <1>16, <1>18, <1>20, RunViews

(* An event that is published: who is connected has the bridge subscribed.   *)
LEMMA PublishViews == ASSUME FeedInv, ViewInv, Publish PROVE ViewInv'
<1>1. FeedTyping /\ BridgeInv /\ ListedInv /\ PastInv /\ HeardInv
  BY DEF FeedInv, ViewInv
<1>2. PICK n \in Broadcast, l \in Nat, m \in 0 .. 1 :
        /\ n.event = published + 1 /\ n.state = "new" /\ n.todo = <<>> /\ n.dead = {}
        /\ m = Bridges
        /\ DOMAIN broadcasts = 1 .. l /\ DOMAIN broadcasts' = 1 .. (l + m)
        /\ \A a \in 1 .. l : broadcasts'[a] = broadcasts[a]
        /\ \A a \in 1 .. (l + m) : a \in 1 .. l \/ (a = l + 1 /\ broadcasts'[a] = n)
  BY <1>1, PublishIs
<1>3. published' = published + 1 /\ published \in Nat
  BY <1>1, FeedAssumption DEF Publish, FeedTyping
<1>4. UNCHANGED <<subscribed, phase, alive, base, clients, inbox, missed>>
  BY DEF Publish, endpoint
<1>5. BridgeInv' /\ ListedInv'
  BY <1>1, <1>4 DEF BridgeInv, ListedInv, Connected
<1>6. \A a \in DOMAIN broadcasts : a \in DOMAIN broadcasts' /\ Todo(a)' = Todo(a)
  BY <1>2 DEF Todo
<1>7. PastInv'
  <2>1. ASSUME NEW a \in DOMAIN broadcasts', a \notin DOMAIN broadcasts
        PROVE  broadcasts'[a] = n
    BY <1>2, <2>1
  <2>2. ASSUME NEW a \in DOMAIN broadcasts', NEW k \in DOMAIN Todo(a)' PROVE Past(Todo(a)[k])'
    <3>1. CASE a \in DOMAIN broadcasts
      <4>1. Todo(a)' = Todo(a)
        BY <1>6, <3>1
      <4>2. PICK x : x = Todo(a)[k]
        OBVIOUS
      <4>3. Past(x)
        BY <1>1, <2>2, <3>1, <4>1, <4>2 DEF PastInv
      <4>4. Past(x)'
        BY <1>4, <4>3 DEF Past
      <4>. QED  BY ONLY <4>1, <4>2, <4>4 DEF Past
    <3>2. CASE a \notin DOMAIN broadcasts
      <4>1. Todo(a)' = <<>>
        BY <1>2, <2>1, <3>2 DEF Todo
      <4>. QED  BY <2>2, <4>1
    <3>. QED  BY <3>1, <3>2
  <2>3. ASSUME NEW a \in DOMAIN broadcasts', NEW c \in broadcasts'[a].dead
        PROVE  Past(c)' /\ ~Connected(c)'
    <3>1. a \in DOMAIN broadcasts /\ c \in broadcasts[a].dead
      BY <1>2, <2>1, <2>3
    <3>2. Past(c) /\ ~Connected(c)
      BY <1>1, <3>1 DEF PastInv
    <3>. QED  BY <1>4, <3>2 DEF Past, Connected
  <2>. QED  BY <2>2, <2>3 DEF PastInv
<1>8. HeardInv'
  <2>. SUFFICES ASSUME NEW c \in Conns, phase[c] = "snapshot" \/ Connected(c),
                       NEW e \in 1 .. published'
                PROVE  HeardOf(c, e)'
    BY <1>4 DEF HeardInv, Connected
  <2>1. \A a : Reaches(c, a) /\ a \in DOMAIN broadcasts => Reaches(c, a)'
    BY <1>2, <1>4, <1>6 DEF Reaches, Connected, Sent
  <2>2. CASE e \in 1 .. published
    <3>1. HeardOf(c, e)
      BY <1>1, <2>2 DEF HeardInv
    <3>2. ASSUME NEW a \in DOMAIN broadcasts, broadcasts[a].event = e, Reaches(c, a)
          PROVE  HeardOf(c, e)'
      <4>1. a \in DOMAIN broadcasts' /\ broadcasts'[a].event = e /\ Reaches(c, a)'
        BY <1>2, <1>6, <2>1, <3>2
      <4>. QED  BY <4>1 DEF HeardOf
    <3>. QED  BY <1>4, <3>1, <3>2 DEF HeardOf
  <2>3. CASE e = published + 1
    <3>1. m = 1
      BY <1>1, <1>2 DEF BridgeInv, Bridges, Connected
    <3>2. l + 1 \in DOMAIN broadcasts' /\ broadcasts'[l + 1] = n
      BY <1>2, <3>1
    <3>3. Reaches(c, l + 1)'
      BY <1>2, <3>2 DEF Reaches
    <3>. QED  BY <1>2, <2>3, <3>2, <3>3 DEF HeardOf
  <2>4. e \in 1 .. published \/ e = published + 1
    BY <1>3
  <2>. QED  BY <2>2, <2>3, <2>4
<1>. QED  BY <1>5, <1>7, <1>8 DEF ViewInv

LEMMA ViewBegins == ASSUME FeedInit PROVE ViewInv
<1>1. DOMAIN broadcasts = {} /\ \A c \in Conns : phase[c] = "unused"
  BY DEF FeedInit
<1>. QED  BY <1>1 DEF ViewInv, BridgeInv, ListedInv, PastInv, HeardInv, Connected

LEMMA ViewSteps == ASSUME FeedInv, ViewInv, [FeedNext]_feedVars PROVE ViewInv'
<1>1. CASE UNCHANGED feedVars
  <2>1. /\ UNCHANGED <<subscribed, published, broadcasts, phase, alive>>
        /\ UNCHANGED <<base, clients, inbox, missed>>
    BY <1>1 DEF feedVars
  <2>2. OneWay
    BY <2>1, LoopOneWay
  <2>3. ListedInv'
    BY <2>1 DEF ViewInv, ListedInv, Connected
  <2>. QED  BY <2>1, <2>2, <2>3, QuietViews
<1>2. CASE FeedNext
  BY <1>2, ConnectViews, SnapshotSentViews, NoticeViews, UnregisterViews, BreakViews,
     ResumeViews, StartViews, PublishViews
     DEF FeedNext, FeedStep, StartNext, EndpointStep
<1>. QED  BY <1>1, <1>2

(* Whoever works is registered and hears of every event, but for those that  *)
(* were broadcast while its snapshot was on its way, however often clients   *)
(* come and go and whichever sends fail (dashboard_websocket_endpoint,       *)
(* ensure_subscribed, broadcast).                                            *)
THEOREM NobodyIsLeftOut == FeedSpec => []NobodyLeftOut
<1>1. FeedInv /\ ViewInv => NobodyLeftOut
  <2>. SUFFICES ASSUME FeedInv, ViewInv, NEW c \in Conns, Connected(c)
                PROVE  c \in Range(clients) /\ 1 .. published \subseteq Told(c) \union missed[c] \union Awaited(c)
    BY DEF NobodyLeftOut
  <2>1. FeedTyping /\ ListedInv /\ HeardInv
    BY DEF FeedInv, ViewInv
  <2>2. c \in Range(clients)
    BY <2>1 DEF ListedInv
  <2>3. ASSUME NEW e \in 1 .. published PROVE e \in Told(c) \union missed[c] \union Awaited(c)
    <3>1. HeardOf(c, e)
      BY <2>1 DEF HeardInv
    <3>2. CASE e <= base[c]
      <4>1. base[c] \in Nat /\ e \in 1 .. base[c]
        BY <2>1, <3>2, FeedAssumption DEF FeedTyping
      <4>. QED  BY <4>1 DEF Told
    <3>3. ASSUME NEW a \in DOMAIN broadcasts, broadcasts[a].event = e, Reaches(c, a)
          PROVE  e \in Told(c) \union Awaited(c)
      <4>1. PICK x : x = broadcasts[a]
        OBVIOUS
      <4>2. x \in Range(broadcasts) /\ x.event = e
        BY <3>3, <4>1 DEF Range
      <4>3. CASE x.state = "new" \/ \E k \in 2 .. Len(x.todo) : x.todo[k] = c
        BY <4>2, <4>3 DEF Awaited
      <4>4. CASE Sent(c, a)
        <5>1. PICK i \in DOMAIN inbox[c] : inbox[c][i].by = a
          BY <4>4 DEF Sent
        <5>2. PICK y : y = inbox[c][i]
          OBVIOUS
        <5>3. y \in Range(inbox[c]) /\ y.by = a
          BY <5>1, <5>2 DEF Range
        <5>4. broadcasts[y.by].event = e
          BY <3>3, <5>3
        <5>. QED  BY <5>3, <5>4 DEF Told
      <4>. QED  BY <3>3, <4>1, <4>3, <4>4 DEF Reaches, Todo
    <3>. QED  BY <3>1, <3>2, <3>3 DEF HeardOf
  <2>. QED  BY <2>2, <2>3
<1>. QED  BY <1>1, FeedBegins, FeedSteps, ViewBegins, ViewSteps, PTL DEF FeedSpec
===============================================================================
