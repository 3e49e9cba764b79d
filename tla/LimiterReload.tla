----------------------------- MODULE LimiterReload -----------------------------
(***************************************************************************)
(* LLMConcurrencyLimiter under PATCH /api/config: update_limits replaces   *)
(* the four semaphores, one after the other, by new ones with the values   *)
(* of the config, while tasks hold slots of the old ones or wait for them. *)
(* The config keeps a value that update_limits then refuses, and the       *)
(* hardware profile changes the config without telling the limiter.        *)
(***************************************************************************)
EXTENDS Naturals, Sequences, FiniteSets

CONSTANTS
  Tasks,       \* coroutines that go through limit(), or try to
  RoleSlot,    \* RoleSlot[t]: the semaphore of t's role, or "unknown"
  FirstLimits, \* the limits the limiter is created with
  Values,      \* values an operator writes into a field, good or bad
  Profiles,    \* limits a hardware profile writes into the config
  MaxPatches   \* bound: PATCH requests

(* The order in which update_limits goes through its arguments.               *)
Order == <<"cto", "slm", "mlops", "total">>
Slots == {Order[i] : i \in 1 .. 4}

ASSUME ReloadAssumption ==
  /\ RoleSlot \in [Tasks -> (Slots \ {"total"}) \union {"unknown"}]
  /\ FirstLimits \in [Slots -> Nat \ {0}]
  /\ Values \subseteq Nat
  /\ Profiles \subseteq [Slots -> Nat \ {0}]
  /\ MaxPatches \in Nat

Reloads == 0 .. MaxPatches      \* 0: the limiter's __init__
Semaphores == Slots \X Reloads

VARIABLES
  config,   \* config[s]: SystemConfig.llm_concurrency_*
  limits,   \* limits[s]: the limiter's own record of its limits
  current,  \* current[s]: the request that made the semaphore in place
  cap,      \* cap[<<s, g>>]: the limit that request g made semaphore s with
  free,     \* free[<<s, g>>]: its open slots
  queue,    \* queue[<<s, g>>]: the tasks that wait for it
  at,       \* at[t]: where task t is
  mine,     \* mine[t]: whose semaphores it uses, [role, total]
  patches,  \* requests so far
  answer,   \* what the last one was told
  broken    \* history: requests in which update_limits raised half-way

semaphores == <<cap, free, queue>>
requests == <<config, limits, current, patches, answer, broken>>
vars == <<config, limits, current, cap, free, queue, at, mine, patches, answer, broken>>

Places == {"new", "forTotal", "hasTotal", "forRole", "inside", "done"}
Answers == {"none", "applied", "next run", "refused", "error"}

TypeOK ==
  /\ config \in [Slots -> Nat]
  /\ limits \in [Slots -> Nat \ {0}]
  /\ current \in [Slots -> Reloads]
  /\ {cap, free} \subseteq [Semaphores -> Nat]
  /\ queue \in [Semaphores -> Seq(Tasks)]
  /\ at \in [Tasks -> Places]
  /\ mine \in [Tasks -> [role : Reloads, total : Reloads]]
  /\ patches \in Reloads /\ broken \subseteq Reloads
  /\ answer \in Answers

Init ==
  /\ config = FirstLimits /\ limits = FirstLimits
  /\ current = [s \in Slots |-> 0]
  /\ cap = [m \in Semaphores |-> IF m[2] = 0 THEN FirstLimits[m[1]] ELSE 0]
  /\ free = cap
  /\ queue = [m \in Semaphores |-> <<>>]
  /\ at = [t \in Tasks |-> "new"]
  /\ mine = [t \in Tasks |-> [role |-> 0, total |-> 0]]
  /\ patches = 0 /\ answer = "none" /\ broken = {}

-------------------------------------------------------------------------------
(* limit().                                                                   *)

RoleOf(t) == <<RoleSlot[t], mine[t].role>>
TotalOf(t) == <<"total", mine[t].total>>

Open(m) == free[m] > 0 /\ queue[m] = <<>>

(* The semaphore of the role: taken without suspending, or waited for.        *)
TakeRole(t, m, left) ==
  \/ /\ Open(m)
     /\ free' = [left EXCEPT ![m] = @ - 1]
     /\ at' = [at EXCEPT ![t] = "inside"]
     /\ UNCHANGED queue
  \/ /\ ~Open(m)
     /\ free' = left
     /\ queue' = [queue EXCEPT ![m] = Append(@, t)]
     /\ at' = [at EXCEPT ![t] = "forRole"]

(* The roles' semaphores are looked up and self._total is read in one step.   *)
Enter(t) ==
  /\ at[t] = "new" /\ RoleSlot[t] # "unknown"
  /\ mine' = [mine EXCEPT ![t] = [role |-> current[RoleSlot[t]], total |-> current["total"]]]
  /\ LET total == <<"total", current["total"]>>
     IN  \/ /\ Open(total)
            /\ TakeRole(t, <<RoleSlot[t], current[RoleSlot[t]]>>,
                        [free EXCEPT ![total] = @ - 1])
         \/ /\ ~Open(total)
            /\ queue' = [queue EXCEPT ![total] = Append(@, t)]
            /\ at' = [at EXCEPT ![t] = "forTotal"]
            /\ UNCHANGED free
  /\ UNCHANGED <<cap, requests>>

(* A task that was handed a slot of total runs again.  (A bug: it looks up    *)
(* its role's semaphore only now.)                                            *)
ContinueLate(t) ==
  /\ at[t] = "hasTotal"
  /\ mine' = [mine EXCEPT ![t].role = current[RoleSlot[t]]]
  /\ TakeRole(t, <<RoleSlot[t], current[RoleSlot[t]]>>, free)
  /\ UNCHANGED <<cap, requests>>
Continue(t) ==
  /\ at[t] = "hasTotal"
  /\ TakeRole(t, RoleOf(t), free)
  /\ UNCHANGED <<cap, mine, requests>>

(* Out of both `async with`, normally or by an exception: each slot goes to   *)
(* the first that waits for it, or is open again.  (Bugs: nobody is woken;    *)
(* the slots go back to the semaphores that are in place now.)                *)
ReleaseQuietly(t, ms) ==
  /\ free' = [m \in Semaphores |-> IF m \in ms THEN free[m] + 1 ELSE free[m]]
  /\ at' = [at EXCEPT ![t] = "done"]
  /\ UNCHANGED <<queue, cap, mine, requests>>
ReleaseTo(t, ms) ==
  LET given(m) == m \in ms /\ queue[m] # <<>>
  IN  /\ free' = [m \in Semaphores |->
                    IF m \in ms /\ ~given(m) THEN free[m] + 1 ELSE free[m]]
      /\ queue' = [m \in Semaphores |-> IF given(m) THEN Tail(queue[m]) ELSE queue[m]]
      /\ at' = [u \in Tasks |->
                  IF u = t THEN "done"
                  ELSE IF \E m \in ms : given(m) /\ u = Head(queue[m])
                       THEN IF at[u] = "forTotal" THEN "hasTotal" ELSE "inside"
                       ELSE at[u]]
  /\ UNCHANGED <<cap, mine, requests>>

LeaveCurrent(t) ==
  /\ at[t] = "inside" /\ RoleSlot[t] # "unknown"
  /\ ReleaseTo(t, {<<s, current[s]>> : s \in {RoleSlot[t], "total"}})
Leave(t) ==
  /\ at[t] = "inside" /\ RoleSlot[t] # "unknown"
  /\ ReleaseTo(t, {RoleOf(t), TotalOf(t)})

(* A role nobody knows is not limited.                                        *)
PassUnlimited(t) ==
  /\ RoleSlot[t] = "unknown"
  /\ at' = [at EXCEPT ![t] = IF @ = "new" THEN "inside" ELSE "done"]
  /\ at[t] \in {"new", "inside"}
  /\ UNCHANGED <<semaphores, mine, requests>>

TaskStep(t) == Enter(t) \/ Continue(t) \/ Leave(t) \/ PassUnlimited(t)

-------------------------------------------------------------------------------
(* PATCH /api/config, one request at a time: a handler does not suspend.      *)

(* update_limits stops with a ValueError at the first limit below 1.          *)
Swapped(new) == {Order[i] : i \in {i \in 1 .. 4 : \A j \in 1 .. i : new[Order[j]] >= 1}}

UpdateLimits(new) ==
  LET swapped == Swapped(new)
      made(m) == m[1] \in swapped /\ m[2] = patches'
  IN  /\ limits' = [s \in Slots |-> IF s \in swapped THEN new[s] ELSE limits[s]]
      /\ current' = [s \in Slots |-> IF s \in swapped THEN patches' ELSE current[s]]
      /\ cap' = [m \in Semaphores |-> IF made(m) THEN new[m[1]] ELSE cap[m]]
      /\ free' = [m \in Semaphores |-> IF made(m) THEN new[m[1]] ELSE free[m]]
      /\ answer' = IF swapped = Slots THEN "applied" ELSE "error"
      /\ broken' = IF swapped = Slots THEN broken ELSE broken \union {patches'}

Counted == /\ patches < MaxPatches
           /\ patches' = patches + 1

(* A concurrency field: the value is in the config whatever happens next.     *)
(* (A bug: only the field that was sent is passed on to the limiter.)         *)
PatchOne(s, v) ==
  /\ Counted
  /\ config' = [config EXCEPT ![s] = v]
  /\ UpdateLimits([limits EXCEPT ![s] = v])
  /\ UNCHANGED <<queue, at, mine>>
PatchLimit(s, v) ==
  /\ Counted
  /\ config' = [config EXCEPT ![s] = v]
  /\ UpdateLimits(config')
  /\ UNCHANGED <<queue, at, mine>>

(* hardware_profile: the cascade writes the four fields; the field itself is  *)
(* not a limit, so the limiter is not told.                                   *)
PatchProfile(p) ==
  /\ Counted
  /\ config' = p
  /\ answer' = "next run"
  /\ UNCHANGED <<semaphores, limits, current, at, mine, broken>>

(* An unknown field, a value of another type, a destructive field without     *)
(* confirm: refused before anything is changed.                               *)
PatchRefused ==
  /\ Counted
  /\ answer' = "refused"
  /\ UNCHANGED <<semaphores, config, limits, current, at, mine, broken>>

Patch == \/ \E s \in Slots, v \in Values : PatchLimit(s, v)
         \/ \E p \in Profiles : PatchProfile(p)
         \/ PatchRefused

Next == (\E t \in Tasks : TaskStep(t)) \/ Patch

Spec == Init /\ [][Next]_vars
FairSpec == Spec /\ \A t \in Tasks : WF_vars(TaskStep(t))

-------------------------------------------------------------------------------
Holders(m) ==
  {t \in Tasks : /\ RoleSlot[t] # "unknown"
                 /\ \/ at[t] = "inside" /\ m \in {RoleOf(t), TotalOf(t)}
                    \/ at[t] \in {"hasTotal", "forRole"} /\ m = TotalOf(t)}

(* However often the semaphores are replaced, the slots of each of them add   *)
(* up to the limit it was made with: nobody gives back a slot of another one  *)
(* (update_limits: "no risk of under-release").                               *)
SlotsPerReload ==
  \A m \in Semaphores : free[m] + Cardinality(Holders(m)) = cap[m]

(* A task's two semaphores were made by the same request, so that its slots   *)
(* are those of one configuration, unless that request broke off between them *)
(* (limit(): sem_map and self._total; update_limits: one after the other).    *)
PairsOfOneReload ==
  \A t \in Tasks : at[t] # "new" /\ RoleSlot[t] # "unknown" =>
    mine[t].role = mine[t].total \/ mine[t].role \in broken

(* "Applied immediately" is true: the limiter's record, the semaphores in     *)
(* place and the config are the same for all four limits, including what      *)
(* earlier requests left undone (routes.py: patch_config).                    *)
AppliedIsApplied ==
  answer = "applied" =>
    \A s \in Slots : config[s] = limits[s] /\ limits[s] = cap[<<s, current[s]>>]

(* Everybody gets through, those that wait for a replaced semaphore too       *)
(* (update_limits: "drain naturally as holders exit").                        *)
AllGetThrough == \A t \in Tasks : <>(at[t] = "done")
===============================================================================
