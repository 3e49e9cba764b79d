---------------------------- MODULE MCTaskPipeline ----------------------------
(***************************************************************************)
(* Small instances of TaskPipeline: every plan of three tasks, and chosen  *)
(* plans of four, under the limits of the hardware profiles.               *)
(***************************************************************************)
EXTENDS TaskPipeline

(* Dependency lists over the earlier tasks, without repetition.            *)
DepLists(t) ==
  LET Before == 1 .. (t - 1) IN
  {l \in UNION {[1 .. k -> Before] : k \in 0 .. (t - 1)} :
     \A i, j \in DOMAIN l : i # j => l[i] # l[j]}

(* backend and frontend share one semaphore: one of them stands for both.  *)
MCRoles == {"backend", "mlops"}

AllPlans ==
  {p \in [role : [Task -> MCRoles],
          deps : [Task -> UNION {DepLists(t) : t \in Task}]] :
     \A t \in Task : p.deps[t] \in DepLists(t)}

(* Three tasks of one role, and two roles, with every dependency graph.    *)
PlansContended ==
  {p \in AllPlans : p.role \in {<<"mlops", "mlops", "mlops">>, <<"backend", "mlops", "backend">>}}

(* Four tasks: a chain, a diamond, two chains, and a fan-out.              *)
Shapes4 == {<< <<>>, <<1>>, <<2>>, <<3>> >>, << <<>>, <<1>>, <<1>>, <<3, 2>> >>,
            << <<>>, <<>>, <<1>>, <<2>> >>, << <<>>, <<1>>, <<1>>, <<1>> >>}
Plans4 == [role : {<<"backend", "frontend", "mlops", "backend">>,
                   <<"mlops", "mlops", "backend", "mlops">>},
           deps : Shapes4]

(* Limits of the MacMini (default) and Desktop RTX profiles.               *)
CapDefault == [total |-> 2, slm |-> 1, mlops |-> 1]
CapDesktop == [total |-> 3, slm |-> 2, mlops |-> 1]
===============================================================================
