------------------------------ MODULE MCLearning ------------------------------
(***************************************************************************)
(* Small instance of Learning: a task of an agent, a review of its work by *)
(* another agent, and a meeting that weighs its vote and counts that it    *)
(* took part; two results on one level.                                    *)
(***************************************************************************)
EXTENDS Learning

Author == "backend"
Reviewer == "mlops"
AllKeys == {Author, Reviewer, "api"}
AllOps == {"task", "review", "meeting"}
AllSamples == AllOps \union {"result1", "result2"}

AllVisits ==
  [task    |-> <<[agent |-> Author, use |-> "task"]>>,
   review  |-> <<[agent |-> Reviewer, use |-> "count"], [agent |-> Author, use |-> "count"]>>,
   meeting |-> <<[agent |-> Author, use |-> "weigh"], [agent |-> Author, use |-> "count"]>>]
TwoResults == <<"result1", "result2">>
OneLevel == <<"api", "api">>
===============================================================================
