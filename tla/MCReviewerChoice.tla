---------------------------- MODULE MCReviewerChoice ----------------------------
(***************************************************************************)
(* Small instance of ReviewerChoice: four completed tasks, three of them   *)
(* by one role, one built on the work of both others, one on another's.    *)
(***************************************************************************)
EXTENDS ReviewerChoice

FourReviews == 1 .. 4
Authors == <<"backend", "backend", "backend", "frontend">>
DirectSources == <<{}, {"backend"}, {"frontend"}, {"backend", "mlops"}>>
===============================================================================
