---------------------------- MODULE MCReviewLoop ----------------------------
(***************************************************************************)
(* A small instance of ReviewLoop: a task and one that depends on it, and  *)
(* names it twice (nothing forbids that), so that two polls can differ.    *)
(***************************************************************************)
EXTENDS ReviewLoop

Deps2 == << <<>>, <<1, 1>> >>
=============================================================================
