-------------------------- MODULE MCEmergencyMeeting --------------------------
(***************************************************************************)
(* Small instances of EmergencyMeeting: a meeting of two voters, and one   *)
(* of a third whose weight is greater, at the same time or one after the   *)
(* other.                                                                  *)
(***************************************************************************)
EXTENDS EmergencyMeeting

CONSTANTS backend, frontend, mlops

TwoBlocked == << [owner |-> backend, source |-> frontend, expert |-> backend],
                 [owner |-> mlops, source |-> NoOne, expert |-> NoOne] >>
Weights == [v \in {backend, frontend, mlops} |-> IF v = mlops THEN 2 ELSE 1]
===============================================================================
