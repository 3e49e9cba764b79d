---------------------------- MODULE MCDashboardFeed ----------------------------
(***************************************************************************)
(* Small instances of DashboardFeed.                                       *)
(***************************************************************************)
EXTENDS DashboardFeed

CONSTANTS u1, u2
TwoClients == {u1, u2}
OneReconnects == [u \in TwoClients |-> IF u = u1 THEN 2 ELSE 1]
===============================================================================
