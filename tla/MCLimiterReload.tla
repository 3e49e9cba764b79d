---------------------------- MODULE MCLimiterReload ----------------------------
(***************************************************************************)
(* Small instances of LimiterReload: three tasks of two roles and one of   *)
(* an unknown role, the default limits, and two requests.                  *)
(***************************************************************************)
EXTENDS LimiterReload

CONSTANTS b1, b2, m1, x1

FourTasks == {b1, b2, m1, x1}
RoleSlots == [t \in FourTasks |-> CASE t = m1 -> "mlops" [] t = x1 -> "unknown"
                                    [] OTHER -> "slm"]
Limits(cto, slm, mlops, total) ==
  [s \in Slots |-> CASE s = "cto" -> cto [] s = "slm" -> slm
                     [] s = "mlops" -> mlops [] OTHER -> total]
MacMini == Limits(1, 1, 1, 2)
DesktopRtx == {Limits(1, 2, 1, 3)}
===============================================================================
