--------------------------- MODULE MCCpuUsageTimer ---------------------------
(***************************************************************************)
(* Three cpus, so that the line of one moves when the one between goes     *)
(* offline, and a bound on the ticks of all cpus together.  Three ticks    *)
(* let the cpu whose line is taken be ahead of the one it is compared with *)
(* by more idle ticks than ticks: one has been busy for a tick, the other  *)
(* idle for two.                                                           *)
(***************************************************************************)
EXTENDS CpuUsageTimer

CONSTANT MaxSum     \* bound: ticks of all cpus

MCSpec == Init /\ [][Next /\ Sum(total)' <= MaxSum]_vars /\ Fairness
=============================================================================
