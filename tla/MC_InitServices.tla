-------------------------- MODULE MC_InitServices --------------------------
(* Two services: c, critical and started at boot, and o, a disabled        *)
(* oneshot started only by ctl.start.  Four pids: one per service and one  *)
(* per control message, so fork never runs out of pids.  Seconds scaled:  *)
(* the cfgs use a restart delay of 1, a crash window of 3 and a threshold  *)
(* of 2, so that three crashes fit in one window and can also straddle two.*)
EXTENDS InitServices

CONSTANTS c, o

MC_Svc == {c, o}
MC_Pids == 1..4
=============================================================================
