---------------------------- MODULE MCTrayStatus ----------------------------
(* The vegan chef and two customers of its tray; the other tray is idle.   *)
EXTENDS TrayStatus

MCTrayOf == [p \in Procs |-> VEGAN]
====
