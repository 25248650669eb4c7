------------------------------ MODULE MCSvlogd ------------------------------
(* svlogd for TLC: three configurations that svlogd may find when it opens *)
(* the directory, at the start and after each HUP.                         *)
EXTENDS Svlogd

Cfg(sizemax, processor, tmax, inst, udp) ==
  [sizemax |-> sizemax, processor |-> processor, tmax |-> tmax, inst |-> inst, udp |-> udp]

LogConfigs ==
  {Cfg(3, TRUE, FALSE, FALSE, "no"), Cfg(1, FALSE, TRUE, TRUE, "u"), Cfg(0, TRUE, TRUE, FALSE, "no")}
=============================================================================
