---------------------------- MODULE MCMysqlFlavour ----------------------------
(* Two schema engines against one server: enough for one to hold the       *)
(* advisory lock while the other waits on it.                              *)
EXTENDS MysqlFlavour

CONSTANTS E1, E2

MCEngines == {E1, E2}
===============================================================================
