--------------------------- MODULE MCImportStore ----------------------------
(* ImportStore for TLC: the first two of the app's versions package the same *)
(* library, and a rebuild goes to the next version or back to the last one.  *)
EXTENDS ImportStore

MCLibOf == [v \in Version |-> IF v = 1 THEN 1 ELSE v - 1]
MCRebuild == [v \in Version |-> {v - 1, v + 1} \cap Version]
=============================================================================
