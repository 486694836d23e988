--------------------------- MODULE MCConfigStore ---------------------------
(* An instance of ConfigStore for TLC: what the two tables hold at first.  *)
EXTENDS ConfigStore

CONSTANTS n1, f1, p1

\* Both folders are registered, and one of the configs.
MCFolders == {[f \in Folder |-> p1]}

MCConfigs ==
  {[n \in Name |-> IF n = n1 THEN [folder |-> f1, works |-> TRUE] ELSE None]}
=============================================================================
