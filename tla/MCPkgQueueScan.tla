--------------------------- MODULE MCPkgQueueScan ---------------------------
(* Three packages: one built in stages 1 and 9, one in stages 0 and 5, and  *)
(* t2-debug in stage 9.                                                     *)
EXTENDS PkgQueueScan

MCStages == <<{1, 9}, {0, 5}, {9}>>
=============================================================================
