----------------------------- MODULE MCBuildPkg -----------------------------
(* One package, built in stages 1 and 5: builds of different packages share *)
(* nothing that this module has as state.                                   *)
EXTENDS BuildPkg

MCStages == <<{1, 5}>>
=============================================================================
