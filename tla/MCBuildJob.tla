----------------------------- MODULE MCBuildJob -----------------------------
(* Two daemons and two jobs, each offered up to twice.                      *)
EXTENDS BuildJob

CONSTANTS d1, d2
TwoDaemons == {d1, d2}
=============================================================================
