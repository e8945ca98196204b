--------------------------- MODULE MCBuildTarget ---------------------------
(* MCStages: three packages, the last one t2-debug.  ThreeJobs: for three    *)
(* runs with a crash, kills and -job.  FewStages: two packages and four      *)
(* jobs, for the runs that find violations.                                  *)
EXTENDS BuildTarget

MCStages == <<{1, 9}, {0, 5, 9}, {9}>>
FewStages == <<{1, 9}, {5, 9}>>
ThreeJobs == <<{1, 9}, {5}>>
=============================================================================
