------------------------------ MODULE MCDownload ------------------------------
(* Two commands for a package, and what its [D] lines may be.              *)
EXTENDS Download

CONSTANTS p1, p2
TwoProcs == {p1, p2}
OneFile == {1}
AllFiles == {1, 2}
NoFile == {}
=============================================================================
