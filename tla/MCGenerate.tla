------------------------------ MODULE MCGenerate ------------------------------
(* Instances of Generate for TLC. *)
EXTENDS Generate
CONSTANTS r1, r2
TwoRequests == {r1, r2}
=============================================================================
