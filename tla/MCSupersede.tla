----------------------------- MODULE MCSupersede -----------------------------
(* Instances of Supersede for TLC: the names of two pull requests and of two *)
(* commits that each branch can point at.                                    *)
EXTENDS Supersede

CONSTANTS q1, q2, c1, c2
=============================================================================
