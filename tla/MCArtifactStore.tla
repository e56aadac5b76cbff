--------------------------- MODULE MCArtifactStore ---------------------------
(* Instances of ArtifactStore for TLC: two pods and up to two HTTP threads.  *)
EXTENDS ArtifactStore

CONSTANTS A, B, w1, w2
=============================================================================
