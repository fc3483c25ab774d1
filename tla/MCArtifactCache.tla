-------------------------- MODULE MCArtifactCache --------------------------
(* A small instance of ArtifactCache for TLC.                              *)
EXTENDS ArtifactCache

=============================================================================
