------------------------- MODULE MCOneTimeArtifact -------------------------
(* Instance of OneTimeArtifact for TLC. *)
EXTENDS OneTimeArtifact
=============================================================================
