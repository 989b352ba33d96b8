-------------------------- MODULE MC_ArtifactTransfer --------------------------
(* Transfers of one artifact for ArtifactTransfer. *)
EXTENDS ArtifactTransfer
CONSTANT a

Asked == [t \in Transfers |-> a]
================================================================================
