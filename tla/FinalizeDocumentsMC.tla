-------------------------- MODULE FinalizeDocumentsMC --------------------------
(* FinalizeDocuments has no constant but its bound; the instance for TLC. *)
EXTENDS FinalizeDocuments
===============================================================================
