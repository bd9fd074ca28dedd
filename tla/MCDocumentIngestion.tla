------------------------ MODULE MCDocumentIngestion ------------------------
(* Instances of DocumentIngestion for TLC. *)
EXTENDS DocumentIngestion, TLC

WorkerSymmetry == Permutations(Workers)
=============================================================================
