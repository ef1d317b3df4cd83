------------------------------ MODULE MCIngest ------------------------------
(* Small instances of Ingest.  Document ids are interchangeable. *)
EXTENDS Ingest, TLC

AnyDoc == Permutations(Docs)
=============================================================================
