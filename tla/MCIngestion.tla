----------------------------- MODULE MCIngestion -----------------------------
(* Instances of Ingestion for TLC.                                          *)
EXTENDS IngestionProperties, TLC

\* Requests and messages are interchangeable; used only in safety runs.
Symmetry == Permutations(Request) \cup Permutations(Message)
=============================================================================
