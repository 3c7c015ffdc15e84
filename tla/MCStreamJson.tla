---------------------------- MODULE MCStreamJson ----------------------------
(* Small instances of StreamJson for TLC. *)
EXTENDS StreamJson

\* Every one of the six adapters keeps the contract of adapter.Session.
Session == INSTANCE AdapterSession WITH Outcomes <- Results

KeepsSessionContract == Session!Spec
=============================================================================
