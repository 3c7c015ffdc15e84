------------------------------ MODULE MCCodex -------------------------------
(* Small instances of Codex for TLC. *)
EXTENDS Codex

\* The codex session keeps the contract of adapter.Session.
Session == INSTANCE AdapterSession WITH Outcomes <- Results

KeepsSessionContract == Session!Spec
=============================================================================
