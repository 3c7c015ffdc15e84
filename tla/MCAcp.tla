-------------------------------- MODULE MCAcp --------------------------------
(* Small instances of Acp for TLC. *)
EXTENDS Acp

\* The ACP adapter keeps the contract of adapter.Session.
Session == INSTANCE AdapterSession WITH Outcomes <- Results

KeepsSessionContract == Session!Spec
=============================================================================
