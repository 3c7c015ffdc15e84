------------------------------ MODULE MCFacade ------------------------------
(* Small instances of Facade for TLC. *)
EXTENDS Facade, TLC

\* The runs are interchangeable (used by safety runs only).
Symmetry == Permutations(Runs)

\* A good result with a session id, one without, or cancelled without.
TwoResults  == {[status |-> "completed", session |-> TRUE],
                [status |-> "aborted", session |-> FALSE]}
OneResult   == {[status |-> "completed", session |-> TRUE]}
PlainResult == {[status |-> "completed", session |-> FALSE]}

\* The events a bounded run can record.
BoundedEvents ==
  [seq : 0..(MaxMessages + 1), kind : {"message", "error", "result"}, item : 0..MaxMessages,
   status : Terminal \cup {""}, session : BOOLEAN]

\* The facade keeps the API's promises: row is the status GetRun reports, log the
\* timeline, and what the reader has plus what waits for it is the stream.
Lifecycle == INSTANCE RunLifecycle WITH
  Events <- BoundedEvents, status <- row, timeline <- log,
  stream <- [r \in Runs |-> Stream(r)], over <- closed

KeepsRunLifecycle == Lifecycle!Spec
=============================================================================
