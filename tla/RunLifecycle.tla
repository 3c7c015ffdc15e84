---------------------------- MODULE RunLifecycle ----------------------------
(***************************************************************************)
(* What the HTTP API promises about a run, whatever happens inside: a      *)
(* status kept in the store, a stored timeline of events, and a live       *)
(* stream that shows a part of that timeline, in order, and then closes.   *)
(* It follows the comments of RunHandle, StartRun, forwardEvents and GetRun*)
(* in internal/facade/facade.go for a store that does not fail.            *)
(***************************************************************************)
EXTENDS Integers, Sequences

CONSTANTS Runs, Events

VARIABLES
  status,   \* what GetRun reports: "absent", "pending" or a final status
  timeline, \* the events GetRun replays
  stream,   \* the events the live stream has carried
  over      \* runs whose stream is closed

vars == <<status, timeline, stream, over>>

Final == {"completed", "failed", "cancelled", "timeout"}

Last(s)     == s[Len(s)]
HasResult(r) == timeline[r] # <<>> /\ Last(timeline[r]).kind = "result"

\* Where in the timeline the stream has got to.
Shown(r) == IF stream[r] = <<>> THEN 0 ELSE Last(stream[r]).seq + 1

Init ==
  /\ status = [r \in Runs |-> "absent"]
  /\ timeline = [r \in Runs |-> <<>>]
  /\ stream = [r \in Runs |-> <<>>]
  /\ over = {}

Create(r) ==
  /\ status[r] = "absent"
  /\ status' = [status EXCEPT ![r] = "pending"]
  /\ UNCHANGED <<timeline, stream, over>>

\* The request never got as far as a session.
Refuse(r) ==
  /\ status[r] = "pending" /\ timeline[r] = <<>>
  /\ status' = [status EXCEPT ![r] = "failed"]
  /\ UNCHANGED <<timeline, stream, over>>

\* The next event is stored under the next sequence number; the result is the last.
Record(r) ==
  /\ status[r] = "pending" /\ ~HasResult(r)
  /\ \E e \in Events :
       /\ e.seq = Len(timeline[r])
       /\ timeline' = [timeline EXCEPT ![r] = Append(@, e)]
  /\ UNCHANGED <<status, stream, over>>

\* Events recorded since the last one shown may be skipped, never reordered.
Show(r) ==
  /\ r \notin over
  /\ timeline[r] # <<>> /\ Shown(r) < Len(timeline[r])
  /\ stream' = [stream EXCEPT ![r] = Append(@, Last(timeline[r]))]
  /\ UNCHANGED <<status, timeline, over>>

\* The status of the run is the one its result announced.
Settle(r) ==
  /\ status[r] = "pending" /\ HasResult(r)
  /\ status' = [status EXCEPT ![r] = Last(timeline[r]).status]
  /\ UNCHANGED <<timeline, stream, over>>

Close(r) ==
  /\ status[r] \in Final /\ HasResult(r) /\ r \notin over
  /\ over' = over \cup {r}
  /\ UNCHANGED <<status, timeline, stream>>

Next == \E r \in Runs :
  Create(r) \/ Refuse(r) \/ Record(r) \/ Show(r) \/ Settle(r) \/ Close(r)

Spec == Init /\ [][Next]_vars
=============================================================================
