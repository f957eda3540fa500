-------------------------- MODULE GracefulService --------------------------
(***************************************************************************)
(* What a process promises those who call it and those who operate it,     *)
(* without its goroutines, its channel, its pool or its database: it lets  *)
(* requests in while its gate is open, and opens it once.  It may report   *)
(* success only when the gate is shut and everyone who was let in has been *)
(* served to the end; only a process that reports a failure drops anybody. *)
(* What it reports, it reports once.                                       *)
(***************************************************************************)
CONSTANTS
  Requests

VARIABLES
  gate,      \* "new", then "open", then "shut"
  inside,    \* requests that were let in and are being handled
  served,    \* requests whose handler came to its end
  dropped,   \* requests that were let in and will never be served
  outcome    \* what the process reports, "none" so far

service == <<gate, inside, served, dropped, outcome>>

Init ==
  /\ gate = "new"
  /\ inside = {}
  /\ served = {}
  /\ dropped = {}
  /\ outcome = "none"

Open ==
  /\ gate = "new"
  /\ gate' = "open"
  /\ UNCHANGED <<inside, served, dropped, outcome>>

LetIn(r) ==
  /\ gate = "open"
  /\ r \notin inside \cup served \cup dropped
  /\ inside' = inside \cup {r}
  /\ UNCHANGED <<gate, served, dropped, outcome>>

Serve(r) ==
  /\ r \in inside
  /\ inside' = inside \ {r}
  /\ served' = served \cup {r}
  /\ UNCHANGED <<gate, dropped, outcome>>

Shut ==
  /\ gate' = "shut"
  /\ UNCHANGED <<inside, served, dropped, outcome>>

Succeed ==
  /\ outcome = "none"
  /\ gate = "shut"
  /\ inside = {}
  /\ outcome' = "ok"
  /\ UNCHANGED <<gate, inside, served, dropped>>

Fail ==
  /\ outcome = "none"
  /\ outcome' = "error"
  /\ gate' = "shut"
  /\ UNCHANGED <<inside, served, dropped>>

Drop ==
  /\ outcome = "error"
  /\ inside' = {}
  /\ dropped' = dropped \cup inside
  /\ UNCHANGED <<gate, served, outcome>>

Next ==
  \/ Open \/ Shut \/ Succeed \/ Fail \/ Drop
  \/ \E r \in Requests : LetIn(r) \/ Serve(r)

Spec == Init /\ [][Next]_service

=============================================================================
