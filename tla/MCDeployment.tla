---------------------------- MODULE MCDeployment ----------------------------
(***************************************************************************)
(* One server of each kind, and settings with one thing wrong at a time.   *)
(***************************************************************************)
EXTENDS Deployment

CONSTANTS name, k1, k2

MCGood ==
  [host |-> name, database |-> name, port |-> 1, min_conns |-> 0,
   max_conns |-> 1, key |-> k1, ttl |-> 1, shutdown_timeout |-> 1]

MCFiles ==
  {MCGood, [MCGood EXCEPT !.host = Empty], [MCGood EXCEPT !.min_conns = 2],
   [MCGood EXCEPT !.max_conns = 0], [MCGood EXCEPT !.port = 0],
   [MCGood EXCEPT !.key = Empty], [MCGood EXCEPT !.key = Missing],
   [MCGood EXCEPT !.ttl = 0], [MCGood EXCEPT !.ttl = Missing],
   [MCGood EXCEPT !.shutdown_timeout = Missing]}

MCEnvironments ==
  {<<>>, [n \in {"key"} |-> k2], [n \in {"key"} |-> Empty],
   [n \in {"ttl"} |-> -1], [n \in {"ttl"} |-> 2], [n \in {"ttl"} |-> Malformed],
   [n \in {"database"} |-> Empty], [n \in {"max_conns"} |-> 0]}

=============================================================================
