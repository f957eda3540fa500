------------------------- MODULE MCServerLifecycle -------------------------
(***************************************************************************)
(* A process with fewer connections than requests.                         *)
(***************************************************************************)
EXTENDS ServerLifecycle

CONSTANTS p1, p2, c1

MCPages  == {p1, p2}
MCChecks == {c1}

=============================================================================
