------------------------------- MODULE Limits -------------------------------
(***************************************************************************)
(* The size of a page: a default, and a cap that clamps rather than        *)
(* rejects.                                                                *)
(***************************************************************************)
EXTENDS Integers

CONSTANTS DefaultLimit, MaxLimit

ASSUME LimitsAssumption ==
  /\ MaxLimit \in Nat
  /\ DefaultLimit \in 1 .. MaxLimit

\* Bug: the cap is forgotten.
CapLimitNoCap(requested) == IF requested = 0 THEN DefaultLimit ELSE requested

\* Absent and zero fall back to the default, anything too large is capped.
CapLimit(requested) ==
  IF requested = 0 THEN DefaultLimit
  ELSE IF requested > MaxLimit THEN MaxLimit
  ELSE requested

=============================================================================
