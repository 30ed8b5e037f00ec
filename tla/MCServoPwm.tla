----------------------------- MODULE MCServoPwm -----------------------------
(* Small instances of ServoPwm. *)
EXTENDS ServoPwm

\* Three accepted ranges, no two alike, with periods shorter than another's
\* duty cycles, and one that PWM_init rejects because max exceeds the period.
MCSettings == {
  [period |-> 4, min |-> 1, max |-> 3, step |-> 1],
  [period |-> 2, min |-> 0, max |-> 2, step |-> 2],
  [period |-> 5, min |-> 3, max |-> 5, step |-> 1],
  [period |-> 2, min |-> 1, max |-> 3, step |-> 1] }

\* Below every range, inside them, above them.
MCPositions == {-1, 2, 6}
=============================================================================
