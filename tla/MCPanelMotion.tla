---------------------------- MODULE MCPanelMotion ----------------------------
(* A small instance of PanelMotion. *)
EXTENDS PanelMotion, TLC

\* Three positions; the panel stows at one end and starts at the other one.
MCSettings == {[period |-> 4, min |-> 1, max |-> 3, step |-> 1]}
MCPositions == {0, 4}
MCStart == Azimuth :> 0 @@ Altitude :> 0
MCReverse == Azimuth :> FALSE @@ Altitude :> TRUE
=============================================================================
