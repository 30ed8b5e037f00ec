--------------------------- MODULE MCLightSensors ---------------------------
(* Small instances of LightSensors. *)
EXTENDS LightSensors, TLC

\* Two corners on the left that share an input, one on the right with its own, and an element
\* that no corner has.
MCInput == "leftTop" :> 0 @@ "leftBottom" :> 0 @@ "rightTop" :> 1
MCScalar == 0 :> 2 @@ 1 :> 4 @@ 2 :> 3
MCOffset == 0 :> 0 @@ 1 :> 1 @@ 2 :> 1
=============================================================================
