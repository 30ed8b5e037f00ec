---------------------------- MODULE StowDecision ----------------------------
(***************************************************************************)
(* What panelIsStowed ("Overall stow status" in trackerDemo.c) promises    *)
(* although the monitor thread reads its sources one after the other,      *)
(* while other threads write them: a decision never contradicts a source   *)
(* that kept its value since the decision before.  The panel is stowed     *)
(* only if a source was on at some moment in between, and is not stowed    *)
(* only if every source was off at some moment in between.                 *)
(***************************************************************************)
EXTENDS Naturals

CONSTANT AllSources

VARIABLES
  on,        \* the sources that ask for the panel to be stowed
  beenOn,    \* the sources that were on at some moment since the decision
  beenOff,   \* the sources that were off at some moment since the decision
  stowed,    \* the decision
  round      \* alternates with every decision, also one that changes nothing

decisionVars == <<on, beenOn, beenOff, stowed, round>>

Init ==
  /\ on = {}
  /\ beenOn = {}
  /\ beenOff = AllSources
  /\ stowed = FALSE
  /\ round = 0

\* One source changes its mind.
Change(s) ==
  /\ on' = IF s \in on THEN on \ {s} ELSE on \cup {s}
  /\ beenOn' = beenOn \cup on'
  /\ beenOff' = beenOff \cup (AllSources \ on')
  /\ UNCHANGED <<stowed, round>>

Decide ==
  /\ round' = 1 - round
  /\ stowed' \in BOOLEAN
  /\ stowed' => beenOn # {}
  /\ ~stowed' => beenOff = AllSources
  /\ beenOn' = on
  /\ beenOff' = AllSources \ on
  /\ UNCHANGED on

Next == Decide \/ \E s \in AllSources : Change(s)

Spec == Init /\ [][Next]_decisionVars
=============================================================================
