---------------------------- MODULE MCStowReport ----------------------------
(* Small instances of StowControl and StowReport. *)
EXTENDS StowReport

CONSTANTS WebApp, RulesEngine

Pair(s, v) == [key |-> s, value |-> v]

\* A command, a value that is none, a withdrawal, and two messages that hand the stow over from
\* one application to the other, in both orders.
MCMessages == {
  <<Pair(WebApp, 1)>>,
  <<Pair(WebApp, 2)>>,
  <<Pair(RulesEngine, 0)>>,
  <<Pair(RulesEngine, 1), Pair(WebApp, 0)>>,
  <<Pair(WebApp, 0), Pair(RulesEngine, 1)>> }
=============================================================================
