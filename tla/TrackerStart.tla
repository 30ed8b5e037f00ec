---------------------------- MODULE TrackerStart ----------------------------
(***************************************************************************)
(* The program and its service: main reads the configuration file, each    *)
(* thread then pauses after a round for what is left of its period, and    *)
(* systemd starts the program again when it has failed.  A duration is a   *)
(* number of Word, as usleep takes it.                                     *)
(***************************************************************************)
EXTENDS Configuration

CONSTANTS
  Steady,      \* the loops that do not subtract the time of the round: the monitor
  Durations,   \* how long a round may take
  Word         \* 2^32: durations are unsigned

ASSUME StartAssumption ==
  /\ Steady \subseteq Loops
  /\ Word \in Nat \ {0}
  /\ Durations \cup Periods \subseteq 0 .. Word - 1

VARIABLES
  unit,       \* the service: "starting", "reading", "running", "failed", "stopped"
  readable,   \* the configuration file can be opened
  took,       \* of each loop: the time of its last round
  pause       \* of each loop: its last pause; not there before

startVars == <<configurationVars, unit, readable, took, pause>>

Init ==
  /\ settings = NoSettings /\ file = <<>>
  /\ unit = "starting"
  /\ readable \in BOOLEAN
  /\ took = [l \in Loops |-> 0] /\ pause = <<>>

\* Without the file main ends with exit(0), which is no failure.
Main ==
  /\ unit = "starting"
  /\ unit' = IF readable THEN "reading" ELSE "stopped"
  /\ UNCHANGED <<configurationVars, readable, took, pause>>

Read ==
  /\ unit = "reading"
  /\ \E line \in Lines : ReadLine(line)
  /\ UNCHANGED <<unit, readable, took, pause>>

EndOfFile ==
  /\ unit = "reading"
  /\ unit' = "running"
  /\ UNCHANGED <<configurationVars, readable, took, pause>>

\* usleep: in unsigned arithmetic, what is left of the period.
Rest(l, duration) ==
  IF l \in Steady THEN settings.period[l]
  ELSE (Word + settings.period[l] - duration) % Word

Round(l, duration) ==
  /\ unit = "running" /\ l \notin DOMAIN pause
  /\ took' = [took EXCEPT ![l] = duration]
  /\ pause' = [k \in DOMAIN pause \cup {l} |-> IF k = l THEN Rest(l, duration) ELSE pause[k]]
  /\ UNCHANGED <<configurationVars, unit, readable>>

\* usleep returns.
Wake(l) ==
  /\ unit = "running" /\ l \in DOMAIN pause
  /\ pause' = [k \in DOMAIN pause \ {l} |-> pause[k]]
  /\ UNCHANGED <<configurationVars, unit, readable, took>>

\* exit(1), or a signal.
Fail ==
  /\ unit \in {"reading", "running"}
  /\ unit' = "failed"
  /\ UNCHANGED <<configurationVars, readable, took, pause>>

\* Restart=on-failure: a new process, and the file may be another one.
Restart ==
  /\ unit = "failed"
  /\ unit' = "starting"
  /\ settings' = NoSettings /\ file' = <<>>
  /\ took' = [l \in Loops |-> 0] /\ pause' = <<>>
  /\ UNCHANGED readable

\* The file is removed, or put back, while the program does not read it.
FileChanges ==
  /\ unit # "reading"
  /\ readable' = ~readable
  /\ UNCHANGED <<configurationVars, unit, took, pause>>

Next ==
  \/ Main \/ Read \/ EndOfFile
  \/ \E l \in Loops : Wake(l) \/ \E duration \in Durations : Round(l, duration)
  \/ Fail \/ Restart \/ FileChanges

Spec == Init /\ [][Next]_startVars

-----------------------------------------------------------------------------
\* "Sleep until it's time for the next report": a pause ends when the period of its loop ends,
\* and a round that has taken longer is followed by none (main's and the report thread's
\* usleep).  It does not hold: the unsigned difference wraps.
PauseEndsWhenDue ==
  \A l \in DOMAIN pause \ Steady :
    Plain /\ 0 < settings.period[l] /\ 0 < pause[l] => took[l] + pause[l] <= settings.period[l]
=============================================================================
