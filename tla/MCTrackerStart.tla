--------------------------- MODULE MCTrackerStart ---------------------------
(* Small instances of TrackerStart. *)
EXTENDS TrackerStart

PlainLine(key, value) ==
  [key |-> key, value |-> value, words |-> 0, torn |-> FALSE, commented |-> FALSE]

MCSensors == {"LEFT_TOP", "RIGHT_TOP"}
MCHostNames == {<<1>>, <<2, 2>>}
MainPeriod == PlainLine(PeriodKey("PWM_UPDATE_RATE_SECONDS"), 3)

MCLines ==
  {PlainLine(InputKey(s), i) : s \in MCSensors, i \in {0, 1}}
    \cup {PlainLine(ScalarKey(s), v) : s \in MCSensors, v \in {1, 2}}
    \cup {PlainLine(PeriodKey("STOW_MONITOR_RATE_SECS"), 2)}
    \cup {MainPeriod, [MainPeriod EXCEPT !.value = 2, !.words = 2]}
    \cup {PlainLine(HostKey, h) : h \in MCHostNames}
    \cup {[MainPeriod EXCEPT !.words = 3],          \* one token too many
          [MainPeriod EXCEPT !.torn = TRUE],
          [MainPeriod EXCEPT !.commented = TRUE],
          [MainPeriod EXCEPT !.value = Missing, !.words = 1],
          PlainLine(MappingKey("RIGHT_TOP"), 1),
          PlainLine(UnknownKey, 0),
          [PlainLine(NoKey, Missing) EXCEPT !.words = 2]}
=============================================================================
