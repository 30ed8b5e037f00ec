----------------------------- MODULE StowReport -----------------------------
(***************************************************************************)
(* The stow message of the report thread, {"cl_stow_status",               *)
(* "cl_stow_button_status"}, put together from panelIsStowed and           *)
(* stowButtonIsPressed without a lock while StowControl goes on.  The      *)
(* arguments of the snprintf are read in any order.                        *)
(***************************************************************************)
EXTENDS StowControl

VARIABLE status  \* the message it puts together: the fields it has read

Fields == {"stowed", "pressed"}

Field == [stowed |-> panelIsStowed, pressed |-> stowButtonIsPressed]

ReportInit == StowInit /\ status = <<>>

-----------------------------------------------------------------------------
ReadField(f) ==
  /\ f \notin DOMAIN status
  /\ status' = [g \in DOMAIN status \cup {f} |-> IF g = f THEN Field[f] ELSE status[g]]

\* Mutant: one of the fields is kept for the next message.
PublishKeeps ==
  /\ DOMAIN status = Fields
  /\ status' = [f \in {"stowed"} |-> status[f]]

\* The result of MQTT_publish is ignored; then the thread sleeps.
PublishStatus ==
  /\ DOMAIN status = Fields
  /\ status' = <<>>

Report == (\E f \in Fields : ReadField(f)) \/ PublishStatus

ReportNext ==
  \/ Report /\ UNCHANGED stowVars
  \/ StowNext /\ UNCHANGED status

\* Both threads are scheduled.
ReportSpec ==
  /\ ReportInit
  /\ [][ReportNext]_<<stowVars, status>>
  /\ WF_<<stowVars, status>>(Monitor /\ UNCHANGED status)
  /\ WF_<<stowVars, status>>(Report /\ UNCHANGED stowVars)

-----------------------------------------------------------------------------
\* A status that lasts is in the end what every message tells the broker, although the fields
\* are read without a lock and each message may mix two moments.
StatusIsReported ==
  \A f \in Fields, b \in BOOLEAN :
    <>[](Field[f] = b) => <>[](f \in DOMAIN status => status[f] = b)
=============================================================================
