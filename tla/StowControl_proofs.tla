------------------------- MODULE StowControl_proofs -------------------------
(***************************************************************************)
(* Proofs about the stow logic, for every set of applications, every set   *)
(* of messages and every length of the debounce, also when the input       *)
(* cannot always be read.                                                  *)
(***************************************************************************)
EXTENDS StowControl, SequenceTheorems, TLAPS

\* While the debounce goes on its count is the number of equal samples.
DebounceInv ==
  /\ debouceInProgress => /\ changed
                          /\ stowDebounceCount = run
                          /\ run <= STOW_INPUT_DEBOUNCE
  /\ changed /\ ~debouceInProgress => stowButtonIsPressed = previousStowInput

\* Before its loop the thread has compared no samples.
StartInv == mpc = "start" => ~changed

\* The history knows the sources as they are, and the verdict is one that the
\* history supports for the sources read so far.
VerdictInv ==
  /\ On \subseteq beenOn
  /\ AllSources \ On \subseteq beenOff
  /\ mpc = "read" => /\ verdict => beenOn # {}
                     /\ ~verdict => AllSources \ unread \subseteq beenOff

StowIInv == StowTypeOK /\ DebounceInv /\ StartInv /\ VerdictInv

\* The sources that ask for a stow are sources.
LEMMA OnAreSources ==
  ASSUME StowTypeOK
  PROVE  On \subseteq AllSources
  BY DEF On, Commands, AllSources

\* The initial values of the monitor thread.
LEMMA StowInitially ==
  ASSUME StowInit
  PROVE  StowIInv
<1>1. On = {}
  BY DEF StowInit, On, Commands
<1>2. StowTypeOK
  <2>1. pending \in Seq([key : Sources, value : Int])
    BY DEF StowInit
  <2>2. stowCmd \in [Sources -> Int]
    BY DEF StowInit
  <2>3. run \in 0 .. STOW_INPUT_DEBOUNCE + 1 /\ stowDebounceCount \in 0 .. STOW_INPUT_DEBOUNCE
    BY StowAssumption DEF StowInit
  <2> QED
    BY <2>1, <2>2, <2>3 DEF StowInit, StowTypeOK
<1> QED
  BY <1>1, <1>2 DEF StowInit, StowIInv, DebounceInv, StartInv, VerdictInv

\* One sample: what Debounce does to the count, the button and the histories of
\* the input.
LEMMA DebounceStep ==
  ASSUME StowTypeOK, DebounceInv, NEW input \in BOOLEAN, Debounce(input)
  PROVE  /\ stowDebounceCount' \in 0 .. STOW_INPUT_DEBOUNCE
         /\ debouceInProgress' \in BOOLEAN /\ changed' \in BOOLEAN
         /\ stowButtonIsPressed' \in BOOLEAN /\ previousStowInput' \in BOOLEAN
         /\ run' \in 0 .. STOW_INPUT_DEBOUNCE + 1
         /\ DebounceInv'
         /\ stowButtonIsPressed' # stowButtonIsPressed => run' > STOW_INPUT_DEBOUNCE
<1> DEFINE differs == input # previousStowInput
           counting == differs \/ debouceInProgress
           count == IF differs THEN 0 ELSE stowDebounceCount
           done == counting /\ count >= STOW_INPUT_DEBOUNCE
<1>1. /\ stowDebounceCount' = IF counting /\ ~done THEN count + 1 ELSE count
      /\ debouceInProgress' = (counting /\ ~done)
      /\ stowButtonIsPressed' = IF done THEN input ELSE stowButtonIsPressed
      /\ previousStowInput' = input
      /\ run' = IF differs THEN 1
                ELSE IF run <= STOW_INPUT_DEBOUNCE THEN run + 1 ELSE run
      /\ changed' = (changed \/ differs)
  BY DEF Debounce, StartCount, AtLimit, Accepted
<1>2. STOW_INPUT_DEBOUNCE \in Nat
  BY StowAssumption
<1>3. CASE differs
  BY <1>1, <1>2, <1>3 DEF StowTypeOK, DebounceInv
<1>4. CASE ~differs /\ debouceInProgress
  <2>1. changed /\ stowDebounceCount = run /\ run <= STOW_INPUT_DEBOUNCE /\ run \in Nat
    BY <1>2, <1>4 DEF DebounceInv, StowTypeOK
  <2>2. /\ run' = run + 1 /\ changed' = TRUE
        /\ previousStowInput' = input /\ input = previousStowInput
    BY <1>1, <1>4, <2>1
  <2>3. CASE run < STOW_INPUT_DEBOUNCE
    <3>1. counting /\ ~done
      BY <1>2, <1>4, <2>1, <2>3
    <3>2. /\ stowDebounceCount' = run + 1 /\ debouceInProgress' = TRUE
          /\ stowButtonIsPressed' = stowButtonIsPressed
      BY <1>1, <1>4, <2>1, <3>1
    <3> QED
      BY <1>2, <2>1, <2>2, <2>3, <3>2 DEF StowTypeOK, DebounceInv
  <2>4. CASE run >= STOW_INPUT_DEBOUNCE
    <3>1. /\ stowDebounceCount' = run /\ debouceInProgress' = FALSE
          /\ stowButtonIsPressed' = input
      BY <1>1, <1>2, <1>4, <2>1, <2>4
    <3>2. DebounceInv'
      BY <2>2, <3>1 DEF DebounceInv
    <3>3. run' > STOW_INPUT_DEBOUNCE /\ run' \in 0 .. STOW_INPUT_DEBOUNCE + 1
      BY <1>2, <2>1, <2>2, <2>4
    <3>4. stowDebounceCount' \in 0 .. STOW_INPUT_DEBOUNCE
      BY <1>2, <2>1, <3>1
    <3> QED
      BY <2>2, <3>1, <3>2, <3>3, <3>4
  <2> QED
    BY <1>2, <2>1, <2>3, <2>4
<1>5. CASE ~differs /\ ~debouceInProgress
  BY <1>1, <1>2, <1>5 DEF StowTypeOK, DebounceInv
<1> HIDE DEF differs
<1> QED
  BY <1>3, <1>4, <1>5

\* A step that changes sources, and remembers them, keeps the history right.
LEMMA RememberStep ==
  ASSUME VerdictInv, Remember
  PROVE  /\ On' \subseteq beenOn' /\ AllSources' \ On' \subseteq beenOff'
         /\ beenOn \subseteq beenOn' /\ beenOff \subseteq beenOff'
  BY DEF Remember, VerdictInv, AllSources

\* Steps that leave the sources and their history alone.
LEMMA HistoryKept ==
  ASSUME VerdictInv, UNCHANGED <<stowCmd, stowButtonIsPressed, historyVars>>
  PROVE  On' = On /\ On' \subseteq beenOn' /\ AllSources' \ On' \subseteq beenOff'
  BY DEF VerdictInv, historyVars, On, Commands, AllSources

\* Steps that leave the debounce alone.
LEMMA DebounceKept ==
  ASSUME DebounceInv, UNCHANGED debounceVars
  PROVE  DebounceInv'
  BY DEF DebounceInv, debounceVars

-----------------------------------------------------------------------------
\* Type correctness, action by action.
LEMMA TypeStep ==
  ASSUME StowTypeOK, DebounceInv, [StowNext]_stowVars
  PROVE  StowTypeOK'
<1> USE DEF StowTypeOK
<1> DEFINE Pairs == Seq([key : Sources, value : Int])
<1>1. CASE FirstRead
  <2>1. previousStowInput' \in BOOLEAN
    BY <1>1 DEF FirstRead, Read
  <2>2. run' \in 0 .. STOW_INPUT_DEBOUNCE + 1
    BY <1>1, StowAssumption DEF FirstRead
  <2> QED
    BY <1>1, <2>1, <2>2 DEF FirstRead, messageVars, historyVars, AllSources
<1>2. CASE Sample
  <2>1. PICK input \in BOOLEAN : Debounce(input)
    BY <1>2 DEF Sample
  <2>2. /\ stowDebounceCount' \in 0 .. STOW_INPUT_DEBOUNCE
        /\ debouceInProgress' \in BOOLEAN /\ changed' \in BOOLEAN
        /\ stowButtonIsPressed' \in BOOLEAN /\ previousStowInput' \in BOOLEAN
        /\ run' \in 0 .. STOW_INPUT_DEBOUNCE + 1
    BY <2>1, DebounceStep
  <2>3. On' \subseteq AllSources
    BY DEF On, Commands, AllSources
  <2>4. beenOn' \subseteq AllSources' /\ beenOff' \subseteq AllSources'
    BY <1>2, <2>3 DEF Sample, Remember, AllSources
  <2> QED
    BY <1>2, <2>2, <2>4 DEF Sample, messageVars, Remember
<1>3. ASSUME NEW s \in Sources, ReadCommand(s)
      PROVE  StowTypeOK'
  <2>1. verdict' \in BOOLEAN
    BY <1>3 DEF ReadCommand
  <2> QED
    BY <1>3, <2>1 DEF ReadCommand, debounceVars, messageVars, historyVars, AllSources
<1>4. CASE WriteStatus
  <2>1. beenOn' \subseteq AllSources' /\ beenOff' \subseteq AllSources'
    BY <1>4, OnAreSources DEF WriteStatus, AllSources
  <2> QED
    BY <1>4, <2>1 DEF WriteStatus, debounceVars, messageVars
<1>5. CASE Receive
  <2>1. pending' \in Pairs
    BY <1>5, StowAssumption DEF Receive
  <2> QED
    BY <1>5, <2>1 DEF Receive, debounceVars, roundVars, historyVars, AllSources
<1>6. CASE StorePair
  <2>1. Head(pending) \in [key : Sources, value : Int] /\ Tail(pending) \in Pairs
    BY <1>6, HeadTailProperties DEF StorePair
  <2>2. stowCmd' \in [Sources -> Int] /\ pending' \in Pairs
    BY <1>6, <2>1 DEF StorePair
  <2>3. On' \subseteq AllSources
    BY DEF On, Commands, AllSources
  <2>4. beenOn' \subseteq AllSources' /\ beenOff' \subseteq AllSources'
    BY <1>6, <2>3 DEF StorePair, Remember, AllSources
  <2> QED
    BY <1>6, <2>2, <2>4 DEF StorePair, debounceVars, roundVars, Remember
<1>7. CASE MovePin
  BY <1>7 DEF MovePin, debounceVars, roundVars, messageVars, historyVars, AllSources
<1>8. CASE UNCHANGED stowVars
  BY <1>8 DEF stowVars, debounceVars, roundVars, messageVars, historyVars, AllSources
<1> QED
  BY <1>1, <1>2, <1>3, <1>4, <1>5, <1>6, <1>7, <1>8 DEF StowNext, Monitor

\* Only Sample touches the debounce once the thread has begun.
LEMMA DebounceInvStep ==
  ASSUME StowIInv, [StowNext]_stowVars
  PROVE  DebounceInv'
<1> USE DEF StowIInv
<1>1. CASE FirstRead
  BY <1>1 DEF FirstRead, DebounceInv, StartInv
<1>2. CASE Sample
  BY <1>2, DebounceStep DEF Sample
<1>3. ASSUME NEW s \in Sources, ReadCommand(s)
      PROVE  DebounceInv'
  BY <1>3, DebounceKept DEF ReadCommand
<1>4. CASE WriteStatus \/ Receive \/ StorePair \/ MovePin \/ UNCHANGED stowVars
  BY <1>4, DebounceKept
     DEF WriteStatus, Receive, StorePair, MovePin, stowVars
<1> QED
  BY <1>1, <1>2, <1>3, <1>4 DEF StowNext, Monitor

\* The loop is never left.
LEMMA StartInvStep ==
  ASSUME StowIInv, [StowNext]_stowVars
  PROVE  StartInv'
  BY DEF StowIInv, StartInv, StowNext, Monitor, FirstRead, Sample, ReadCommand,
         WriteStatus, Receive, StorePair, MovePin, stowVars, roundVars, debounceVars

\* The verdict: a source that is read as on has been on since the decision, one
\* that is read as off has been off.
LEMMA VerdictInvStep ==
  ASSUME StowIInv, [StowNext]_stowVars
  PROVE  VerdictInv'
<1> USE DEF StowIInv
<1>1. CASE FirstRead
  <2>1. mpc' = "sample"
    BY <1>1 DEF FirstRead
  <2> QED
    BY <1>1, <2>1, HistoryKept DEF FirstRead, messageVars, VerdictInv
<1>2. CASE Sample
  <2>1. Remember /\ mpc' = "read" /\ verdict' = stowButtonIsPressed' /\ unread' = Sources
    BY <1>2 DEF Sample
  <2>2. On' \subseteq beenOn' /\ AllSources' \ On' \subseteq beenOff'
    BY <2>1, RememberStep
  <2>3. verdict' => beenOn' # {}
    BY <2>1, <2>2 DEF On, Commands
  <2>4. ~verdict' => Button \in AllSources' \ On'
    BY <2>1, StowAssumption DEF On, Commands, AllSources
  <2>5. AllSources' \ unread' \subseteq {Button}
    BY <2>1 DEF AllSources
  <2> QED
    BY <2>1, <2>2, <2>3, <2>4, <2>5 DEF VerdictInv
<1>3. ASSUME NEW s \in Sources, ReadCommand(s)
      PROVE  VerdictInv'
  <2>1. /\ mpc = "read" /\ mpc' = "read"
        /\ verdict' = (verdict \/ stowCmd[s] = 1) /\ unread' = unread \ {s}
        /\ UNCHANGED <<stowCmd, stowButtonIsPressed, historyVars>>
    BY <1>3 DEF ReadCommand, messageVars, debounceVars
  <2>2. /\ On' = On /\ On' \subseteq beenOn' /\ AllSources' \ On' \subseteq beenOff'
        /\ beenOn' = beenOn /\ beenOff' = beenOff
    BY <2>1, HistoryKept DEF historyVars
  <2>3. CASE stowCmd[s] = 1
    <3>1. s \in On'
      BY <2>2, <2>3 DEF On, Commands
    <3> QED
      BY <2>1, <2>2, <2>3, <3>1 DEF VerdictInv
  <2>4. CASE stowCmd[s] # 1
    <3>1. s \in AllSources \ On
      BY <2>4, StowAssumption DEF On, Commands, AllSources
    <3>2. AllSources' \ unread' \subseteq (AllSources \ unread) \cup {s}
      BY <2>1 DEF AllSources
    <3>3. verdict' = verdict
      BY <2>1, <2>4 DEF StowTypeOK
    <3> QED
      BY <2>1, <2>2, <3>1, <3>2, <3>3 DEF VerdictInv
  <2> QED
    BY <2>3, <2>4
<1>4. CASE WriteStatus
  <2>1. On' = On /\ mpc' = "sample" /\ beenOn' = On /\ beenOff' = AllSources \ On
    BY <1>4 DEF WriteStatus, On, Commands, messageVars, debounceVars
  <2> QED
    BY <2>1 DEF VerdictInv, AllSources
<1>5. CASE Receive \/ MovePin \/ UNCHANGED stowVars
  <2>1. UNCHANGED <<stowCmd, stowButtonIsPressed, historyVars, mpc, verdict, unread>>
    BY <1>5 DEF Receive, MovePin, stowVars, debounceVars, roundVars, messageVars
  <2>2. beenOn' = beenOn /\ beenOff' = beenOff /\ AllSources' = AllSources
    BY <2>1 DEF historyVars, AllSources
  <2> QED
    BY <2>1, <2>2, HistoryKept DEF VerdictInv
<1>6. CASE StorePair
  <2>1. Remember /\ UNCHANGED <<mpc, verdict, unread>>
    BY <1>6 DEF StorePair, roundVars
  <2>2. AllSources' = AllSources
    BY DEF AllSources
  <2> QED
    BY <2>1, <2>2, RememberStep DEF VerdictInv
<1> QED
  BY <1>1, <1>2, <1>3, <1>4, <1>5, <1>6 DEF StowNext, Monitor

\* The inductive invariant of the stow logic.
THEOREM StowInvariant == StowSpec => []StowIInv
<1>1. StowInit => StowIInv
  BY StowInitially
<1>2. StowIInv /\ [StowNext]_stowVars => StowIInv'
  BY TypeStep, DebounceInvStep, StartInvStep, VerdictInvStep DEF StowIInv
<1> QED
  BY <1>1, <1>2, PTL DEF StowSpec

-----------------------------------------------------------------------------
\* The variables of the stow logic keep their types: the debounce count of the
\* monitor thread never passes its limit, the commands are integers.
THEOREM StowTypeCorrect == StowSpec => []StowTypeOK
<1>1. StowIInv => StowTypeOK
  BY DEF StowIInv
<1> QED
  BY <1>1, StowInvariant, PTL

\* After a debounce the button is as the input is: no press and no release that
\* lasts is lost by the monitor thread, for any length of the debounce.
THEOREM ButtonAlwaysFollows == StowSpec => []ButtonFollowsInput
<1>1. StowIInv => ButtonFollowsInput
  BY DEF StowIInv, DebounceInv, ButtonFollowsInput
<1> QED
  BY <1>1, StowInvariant, PTL

\* The debounce of the monitor thread never hangs.
THEOREM DebounceAlwaysEnds == StowSpec => []DebounceEnds
<1>1. StowIInv => DebounceEnds
  BY DEF StowIInv, DebounceInv, DebounceEnds
<1> QED
  BY <1>1, StowInvariant, PTL

\* The button changes only when enough equal samples have come in a row.
THEOREM NeverBounces == StowSpec => NoBounce
<1>1. ASSUME StowIInv, [StowNext]_stowVars, stowButtonIsPressed' # stowButtonIsPressed
      PROVE  run' > STOW_INPUT_DEBOUNCE
  <2>1. Sample
    BY <1>1 DEF StowNext, Monitor, FirstRead, ReadCommand, WriteStatus, Receive,
                StorePair, MovePin, stowVars, debounceVars
  <2> QED
    BY <1>1, <2>1, DebounceStep DEF Sample, StowIInv
<1>2. StowIInv /\ [StowNext]_stowVars =>
        [stowButtonIsPressed' # stowButtonIsPressed => run' > STOW_INPUT_DEBOUNCE]_stowVars
  BY <1>1
<1> QED
  BY <1>2, StowInvariant, PTL DEF StowSpec, NoBounce

-----------------------------------------------------------------------------
\* Steps of the stow logic as steps of StowDecision.
LEMMA OneSourceChanges ==
  ASSUME StowIInv, Remember, UNCHANGED panelIsStowed,
         NEW s \in AllSources, On' \ {s} = On \ {s}
  PROVE  Decision!Change(s) \/ UNCHANGED Decision!decisionVars
<1>1. On \subseteq beenOn /\ AllSources \ On \subseteq beenOff
  BY DEF StowIInv, VerdictInv
<1>2. On \subseteq AllSources
  BY OnAreSources DEF StowIInv
<1>3. /\ beenOn' = beenOn \cup On' /\ beenOff' = beenOff \cup (AllSources \ On')
      /\ UNCHANGED <<panelIsStowed, round>>
  BY DEF Remember
<1>4. CASE On' = On
  BY <1>1, <1>3, <1>4 DEF Decision!decisionVars
<1>5. CASE On' # On
  <2>1. On' = IF s \in On THEN On \ {s} ELSE On \cup {s}
    BY <1>5
  <2> QED
    BY <1>3, <2>1 DEF Decision!Change
<1> QED
  BY <1>4, <1>5

\* Each step of the monitor thread is a step of StowDecision, or changes nothing it sees.
LEMMA DecisionStep ==
  ASSUME StowIInv, [StowNext]_stowVars
  PROVE  [Decision!Next]_(Decision!decisionVars)
<1> USE DEF StowIInv
<1>1. CASE Sample
  <2>1. Remember /\ UNCHANGED <<panelIsStowed, stowCmd>>
    BY <1>1 DEF Sample, messageVars
  <2>2. On' \ {Button} = On \ {Button}
    BY <2>1 DEF On, Commands
  <2> QED
    BY <2>1, <2>2, OneSourceChanges DEF AllSources, Decision!Next
<1>2. CASE StorePair
  <2>1. /\ Remember /\ UNCHANGED <<panelIsStowed, stowButtonIsPressed>>
        /\ stowCmd' = [stowCmd EXCEPT ![Head(pending).key] = Head(pending).value]
    BY <1>2 DEF StorePair, roundVars, debounceVars
  <2>2. Head(pending) \in [key : Sources, value : Int]
    BY <1>2, HeadTailProperties DEF StorePair, StowTypeOK
  <2>3. On' \ {Head(pending).key} = On \ {Head(pending).key}
    BY <2>1, <2>2 DEF On, Commands, StowTypeOK
  <2> QED
    BY <2>1, <2>2, <2>3, OneSourceChanges DEF AllSources, Decision!Next
<1>3. CASE WriteStatus
  <2>1. On' = On
    BY <1>3 DEF WriteStatus, On, Commands, messageVars, debounceVars
  <2>2. /\ verdict => beenOn # {}
        /\ ~verdict => AllSources \subseteq beenOff
    BY <1>3 DEF WriteStatus, VerdictInv
  <2>3. beenOff \subseteq AllSources /\ verdict \in BOOLEAN
    BY DEF StowTypeOK
  <2>4. /\ round' = 1 - round /\ panelIsStowed' = verdict
        /\ beenOn' = On /\ beenOff' = AllSources \ On
    BY <1>3 DEF WriteStatus
  <2>5. Decision!Decide
    BY <2>1, <2>2, <2>3, <2>4 DEF Decision!Decide
  <2> QED
    BY <2>5 DEF Decision!Next
<1>4. CASE FirstRead \/ (\E s \in Sources : ReadCommand(s)) \/ Receive \/ MovePin
           \/ UNCHANGED stowVars
  <2>1. UNCHANGED <<stowCmd, stowButtonIsPressed, panelIsStowed, historyVars>>
    BY <1>4 DEF FirstRead, ReadCommand, Receive, MovePin, stowVars, debounceVars,
                roundVars, messageVars
  <2> QED
    BY <2>1 DEF Decision!decisionVars, historyVars, On, Commands
<1> QED
  BY <1>1, <1>2, <1>3, <1>4 DEF StowNext, Monitor

\* The stow logic implements StowDecision: although panelIsStowed is computed
\* from unlocked reads, no decision contradicts a source that kept its value
\* since the decision before, for any number of applications.
THEOREM DecisionsAreJustified == StowSpec => DecisionIsJustified
<1>1. StowInit => Decision!Init
  BY DEF StowInit, Decision!Init, On, Commands
<1>2. StowIInv /\ [StowNext]_stowVars => [Decision!Next]_(Decision!decisionVars)
  BY DecisionStep
<1> QED
  BY <1>1, <1>2, StowInvariant, PTL DEF StowSpec, DecisionIsJustified, Decision!Spec
=============================================================================
