\* The pushbutton and both applications, and the report thread; reads of the input that may fail.
CONSTANTS
  WebApp = WebApp
  RulesEngine = RulesEngine
  Sources = {WebApp, RulesEngine}
  Button = Button
  Messages <- MCMessages
  STOW_INPUT_DEBOUNCE = 2
  ReadMayFail = TRUE
SPECIFICATION ReportSpec
INVARIANT ButtonFollowsInput
PROPERTIES NoBounce DecisionIsJustified CommandIsObeyed ButtonIsObeyed
PROPERTIES StowIsReleased StatusIsReported
