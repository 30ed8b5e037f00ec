\* Six tokens: an object of two members fits, one of three does not.
CONSTANTS
  Commands = {"stow_status", "rules_engine_stow_status"}
  OtherKeys = {"timestamp_utc"}
  Values = {0, 1}
  MaxTokens = 6
  MaxDepth = 2
SPECIFICATION MessageSpec
INVARIANTS FlatIsObeyed LeftoversStayApart
