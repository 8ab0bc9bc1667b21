SPECIFICATION Spec
CONSTANTS
  Alphabet <- Names
  MaxJumps = 1
  Configs <- MCConfigs
  Drafts <- MCDrafts
  ScriptDrafts <- MCScripts
  RuleKinds <- MCKinds
  Filters <- MCFilters
  ConfigFiles <- MCFiles
  FirstId = 10
  MaxWork = 2
  SessionCost = 2
  MaxInput = 2
INVARIANTS
  TypeOK
  JumpsSound
  PrefsMatchDisk
  ScreensStayValid
  ScreenMatchesSession
  KeysInOrder
  StepsFollow
  RunLogComplete
  ConnsWereAsked
PROPERTIES
  OnlyShownIsTouched
  BackOnSameServer
  UnsavedWasTold
  ImportAddsEachOnce
  PinIsOwnKey
  DetachIsHeard
CHECK_DEADLOCK FALSE
