SPECIFICATION AllSpec
CONSTANTS
\* Menu
  MenuConfigs <- MnConfigs
  Variables <- MnVariables
  Window = 3
  Second = 2
  MaxRuns = 2
  MaxPresses = 3
\* Config
  Texts <- CfTexts
  Tokens <- CfTokens
  Files <- CfFiles
  Drives <- CfDrives
  MAX_MENU_NESTING = 3
\* Editor
  EDITOR_MAX_BUFFER_SIZE = 7
  line_size = 2
  _window_size = 2
  TabStop = 2
  EntryTexts <- EdTexts
  Typed <- EdTyped
  MaxKeys = 5
\* PartTable
  Guesses <- PtGuesses
  MaxArray = 8
  MaxLogical = 8
  Media <- PtMedia
  Tables <- PtTables
  Extended <- PtExtended
  Vols <- PtVols
\* DiskIndex
  Machines <- DiMachines
  SkipGuid = {}
\* HostInstall
  Devices <- HiDevices
  Options <- HiOptions
  Reserve = 1
  Stage2 = 2
  Gap = 2
  MaxFaults = 2
INVARIANTS SelectionTrue EditorTrue TableFound CachesFresh VolumesTold InstallSafe
PROPERTIES VariableDecides CountdownEnds ConfigFaithful EditorRefreshEnds
CHECK_DEADLOCK FALSE
