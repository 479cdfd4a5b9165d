SPECIFICATION Spec
CONSTANTS
  None = None
  Unpublished = Unpublished
  Mode = "none"
  InvertReport = FALSE
  Settle = 0
  Command = None
  Target = None
  Position = None
  Codes <- MCCodes
  Tables <- MCTables
  Reports <- MCTables
  PlanProps <- MCPlanProps
  Depends <- MCDepends
  Reading <- MCReading
  Readings <- MCReadings
  DeltaProps = {}
  DeltaCode <- NoFunction
  EventProps <- MCEventProps
  EventCode <- MCEventCode
  Fires <- MCFires
  MachineProps <- MCMachineProps
  MachineTimers <- MCMachineTimers
  MachineStates <- MCMachineStates
  InitialState = "idle"
  ResetStates <- MCMachineStates
  Programs <- MCPrograms
  Outcomes <- MCMachineStates
  MotionProp = None
  Switches = {}
  AcceptPassive = None
  SettingValues = {}
  Defaults <- NoFunction
  Writable <- MCPlanProps
  Times = {}
  MaxSeq = 0
  MaxSeeds = 1
  LateTimers = TRUE
INVARIANTS
  ConsumerAgrees
  LiveIsCurrent
  OfflineIsBlank
  TimersAgree
  OfflineIsQuiet
PROPERTIES
  CopiesStartNothing
  NoSendWhileDown
