SPECIFICATION Spec
CONSTANTS
  None = None
  Unpublished = Unpublished
  Mode = "control"
  InvertReport = TRUE
  Settle = 5
  Command = "control"
  Target = None
  Position = "percent_state"
  Codes <- MCCodes
  Tables <- MCTables
  Reports <- MCReports
  PlanProps <- MCPlanProps
  Depends <- MCDepends
  Reading <- MCReading
  Readings <- Positions
  DeltaProps <- MCDeltaProps
  DeltaCode <- MCDeltaCode
  EventProps = {}
  EventCode <- NoFunction
  Fires <- NoFunction
  MachineProps = {}
  MachineTimers = {}
  MachineStates <- MCStates
  InitialState = "s"
  ResetStates <- MCStates
  Programs <- NoMachine
  Outcomes = {}
  MotionProp = "cover_state"
  Switches <- MCSwitches
  AcceptPassive = "accept_passive"
  SettingValues = {TRUE, FALSE}
  Defaults <- MCDefaults
  Writable <- MCPlanProps
  Times = {7}
  MaxSeq = 3
  MaxSeeds = 1
  LateTimers = FALSE
INVARIANTS
  MotionShown
  LiveIsCurrent
  SettingsShown
