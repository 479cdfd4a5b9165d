SPECIFICATION Spec
CONSTANTS
  None = None
  Unpublished = Unpublished
  Mode = "inferred"
  InvertReport = FALSE
  Settle = 5
  Command = "control"
  Target = "percent_control"
  Position = "percent_state"
  Codes <- MCCodes
  Tables <- MCTables
  Reports <- MCReports
  PlanProps <- MCPlanProps
  Depends <- MCDepends
  Reading <- MCReading
  Readings <- Positions
  DeltaProps = {}
  DeltaCode <- NoFunction
  EventProps = {}
  EventCode <- NoFunction
  Fires <- NoFunction
  MachineProps = {}
  MachineTimers = {}
  MachineStates <- MCStates
  InitialState = "s"
  ResetStates <- MCStates
  Programs <- NoMachine
  Outcomes = {}
  MotionProp = "cover_state"
  Switches = {}
  AcceptPassive = None
  SettingValues = {}
  Defaults <- NoFunction
  Writable <- MCPlanProps
  Times = {}
  MaxSeq = 0
  MaxSeeds = 1
  LateTimers = FALSE
INVARIANTS
  TypeOK
  MoveWillSettle
  HeadsForTarget
  AtRestShowsPosition
PROPERTIES
  CopiesStartNothing
  SnapshotRests
