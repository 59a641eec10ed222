SPECIFICATION Spec
CONSTANTS
  Byte = 2
  MaxShift = 2
  MaxClear = 4
  SpillSlots = 2
  VaArea = 4
  HostLittle = TRUE
  DataBase = 16
  Modes <- MCModes
  Jobs <- MCJobs
  Source <- MCSource
  Inputs <- MCInputs
  Read <- FrontEnd
  Generate <- BackEnd
  Denote <- Reference
INVARIANTS ResultIsMeaning DepthIsTheStack RegistersKept IrIsSinglePass
PROPERTY Halts
