SPECIFICATION Spec
CONSTANTS
  Sources <- MCSources
  External <- MCExternal
CHECK_DEADLOCK FALSE
INVARIANTS LinkedIsSource FileIsLaidOut SymbolTableExact LinesDecode
