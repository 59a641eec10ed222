CONSTANTS
  p = p  q = q  x = x
  NoVar = NoVar
  NoReg = NoReg
  DataRegs <- MCDataRegs
  AddrRegs <- MCAddrRegs
  Functions <- MCFunctions
SPECIFICATION Spec
INVARIANTS InterferenceIsExact
CHECK_DEADLOCK FALSE
