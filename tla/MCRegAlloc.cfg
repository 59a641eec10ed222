CONSTANTS
  p = p  q = q  x = x
  NoVar = NoVar
  NoReg = NoReg
  DataRegs <- MCDataRegs
  AddrRegs <- MCAddrRegs
  Functions <- MCFunctions
SPECIFICATION Spec
INVARIANTS LivenessIsExact SharingIsSound SubsumesOwn
PROPERTIES Compiles Shares
CHECK_DEADLOCK FALSE
