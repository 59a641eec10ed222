SPECIFICATION Spec
CONSTANTS
  Programs <- AllPrograms
  Main <- MainPath
  Dirs <- DirList
INVARIANTS OutputIsMeaning
PROPERTY Finishes
