CONSTANTS
  Size = 7
  MaxRequest = 3
  Coalescing = TRUE
SPECIFICATION Spec
INVARIANTS BlocksTile FreeListsExact NoAdjacentFree
PROPERTIES AllocFailsOnlyWhenFull Allocates
