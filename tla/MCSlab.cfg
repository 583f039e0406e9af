CONSTANTS
  small = small
  big = big
  Free = Free
  Null = Null
  Pages = 4
  Slot <- Sizes
  Chunks <- ChunksOf
  Reserved <- ReservedOf
  CellsPerPage = 4
SPECIFICATION Spec
INVARIANTS
  TypeOK
  PoolSound
  StatIsRight
PROPERTIES
  ImplementsHeap
