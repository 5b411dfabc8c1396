CONSTANT NUM_PAGES = 4
SPECIFICATION Spec
INVARIANTS
  TypeOK
  FreeListSound
PROPERTY ImplementsPool
