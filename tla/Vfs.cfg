SPECIFICATION Spec
CONSTANTS
  Heads = {"empty", "testdev", "/testdev", "full"}
  FullHeads = {"full"}
  Tails = {"l"}
  MAX_DEVICES = 2
  TESTDEV_SIZE = 2
  HEAP_SIZE = 112
  FILE_SIZE = 16
  INODE_SIZE = 32
  OtherSizes = {0, 20}
  WORD = 8
  Chars = {"x", "y"}
  SkipSlash <- MCSkipSlash
INVARIANTS
  TypeOK
  HandlesSound
PROPERTIES
  PassedBySeek
  LookupStable
  ImplementsSharedFile
CHECK_DEADLOCK FALSE
