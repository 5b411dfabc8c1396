SPECIFICATION Spec
CONSTANTS
  Heads = {"empty", "a", "full"}
  FullHeads = {"full"}
  Tails = {"x"}
  SFS_MAX_FILES = 3
  WORD = 8
  Requests = {0, 2, 7}
  BlockCounts = {0, 2}
INVARIANTS
  TypeOK
  TableSound
  UniqueNames
  CountsAgree
