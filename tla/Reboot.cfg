CONSTANTS
  Pages = {p1, p2, p3, p4, p5, p6}
  NULL = NULL
  ENTRIES = 4
  PGSIZE = 2
  WORD = 128
  MapArgs <- MCMapArgs
  UnmapArgs <- MCUnmapArgs
  Regions <- MCRegions
  TEST_VM <- MCTestVm
  QEMU_VIRT_TEST = 10
  SHELL_BUFFER_SIZE = 5
  Chars = {"a", "b", "space"}
  SPACE = "space"
  Commands <- MCCommands
  REBOOT <- MCReboot
  ECHO <- MCEcho
SYMMETRY PageSymmetry
SPECIFICATION KernelSpec
PROPERTIES
  RebootExits
CHECK_DEADLOCK FALSE
