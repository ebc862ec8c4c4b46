SPECIFICATION Spec
CONSTANTS
  absent = absent
  Absent = absent
  NumDirs = 2
  Multiarch = 1
  Firmwares <- MCFirmwares
INVARIANTS MesaServesAll
