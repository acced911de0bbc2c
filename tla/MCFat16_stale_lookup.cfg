SPECIFICATION Spec
CONSTANTS
  COUNTS = 16
  MaxFaults = 1
  SECT_SIZE = 4
  ENTRY_SIZE = 2
  RESERVED = 14
  Tables <- TheTables
  Volumes <- TheVolumes
  Fat <- TheFat
  Directory <- TheDirectory
  Garbage = {0}
  TooLong = {"long"}
  Paths <- ThePaths
  Reads <- TheReads
  NULL = NULL
INVARIANT OpenFindsPath
