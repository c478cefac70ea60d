SPECIFICATION LiveSpec
CONSTANTS
  Objects <- MCObjects
  Options <- MCOptions
  SecAddr = 104
  Gp = 208
  TlsBase = 296
  MaxAlign = 8
  GpAlign = 4
  JReach = 26
  CReach = 14
  IReach = 16
  CLuiReach = 4
  HASH_IMPORT_E = 2
  hash_sdbm <- MCHash
  strlen <- MCStrlen
  ExportLists <- MCExportLists
  TextLma = 64
  output_offset = 40
INVARIANTS
  TypeOK
  CodeKept
  Reach
  Aligned
  LowPartsFollow
  TablesDecode
  ReservedEnough
PROPERTY
  Terminates
CHECK_DEADLOCK FALSE
