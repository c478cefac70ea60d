CONSTANTS
  FlashSize = 512
  Contents <- MCContents
  Overrides <- MCOverrides
  Scripts <- MCScripts
  Attributes <- MCAttributes
CHECK_DEADLOCK FALSE
SPECIFICATION Spec
INVARIANTS TypeOK Disjoint FieldsInSection InFlash TableFindsSections RomFindsNext
  ImageInPlace OutputsAgree
