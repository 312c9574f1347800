SPECIFICATION FairSpec
CONSTANTS
  Files <- ClassFiles
  Classes <- ClassesToParse
  FileOf <- File
  Null = Null
INVARIANTS
  LinksReachWhatWasMeant
  RefusesExactlyTheUnloadable
  CursorsOnItems
PROPERTIES
  ReadsTheWholeFile
CHECK_DEADLOCK FALSE
