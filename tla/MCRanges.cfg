CONSTANTS
  Space = 32
  PageSize = 2
  Page <- PagesInUse
  MaxEntries = 3
  MaxOdd = 1
SPECIFICATION Spec
INVARIANTS
  StaleOnlyOdd
  LostOnlyOdd
  LiveReadable
  ReadsMapped
