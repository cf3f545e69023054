CONSTANTS
  Docs = {d1}
  BusCapacity = 1
  MaxChanges = 3
SPECIFICATION FairSpec
INVARIANTS TypeOK ConvertedOnce GeneratedIsProtected
PROPERTIES PdfIsConverted
CHECK_DEADLOCK FALSE
