SPECIFICATION FairSpec
CONSTANTS
  TagKeys = {"sync", "secret-object", "service", "environment"}
  OptInKeys = {"sync", "secret-object"}
  Texts <- SomeTexts
  Normalize <- ToWord
  Missing = Missing
  ItemCount = 3
  Entries <- SomeEntries
  Absent = Absent
  PageSize = 2
  Wishes <- SomeWishes
  MaxEdits = 1
INVARIANTS
  TypeOK
  SelectionIsRight
PROPERTIES
  ImplementsContract
  ListingEnds
