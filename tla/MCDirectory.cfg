\* The family tree: two people, of whom each may come to be the other's parent, and two
\* requests at a time; a third row can be made.
CONSTANTS
  c1 = c1
  c2 = c2
  ann = ann
  bob = bob
  NoData = NoData
  Client = {c1, c2}
  Names = {ann, bob}
  FirstPeople = 2
  FirstName <- AllAnn
  MaxPeople = 3
  Asks <- TheAsks
\* The listings: a reader of pages of two rows, or of all.
  Contents <- TheContents
  Questions <- TheQuestions
  Limits = {0, 2}
  MaxRows = 3

SPECIFICATION DirectorySpec

INVARIANT TypeOK
INVARIANT RequestsAreCurrent
INVARIANT ListingsTypeOK
INVARIANT ListingsAsAsked
INVARIANT NothingMissed
INVARIANT NothingTwice
PROPERTY OrphanCauses
PROPERTY MisnamedCauses
PROPERTY PeopleAreKept
