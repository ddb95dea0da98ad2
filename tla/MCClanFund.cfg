\* Sums and checks: two overlapping requests, two clans, payments of 0 and 1.
CONSTANTS
  c1 = c1
  c2 = c2
  Client = {c1, c2}
  Clan = {1, 2}
  Amount = {0, 1}
  EditAmount <- MCEditAmount
  NoMoney = NoMoney
  MaxCollects = 1
  MaxPays = 2
  RoleChanges = {}
  Removable = {}

SPECIFICATION Spec
SYMMETRY Symmetry

INVARIANT TypeOK
INVARIANT UninterferedSums
INVARIANT RequestsKnowTheirEntries
PROPERTY ExactWhenAlone
PROPERTY OverdraftCauses
PROPERTY EntriesAreForever
