\* Clans removed and roles changed while requests are under way.
CONSTANTS
  c1 = c1
  c2 = c2
  Client = {c1, c2}
  Clan = {1, 2}
  Amount = {1}
  EditAmount <- MCEditAmount
  NoMoney = NoMoney
  MaxCollects = 1
  MaxPays = 1
  RoleChanges <- AllRoles
  Removable = {1, 2}

SPECIFICATION Spec
SYMMETRY Symmetry

PROPERTY SavesWhereAllowed
