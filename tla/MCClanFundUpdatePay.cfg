\* A single client that changes a payment of the second clan.
CONSTANTS
  c1 = c1
  c2 = c2
  Client = {c1}
  Clan = {1, 2}
  Amount = {0, 1}
  EditAmount = {}
  NoMoney = NoMoney
  MaxCollects = 1
  MaxPays = 1
  RoleChanges = {}
  Removable = {}

SPECIFICATION Spec

PROPERTY UpdatedPaysAreCovered
