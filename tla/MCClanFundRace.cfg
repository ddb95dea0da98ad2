\* Two createPay requests of one fund.
CONSTANTS
  c1 = c1
  c2 = c2
  Client = {c1, c2}
  Clan = {1}
  Amount = {1}
  EditAmount = {}
  NoMoney = NoMoney
  MaxCollects = 1
  MaxPays = 2
  RoleChanges = {}
  Removable = {}

SPECIFICATION Spec

PROPERTY CreatedPaysAreCovered
