\* Two overlapping requests of two accounts and a guest.
CONSTANTS
  c1 = c1
  c2 = c2
  g = g
  Client = {c1, c2}
  Guest = {g}
  Nobody = Nobody
  NoRole = NoRole
  InviteRoles = {"ADMIN"}
  EditRoles = {"LABORER", NoRole}
  MaxMembers = 3

SPECIFICATION Spec
SYMMETRY Symmetry

INVARIANT TypeOK
INVARIANT RequestsAreCurrent
PROPERTY DuplicateCauses
PROPERTY LiveRowsAreKept
PROPERTY OwnerLossCauses
PROPERTY WritesWhereAllowed
PROPERTY UnmanagedForGood
