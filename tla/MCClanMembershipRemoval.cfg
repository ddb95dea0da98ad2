\* A removal that overlaps a change of the owner.
CONSTANTS
  c1 = c1
  c2 = c2
  g = g
  Client = {c1, c2}
  Guest = {}
  Nobody = Nobody
  NoRole = NoRole
  InviteRoles = {"ADMIN"}
  EditRoles = {"LABORER"}
  MaxMembers = 3

SPECIFICATION Spec

PROPERTY OwnersAreNotRemoved
