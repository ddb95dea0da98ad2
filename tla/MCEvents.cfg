\* An owner and a member, who may lose their roles, one event and one comment; two
\* files uploaded together, one of which becomes an image and may be removed.
CONSTANTS
  c1 = c1
  c2 = c2
  f1 = f1
  f2 = f2
  Client = {c1, c2}
  File = {f1, f2}
  Batches = {{f1, f2}}
  Nameable = {f1}
  FirstRole <- OwnerAndLaborer
  Roles = {"LABORER", "none"}
  MaxEvents = 1
  MaxComments = 1

SPECIFICATION FairSpec

INVARIANT TypeOK
INVARIANT RowsMatchObjects
INVARIANT RequestsAreCurrent
PROPERTY DeadImageCauses
PROPERTY RemovedEventsStay
PROPERTY UploadsEnd
PROPERTY IsABoard
