SPECIFICATION Spec
CONSTANTS
  Proc = {p1,p2}
  Handle = {"owner"}
  Name = {"owner"}
  HandleOf <- MCHandleOf
  OwnerHandle = "owner"
  NoName = NoName
  MaxKeys = 3
  Disturbed = TRUE
SYMMETRY Symmetry
INVARIANTS
  TypeOK
  RotateKillsOlder
PROPERTY RoleNeverChanges
