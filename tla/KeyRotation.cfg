SPECIFICATION Spec
CONSTANTS
  Proc = {p1}
  Handle = {"bob", "owner"}
  Name = {"bob", "owner"}
  HandleOf <- MCHandleOf
  OwnerHandle = "owner"
  NoName = NoName
  MaxKeys = 4
  Disturbed = FALSE
INVARIANT ResolverNeverStale
PROPERTY NeverStranded
