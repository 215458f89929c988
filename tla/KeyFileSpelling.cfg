SPECIFICATION Spec
CONSTANTS
  Proc = {p1}
  Handle = {"bob", "owner"}
  Name = {"bob", "Bob"}
  HandleOf <- MCHandleOf
  OwnerHandle = "owner"
  NoName = NoName
  MaxKeys = 3
  Disturbed = FALSE
INVARIANT ResolverNeverStale
