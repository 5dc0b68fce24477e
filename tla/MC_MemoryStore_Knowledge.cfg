SPECIFICATION Spec
CONSTANTS
  Clients = {c1, c2}
  Items = {i1, i2}
  Scopes = {"default", "other"}
  K = 1
  MaxClock = 2
  NoRow = NoRow
  Null = Null
INVARIANT
  KnowledgeIsAnswerable
