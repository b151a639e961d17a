SPECIFICATION Spec
CONSTANTS
  Clients = {c1, c2}
  Batches = {{c1}, {c1, c2}}
  Managed = {c2}
  Empty = Empty
  Values = {v}
  Null = Null
  None = None
  Timeout = 2
  MaxClock = 2
  MaxSends = 2
PROPERTIES
  ReapsOnlyStale
