SPECIFICATION Spec
CONSTANTS
  c1 = c1
  c2 = c2
  d1 = d1
  d2 = d2
  Clients = {c1, c2}
  Domains = {d1, d2}
  Star = Star
  Blank = Blank
INVARIANTS
  TypeOK
  NeverLeftEmpty
PROPERTIES
  AloneIsAtomic
