SPECIFICATION Spec
CONSTANTS
  Capacity = 4
  Elem = {a, b, c}
INVARIANT TypeOK
INVARIANT SizeConsistent
PROPERTY RefinesHistory
