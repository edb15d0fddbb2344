SPECIFICATION Spec

CONSTANTS
  None = None
  w1 = w1
  w2 = w2
  small = small
  one = one
  other = other
  Sidecars = {w1, w2}
  Collectors = {w2}
  Digests = {small, one, other}
  Size <- Sizes
  Quota = 2
  MaxCuts = 1

INVARIANTS
  TypeOK
  QuotaKept
  ExportedIsReadable
