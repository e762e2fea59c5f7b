\* The object store: two tickets, the same refs and the same path for both.
SPECIFICATION FairSpec
CONSTANTS
  Tickets = {t1, t2}
  Refs = {r1, r2}
  Paths = {p1}
  Forms <- Lapsing
  Sessions = {s1}
  MaxParts = 1
  MaxItems = 1
  Local = FALSE
  NoRow = NoRow
  NoContent = NoContent
  MaxCrashes = 1
INVARIANTS
  ConsumedOnce
  ReadableHasBody
PROPERTIES
  CleanupCatchesUp
