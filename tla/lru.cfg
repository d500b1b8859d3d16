CONSTANTS
  Page = {p1, p2, p3, p4}
  NULL = NULL
  MaxTouch = 2
SPECIFICATION Spec
INVARIANTS WellFormed ListedMapped

PROPERTIES ImplementsQueue ScanEnds
