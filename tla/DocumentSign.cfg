SPECIFICATION Spec
CONSTANTS
  Requests = {r1, r2}
  Tabs = {f1, f2, f3}
  Pdfs = {p1, p2}
  Boxes = {b1, b2}
  NoPdf = NoPdf  NoBox = NoBox  NoRequest = NoRequest
SYMMETRY Names
INVARIANT TypeOK
INVARIANT OneRequestEver
INVARIANT OutcomeIsShown
INVARIANT CopiesConsistent
PROPERTY PlacementIsLocked
