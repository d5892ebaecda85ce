SPECIFICATION Spec
CONSTANTS
  Pages = {p1, p2, p3}
  NoPage = NoPage
  NoFile = NoFile
  Files = {"rgd", "text", "rgm"}
  Handler <- MCHandler
  Ids = {1}
  Texts = {"game"}
  Original <- MCOriginal
SYMMETRY Symmetric
INVARIANTS ClosedIsNotWritten
CHECK_DEADLOCK FALSE
