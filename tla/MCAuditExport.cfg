SPECIFICATION Spec
CONSTANTS
  Patch = {p1, p2}
  None = None
  Unread = Unread
  MaxCommands = 4
  Exporter = {e1, e2}
  Worker = {w1}
  Options <- AllOptions
CHECK_DEADLOCK FALSE
SYMMETRY Symmetry
INVARIANTS TypeOK PreviewedIsValidated BundleIsTrue LeaseHolds
