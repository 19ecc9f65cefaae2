SPECIFICATION FairSpec
CONSTANTS
  p1 = p1
  p2 = p2
  x = x
  y = y
  Proc = {p1, p2}
  Patch = {x}
  MaxBuilds = 2
  Previews = FALSE
  UserEdits = FALSE
  GitTimeouts = FALSE
  None = None
PROPERTY PublishedIsFinished
CHECK_DEADLOCK FALSE
