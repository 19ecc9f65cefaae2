SPECIFICATION Spec
CONSTANTS
  p1 = p1
  p2 = p2
  x = x
  y = y
  Proc = {p1, p2}
  Patch = {x, y}
  MaxBuilds = 2
  Previews = TRUE
  UserEdits = TRUE
  GitTimeouts = FALSE
  None = None
INVARIANTS TypeOK LogMatchesReceipt AppliedIsPublished
PROPERTIES PublishedOnLiveBase IsPublication
