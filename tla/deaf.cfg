SPECIFICATION FairSpec
CONSTANTS
  c1 = c1
  c2 = c2
  r1 = r1
  r2 = r2
  p1 = p1
  p2 = p2
  None = None
  Conns = {c1}
  Fds = {1, 2}
  Requests = {r1}
  Messages = {r1}
  Size <- Sizes
  LenCells = 2
  AtOnce = FALSE
  Torn = FALSE
  Hasty = TRUE
  ShortReads = FALSE
PROPERTY GoneIsNoticed
