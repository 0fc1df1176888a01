SPECIFICATION Spec
CONSTANTS
  c1 = c1
  c2 = c2
  c3 = c3
  r1 = r1
  r2 = r2
  None = None
  ENodes = {1, 2}
  Conns = {c1, c2}
  Recons = {r1}
  Misfortunes = 0
  AttachIsQuick = TRUE
  PauseSuffices = TRUE
  ServerMayStop = FALSE
  Commands <- OnAndOff
INVARIANT PromisesSetOnce
