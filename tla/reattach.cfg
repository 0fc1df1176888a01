SPECIFICATION Spec
CONSTANTS
  a = a
  b = b
  c = c
  s1 = s1
  s2 = s2
  w1 = w1
  w2 = w2
  f1 = f1
  f2 = f2
  None = None
  Subscribers = {a, b, c}
  Registered = {a, b}
  ENodes = {1, 2}
  Fds = {f1, f2}
  Workers = {w1, w2}
  Sms <- NoSms
  SmsSrc <- Nobody
  SmsDst <- Nobody
  MaxTmsi = 6
  MaxConnections = 1
  BootTmsi <- UsedBoot
  BootIssued = 1
  ScriptMayFail = FALSE
  TmsisRepeat = FALSE
  Budget <- ReattachBudget
SYMMETRY Symmetry
INVARIANT TypeOK
INVARIANT WaitsAreServed
INVARIANT OfflineUnbound
INVARIANT BindingHasSlot
INVARIANT SlotsHaveOwners
