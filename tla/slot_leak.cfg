SPECIFICATION Spec
CONSTANTS
  a = a
  b = b
  c = c
  s1 = s1
  s2 = s2
  w1 = w1
  w2 = w2
  f1 = f1
  f2 = f2
  None = None
  Subscribers = {a, b}
  Registered = {a, b}
  ENodes = {1, 2}
  Fds = {f1, f2}
  Workers = {w1, w2}
  Sms <- NoSms
  SmsSrc <- Nobody
  SmsDst <- Nobody
  MaxTmsi = 2
  MaxConnections = 2
  BootTmsi <- FreshBoot
  BootIssued = 0
  ScriptMayFail = FALSE
  TmsisRepeat = FALSE
  Budget <- HandoverBudget
SYMMETRY Symmetry
INVARIANT SlotsHaveOwners
