SPECIFICATION FairSpec
CONSTANTS
  Runs = {p1, p2, p3, s1}
  Signalled = {p1, p2, p3}
  Limits <- AnyLimits
INVARIANTS TypeOK SlotAccounting NoLostWakeup
PROPERTIES CapRespected NoStarvation
