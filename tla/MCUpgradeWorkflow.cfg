CONSTANTS
  Images = {i1, i2}
  Groups = {g1, g2}
  NoImage = NoImage
  NoReport = NoReport
  UserSignals = {"trigger", "proceed", "cancel", "skip"}
  InitYoung = {TRUE}
  MaxUserOps = 4
SPECIFICATION Spec
INVARIANT TypeOK
PROPERTIES LegalTransitions NoLostSignal ImageChangeReachesApproval ImplementsLifecycle
CHECK_DEADLOCK FALSE
