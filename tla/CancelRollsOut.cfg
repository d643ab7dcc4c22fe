CONSTANTS
  Images = {i1, i2}
  Groups = {g1, g2}
  NoImage = NoImage
  NoReport = NoReport
  UserSignals = {"trigger", "proceed", "cancel"}
  InitYoung = {TRUE}
  MaxUserOps = 4
SPECIFICATION Spec
PROPERTY CancelLeavesWorkloadAlone
CHECK_DEADLOCK FALSE
