CONSTANTS
  Images = {i1, i2}
  Groups = {g1, g2}
  NoImage = NoImage
  NoReport = NoReport
  UserSignals = {"trigger", "proceed", "cancel"}
  InitYoung = {FALSE}
  MaxUserOps = 4
SPECIFICATION Spec
INVARIANT BaselineRecorded
CHECK_DEADLOCK FALSE
