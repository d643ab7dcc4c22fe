CONSTANTS
  Images = {i1, i2}
  Groups = {g1, g2}
  NoImage = NoImage
  NoReport = NoReport
  UserSignals = {"proceed"}
  InitYoung = {TRUE}
  MaxUserOps = 4
SPECIFICATION Spec
PROPERTY CompletionRecordsImage
CHECK_DEADLOCK FALSE
