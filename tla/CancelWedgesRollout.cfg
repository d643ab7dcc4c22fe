CONSTANTS
  Images = {i1, i2}
  Groups = {g1}
  NoImage = NoImage
  NoReport = NoReport
  UserSignals = {"proceed", "cancel"}
  InitYoung = {TRUE}
  MaxUserOps = 5
SPECIFICATION Spec
PROPERTY InProgressEventuallyEnds
CHECK_DEADLOCK FALSE
