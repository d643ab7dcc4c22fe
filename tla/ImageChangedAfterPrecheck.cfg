CONSTANTS
  Images = {i1, i2, i3}
  Groups = {g1}
  NoImage = NoImage
  NoReport = NoReport
  UserSignals = {"proceed"}
  InitYoung = {TRUE}
  MaxUserOps = 5
SPECIFICATION Spec
PROPERTY CompletedImageWasPrechecked
CHECK_DEADLOCK FALSE
