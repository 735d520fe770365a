SPECIFICATION LiveSpec
CONSTANTS
  f1 = f1
  f2 = f2
  b1 = b1
  Calls = {f1, f2, b1}
  Background = {b1}
  NoCall = NoCall
  Kinds = {"plain", "stmt", "close"}
  CtxKinds = {"cancel"}
  Pool = TRUE
PROPERTIES
  CtxDoneReturns
  EveryCallReturns
