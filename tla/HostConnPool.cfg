SPECIFICATION Spec
CONSTANTS
  f1 = f1
  f2 = f2
  b1 = b1
  Calls = {f1, f2, b1}
  Background = {b1}
  NoCall = NoCall
  Kinds = {"plain", "stmt", "noreply", "close"}
  CtxKinds = {"background", "cancel", "timeout"}
  Pool = TRUE
SYMMETRY ForegroundSymmetry
INVARIANTS
  
  HandedBackUnbounded
  NoSocketLeak
  ErrBadConnExplained
PROPERTIES
  ReplyMatching
  
