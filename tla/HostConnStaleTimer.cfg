SPECIFICATION Spec
CONSTANTS
  f1 = f1
  f2 = f2
  Calls = {f1, f2}
  Background = {}
  NoCall = NoCall
  Kinds = {"plain"}
  CtxKinds = {"cancel"}
  Pool = TRUE
SYMMETRY ForegroundSymmetry
INVARIANTS
  ErrBadConnGenuine
