SPECIFICATION Spec
CHECK_DEADLOCK FALSE
INVARIANTS
  RequestsReadable
  
  DateTimesKept
  ParametersInPlace
  
  TextKept
  
  OptionsAgree
