SPECIFICATION ServerSpec
CONSTANTS
  switch = switch
  press = press
  Requests = {switch, press}
  Text <- MCText
  FunctionNames <- MCFunctionNames
  ExitNames <- MCExitNames
  KeyNames <- MCKeyNames
  Size = 5
  NUL = NUL
INVARIANTS
  UnitsExecutedOnce
PROPERTIES
  ServedAlone
  ExitEnds
CHECK_DEADLOCK FALSE
