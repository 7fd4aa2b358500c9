SPECIFICATION ClickSpec
CONSTANTS
  a = a
  s = s
  d = d
  esc = esc
  bs = bs
  any = any
  num1 = num1
  none = none
  Labels <- MCLabels
  Keys <- MCKeys
  SystemKeys = {esc, bs, any, num1}
  UnrealKeys = {any, num1}
  RepOf <- MCRepOf
  NoKey = none
  OPTIONAL = any
  OPTNUMBER = num1
  TextUnits <- MCTextUnits
  Targets = {2, 4}
  Inputs <- MCInputs
  ESC = esc
  BKSPACE = bs
INVARIANTS
  LabelsFit
PROPERTIES
  ImplementsChoice
  ShowsCandidates
  CancelEnds
CHECK_DEADLOCK FALSE
