SPECIFICATION Spec
CONSTANTS
  shift = shift
  one = one
  f = f
  g = g
  any = any
  num = num
  none = none
  Keys <- MCKeys
  SystemKeys = {shift, any, num}
  UnrealKeys = {shift, any, num}
  RepOf <- MCRepOf
  NoKey = none
  OPTIONAL = any
  OPTNUMBER = num
  TextUnits <- MCTextUnits
  Deployments <- MCDeployments
  Inputs <- MCInputs
  MaxHistory = 4
INVARIANTS
  TypeOK
  InStep
PROPERTY
  ImplementsLine
CHECK_DEADLOCK FALSE
