SPECIFICATION Spec
CONSTANTS
  shift = shift
  ctrl = ctrl
  f = f
  g = g
  h = h
  any = any
  num = num
  none = none
  Keys <- MCKeys
  SystemKeys = {shift, ctrl, any, num}
  UnrealKeys = {shift, ctrl, any, num}
  RepOf <- MCRepOf
  NoKey = none
  OPTIONAL = any
  OPTNUMBER = num
  TextUnits <- MCTextUnits
  WaitTime = 2
  MaxKeys = 3
INVARIANT
  TypeOK
PROPERTIES
  PressesAreTyped
  NoPressTwice
  ModifiersAreKept
