SPECIFICATION Spec
CONSTANTS
  shift = shift
  lshift = lshift
  one = one
  f = f
  any = any
  num = num
  none = none
  Keys <- MCKeys
  SystemKeys = {shift, lshift, any, num}
  UnrealKeys = {shift, any, num}
  RepOf <- MCRepOf
  NoKey = none
  OPTIONAL = any
  OPTNUMBER = num
  TextUnits <- MCTextUnits
  Commands <- PlainAndNumbered
  Inputs <- MCInputs
  MaxHistory = 4
INVARIANTS
  TypeOK
  Recognizes
  Undoable
PROPERTY StopsOnlyAtInnerNumber
CHECK_DEADLOCK FALSE
