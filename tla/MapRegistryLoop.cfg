SPECIFICATION Spec
CONSTANTS
  a = a
  b = b
  c = c
  space = space
  any = any
  num = num
  none = none
  click = click
  insert = insert
  Keys <- MCKeys
  SystemKeys = {any, num}
  UnrealKeys = {any, num}
  RepOf <- MCRepOf
  NoKey = none
  OPTIONAL = any
  OPTNUMBER = num
  TextUnits <- MCTextUnits
  Functions = {click, insert}
  ModeFunctions = {insert}
  Defaults <- MCDefaults
  Triggers <- LoopTriggers
  Commands = {}
  SPACE = space
  Targets <- LoopTargets
  MaxMaps = 3
  MaxEdits = 3
INVARIANT DeployTerminates
CHECK_DEADLOCK FALSE
