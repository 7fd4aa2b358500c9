SPECIFICATION Spec
CONSTANTS
  a = a
  b = b
  c = c
  space = space
  any = any
  num = num
  none = none
  click = click
  insert = insert
  Keys <- MCKeys
  SystemKeys = {any, num}
  UnrealKeys = {any, num}
  RepOf <- MCRepOf
  NoKey = none
  OPTIONAL = any
  OPTNUMBER = num
  TextUnits <- MCTextUnits
  Functions = {click, insert}
  ModeFunctions = {insert}
  Defaults <- MCDefaults
  Triggers <- MCTriggers
  Commands <- MCCommands
  SPACE = space
  Targets <- MCTargets
  MaxMaps = 2
  MaxEdits = 1
INVARIANTS
  TablesAgree
  OrderIrrelevant
  NoremapAlone
PROPERTIES
  DefaultsSurvive
  NoTraceOfRemoved
  CommandsTakeArguments
CHECK_DEADLOCK FALSE
