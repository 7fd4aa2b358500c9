SPECIFICATION HubSpec
CONSTANTS
  g = g
  j = j
  t = t
  k = k
  one = one
  zero = zero
  any = any
  num = num
  none = none
  top = top
  down = down
  insert = insert
  Keys <- MCKeys
  SystemKeys = {any, num}
  UnrealKeys = {any, num}
  RepOf <- MCRepOf
  NoKey = none
  OPTIONAL = any
  OPTNUMBER = num
  TextUnits <- MCTextUnits
  Functions = {top, down, insert}
  ModeFunctions = {insert}
  Modes = {"n", "i"}
  Registries <- MCRegistries
  Raws <- MCRaws
  Requests <- MCRequests
  DigitsOf <- MCDigitsOf
  IntRange = 102
  CountRange = 99
  MaxWaiting = 8
INVARIANTS
  MapsFireInTurn
PROPERTIES
  FunctionsLeaveNoTrace
  CountsAreExact
  QueuesAreEmptied
  KeyboardIsRead
CHECK_DEADLOCK FALSE
