SPECIFICATION Spec
CONSTANTS
  e = e
  d = d
  shift = shift
  esc = esc
  bs = bs
  upkey = upkey
  downkey = downkey
  enter = enter
  any = any
  num = num
  none = none
  edit = edit
  delete = delete
  exit = exit
  Keys <- MCKeys
  SystemKeys <- MCSystemKeys
  UnrealKeys = {shift, any, num}
  RepOf <- MCRepOf
  NoKey = none
  OPTIONAL = any
  OPTNUMBER = num
  TextUnits <- MCTextUnits
  Functions = {edit, delete, exit}
  ModeFunctions = {edit}
  Tables <- MCTables
  Inputs <- MCInputs
  ESC = esc
  BKSPACE = bs
  UP = upkey
  DOWN = downkey
  ENTER = enter
  MaxLines = 3
  MaxUnits = 2
  MaxHistory = 3
INVARIANTS
  EntersTheLine
PROPERTIES
  ImplementsEditor
CHECK_DEADLOCK FALSE
