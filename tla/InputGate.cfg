SPECIFICATION Spec
CONSTANTS
  ctrl = ctrl
  lctrl = lctrl
  lalt = lalt
  caps = caps
  esc = esc
  tab = tab
  down = down
  f5 = f5
  none = none
  Keys <- MCKeys
  CodeOrder <- MCOrder
  NoKey = none
  Keyboards = {{caps, f5}, {lctrl}}
  RepOf <- MCRepOf
  PhysOf <- MCPhysOf
  Hotkeys <- MCHotkeys
  Toggles = {caps}
  Strokes = {{ctrl, esc}}
  KEYCODE_LALT = lalt
  KEYCODE_TAB = tab
  Arrows = {down}
  EndKeys = {esc}
  Requested = {"normal"}
  Overlap = FALSE
INVARIANTS
  KeyboardAgrees
  AbsorptionUnwinds
PROPERTY
  BlocksKeyMessages
