SPECIFICATION Spec
CONSTANTS
  editor = editor
  vim = vim
  null = null
  Windows = {editor, vim}
  NoWindow = null
  VimWindows = {vim}
  Settings <- MCSettings
  Requests = {"to_gui_normal", "to_insert", "to_resident",
              "to_gui_visual", "to_command"}
  InitMode = "i"
  MaxDepth = 3
INVARIANTS
  ModesUnwind
  BlocksKeyMessages
