--------------------------- MODULE MCModeControl ---------------------------
(* Instances of ModeControl.  The tables are what get_default_map() binds, *)
(* of the functions of ModeControl (src/src/bind/mapdefault.cpp).          *)
EXTENDS ModeControl

CONSTANTS editor, vim, null

CommandBound ==
  {"to_gui_normal", "to_resident", "to_gui_visual", "to_edi_normal",
   "to_insert", "to_edi_visual", "window_resizer",
   "enable_targeting", "disable_targeting"}

DefaultBound ==
  [m \in Modes |->
     CASE m = "i"  -> {"to_gui_normal", "to_instant_gui_normal", "to_resident",
                       "to_edi_normal"}
       [] m = "r"  -> {"to_gui_normal", "to_resident", "to_edi_normal", "to_insert"}
       [] m = "gn" -> {"to_gui_normal", "to_resident", "to_gui_visual", "to_command",
                       "to_edi_normal", "to_insert", "click_left",
                       "easy_click_left", "window_resizer"}
       [] m = "gv" -> {"to_gui_normal", "to_resident", "click_left"}
       [] m = "en" -> {"to_gui_normal", "to_resident", "to_command", "to_insert",
                       "to_edi_visual"}
       [] m = "ev" -> {"to_gui_normal", "to_resident", "to_command", "to_edi_normal"}
       [] m = "c"  -> CommandBound]

(* ... and a command that opens another command line.                      *)
NestedBound == [DefaultBound EXCEPT !["c"] = @ \cup {"to_command"}]

MCSettings ==
  { [bound |-> DefaultBound, enabled |-> {}],
    [bound |-> NestedBound, enabled |-> Options] }

=============================================================================
