---------------------------- MODULE MCSocial -----------------------------
EXTENDS Social

ShiftF3 == [mods |-> {"shift"}, key |-> "F3"]
Unset == [mods |-> {}, key |-> "none"]

KeyCombos == {ShiftF3, Unset, [mods |-> {"meta"}, key |-> "Tab"], [mods |-> {}, key |-> "F3"]}
==========================================================================
