---------------------------- MODULE StateManager ----------------------------
(***************************************************************************)
(* state/StateManager.cpp, the station's logical state, and                *)
(* outputs/OutputManager.cpp with drivers/LedDriver.cpp, the status lamp.  *)
(* Only the application task calls either: they are functions from an old  *)
(* value and an event to a new one.                                        *)
(***************************************************************************)
EXTENDS Events

CONSTANT LedActiveHigh      \* LedDriver's activeHigh_
ASSUME LedActiveHighAssumption == LedActiveHigh \in BOOLEAN

Stations ==
    [button : BOOLEAN, toggle : BOOLEAN, encoder : Values, analog : Values,
     output : BOOLEAN]

InitialStation ==
    [button |-> FALSE, toggle |-> FALSE, encoder |-> 0, analog |-> 0,
     output |-> FALSE]

(* StateManager::handleEvent                                               *)
StateAfter(s, e) ==
    CASE e.type = "ButtonPressed"  -> [s EXCEPT !.button = TRUE]
      [] e.type = "ButtonReleased" -> [s EXCEPT !.button = FALSE]
      [] e.type = "ToggleChanged"  -> [s EXCEPT !.toggle = e.value # 0]
      [] e.type = "EncoderChanged" -> [s EXCEPT !.encoder = e.value]
      [] e.type = "AnalogChanged"  -> [s EXCEPT !.analog = e.value]
      [] e.type \in CommandTypes   -> [s EXCEPT !.output = e.value # 0]
      [] OTHER -> s

(* LedDriver::writeState: the level of the pin that shows the lamp on/off. *)
LedLevel(on) == IF on = LedActiveHigh THEN 1 ELSE 0

(* OutputManager::handleEvent on the pin's level.                          *)
LedAfter(level, e) ==
    IF e.type \in CommandTypes THEN LedLevel(e.value # 0) ELSE level

(* The value a backend would have to show for each source to agree with s. *)
StationValue(s, source) ==
    CASE source = 1 -> IF s.button THEN 1 ELSE 0
      [] source = 2 -> IF s.toggle THEN 1 ELSE 0
      [] source = 3 -> s.encoder
      [] OTHER      -> s.analog

=============================================================================
