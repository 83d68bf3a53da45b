------------------------------ MODULE MCDrivers ------------------------------
(***************************************************************************)
(* The three driver classes, one per behaviour, each alone with the event  *)
(* queue, the other senders and the application task; InputTask puts them  *)
(* together.  A contact bounces within a debounce of three ticks.  A       *)
(* counter of -2..2 saturates at both ends; a shaft up to three edges      *)
(* ahead of the polls produces valid, invalid and aliased transitions.     *)
(* Raw readings are out of range at both ends, on both sides of a          *)
(* percentage step, and at percentages 0, 1, 2, 3, 99 and 100: neighbours  *)
(* less than, exactly and more than a deadband of two apart.               *)
(***************************************************************************)
EXTENDS RotaryEncoder, AnalogInput, DigitalInput

VARIABLE driver     \* "contact", "encoder" or "slider": the one at work

shaftVars == <<turned, encoderVars, historyVars>>
slideVars == <<reading, analogVars, announced>>
pressVars == <<pinVars, contactFields, contactHistory>>
driversVars == <<driver, queue, shaftVars, slideVars, pressVars>>

(* One of each initial state for the drivers that are not at work.         *)
AtRest ==
    /\ driver # "contact" => level = "inactive"
    /\ driver # "encoder" => previousState = 0
    /\ driver # "slider" => reading = 0

DriversInit ==
    /\ driver \in {"contact", "encoder", "slider"}
    /\ ContactInit /\ Init /\ SliderInit /\ AtRest

ContactAlone == driver = "contact" /\ UNCHANGED <<driver, shaftVars, slideVars>>

EncoderAlone == driver = "encoder" /\ UNCHANGED <<driver, pressVars, slideVars>>

SliderAlone == driver = "slider" /\ UNCHANGED <<driver, pressVars, shaftVars>>

DriversNext ==
    \/ ContactNext /\ ContactAlone
    \/ Next /\ EncoderAlone
    \/ SliderNext /\ SliderAlone

(* The input task polls for ever, time passes, the application task (of    *)
(* higher priority) empties the queue, and an update() that finds room     *)
(* again and again gets it once.                                           *)
DriversSpec ==
    /\ DriversInit /\ [][DriversNext]_driversVars
    /\ WF_driversVars(ContactUpdate /\ ContactAlone)
    /\ WF_driversVars(Tick /\ ContactAlone)
    /\ WF_driversVars(ContactDrained /\ ContactAlone)
    /\ SF_driversVars(ContactReports /\ ContactAlone)

(* DigitalInput's LevelReported, of a contact that is at work.             *)
LastingLevelReported == driver = "contact" => LevelReported

MCCountMin == -2
MCCounts == -2..100
MCReadings == {-1, 0, 40, 41, 82, 123, 4054, 4094, 4095, 4096}
=============================================================================
