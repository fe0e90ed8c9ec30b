--------------------------- MODULE MachineHistory ---------------------------
(***************************************************************************)
(* Machine with variables that record what has happened and that no        *)
(* handler reads: they are what an observer with a stopwatch would note    *)
(* down, for the properties that relate a step to the past.                *)
(***************************************************************************)
EXTENDS Machine

VARIABLES
    patternAge,    \* time since the levels on the pins last changed
    userChose      \* has a user changed the mode since power came on, but
                   \* before app_main compared it with the saved one?

history == <<patternAge, userChose>>
hvars   == <<vars, history>>

HInit == Init /\ patternAge = 0 /\ userChose = FALSE

\* One step of Machine and what the observer notes about it.
Observed(step) ==
    /\ step
    /\ patternAge' = IF relays' # relays THEN 0 ELSE patternAge
    /\ UNCHANGED userChose

ObservedUser ==
    /\ User
    /\ patternAge' = IF relays' # relays THEN 0 ELSE patternAge
    /\ userChose' = (userChose \/ (opMode' # opMode /\ phase # "restoring"))

ObservedTick ==
    /\ Tick
    /\ patternAge' = Older(patternAge)
    /\ UNCHANGED userChose

ObservedPowerCycle ==
    /\ PowerCycle
    /\ patternAge' = 0 /\ userChose' = FALSE

HNext == \/ Observed(Boot) \/ Observed(Sensor)
         \/ ObservedUser \/ ObservedTick \/ ObservedPowerCycle

HSpec == HInit /\ [][HNext]_hvars

HFairSpec == HSpec /\ Fairness
-----------------------------------------------------------------------------
\* The automatic mode never stops the motor before it has run at its present
\* speed for longer than the afterrun in force: no order of button presses,
\* web requests, limit changes and reports lets switched_on_timestamp be
\* older than the levels on the pins.
MinimumRunTime ==
    [][AutomaticStep /\ MotorStops => patternAge > afterrun]_hvars

\* app_main's restore of the saved mode never overrides a mode that a user
\* changed, by key or web page, before app_main compared it with the saved
\* one, even if the writes of that change to NVS failed. (A change made between
\* the comparison and the assignment is overridden.)
RestoreKeepsEarlierChoice ==
    [][phase # "running" /\ phase' = "running" /\ userChose
       => opMode' = opMode]_hvars

============================================================================
