------------------------------ MODULE Machine ------------------------------
(***************************************************************************)
(* The fan controller: main/state.c with the callers that change its       *)
(* state (buttons, web requests, Zigbee reports, the boot sequence), the   *)
(* relays it drives and the settings store it saves to.                    *)
(*                                                                         *)
(* Every handler here runs from its first to its last statement without    *)
(* interruption, but for the one of app_main: its setOpMode, at the lowest *)
(* priority, compares, writes a line to the log and only then assigns, so  *)
(* that keys, web requests and reports come in between.  MachineTasks      *)
(* breaks all handlers into the statements of their FreeRTOS tasks.        *)
(*                                                                         *)
(* Time is the age of switched_on_timestamp, in units of one tick: the     *)
(* code only ever compares now - timestamp with the afterrun, so nothing   *)
(* tells two ages above every afterrun apart, and ages stop at MaxAge.     *)
(***************************************************************************)
EXTENDS AC400

CONSTANTS
    Forms,    \* limit forms a browser may post, after atoi
    PM,       \* PM2.5 levels the sensor may report
    NaN,      \* a float for which every comparison is false
    MaxAge    \* bound on ages

ASSUME FormsAssumption ==
    Forms \subseteq [low : Int, high : Int, afterrun : Int]
ASSUME PMAssumption == PM \subseteq Int /\ 0 \in PM /\ NaN \notin Int
ASSUME MaxAgeAssumption ==
    /\ MaxAge \in Nat \ {0}
    /\ \A f \in Forms : U16(f.afterrun) < MaxAge

VARIABLES
    phase,     \* how far app_main has got
    newOpMode, \* the argument of app_main's setOpMode, while it runs
    opMode,    \* the globals of state.c
    status,
    sinceOn,   \* age of switched_on_timestamp
    pm,        \* measurements.pm25Level
    relays,    \* levels of the two pins
    cache,     \* the cached_* integers of nvs_store.c
    flash      \* what the NVS partition holds for the same keys

vars == <<phase, newOpMode, opMode, status, sinceOn, pm, relays, cache, flash>>
-----------------------------------------------------------------------------
\* The start functions of app_main, named by the last one that returned;
\* "restoring" is the middle of the setOpMode that ends it.
Phases == {"reset", "stored", "relays", "buttons", "zigbee", "web",
           "restoring", "running"}

LimitKeys == {"low_limit", "high_limit", "afterrun"}
Keys      == LimitKeys \cup {"last_opmode"}

\* The integers as store_start leaves them where no key can be read ...
Default == [k \in Keys |-> CASE k = "low_limit"  -> 50
                            [] k = "high_limit" -> 100
                            [] OTHER            -> 0]

\* ... and where the partition cannot be opened at all.
Zero == [k \in Keys |-> 0]

low_limit  == U16(cache["low_limit"])
high_limit == U16(cache["high_limit"])
afterrun   == U16(cache["afterrun"])

\* air_quality >= limit, false on NaN
AtLeast(level, limit) == level # NaN /\ level >= limit

Older(age) == IF age < MaxAge THEN age + 1 ELSE age

TypeOK ==
    /\ phase \in Phases
    /\ newOpMode \in OpMode
    /\ opMode \in OpMode
    /\ status \in MachineStatus
    /\ sinceOn \in 0 .. MaxAge
    /\ pm \in PM \cup {NaN}
    /\ relays \in Relays
    /\ cache \in [Keys -> Int] /\ cache["last_opmode"] \in OpMode
    /\ flash \in [Keys -> Int] /\ flash["last_opmode"] \in OpMode

\* RAM as the loader zeroes it and an erased partition; until controller_start
\* nothing drives the pins.  Settings flashed with the program (nvs.csv) differ
\* from this as those of a posted form do.
Init ==
    /\ phase = "reset"
    /\ newOpMode = LOCAL_MODE
    /\ opMode = LOCAL_MODE
    /\ status = OFF
    /\ sinceOn = 0
    /\ pm = 0
    /\ relays = Released
    /\ cache = Zero
    /\ flash = Default
-----------------------------------------------------------------------------
(***************************************************************************)
(* nvs_store.c                                                             *)
(***************************************************************************)

\* Each write of a key may fail (the error is logged and dropped), and a
\* power loss may come before it: flash takes any subset of the new values,
\* the cache takes them all.
Save(new) ==
    /\ cache' = [k \in Keys |-> IF k \in DOMAIN new THEN new[k] ELSE cache[k]]
    /\ \E written \in SUBSET DOMAIN new :
           flash' = [k \in Keys |-> IF k \in written THEN new[k] ELSE flash[k]]

\* Faulty variant: the cache keeps the old mode.
SaveLastOpModeUncached(m) ==
    /\ flash' = [flash EXCEPT !["last_opmode"] = m]
    /\ UNCHANGED cache

SaveLastOpMode(m) == Save([k \in {"last_opmode"} |-> m])

SetLimit(low, high, after) ==
    Save([k \in LimitKeys |-> I16(CASE k = "low_limit"  -> low
                                   [] k = "high_limit" -> high
                                   [] k = "afterrun"   -> after)])

(***************************************************************************)
(* state.c                                                                 *)
(***************************************************************************)
SetOpMode(m) ==
    \/ m = opMode /\ UNCHANGED <<opMode, cache, flash>>
    \/ m # opMode /\ opMode' = m /\ SaveLastOpMode(m)

\* Faulty variant: the timestamp of ON_HIGH is forgotten.
SetStatusStampsLow(s) ==
    /\ sinceOn' = IF s = ON_LOW /\ s # status THEN 0 ELSE sinceOn
    /\ relays' = RelaysFor(s)
    /\ status' = s

SetStatus(s) ==
    \/ s = status /\ UNCHANGED <<status, sinceOn, relays>>
    \/ /\ s # status
       /\ sinceOn' = IF s = OFF THEN sinceOn ELSE 0
       /\ relays' = RelaysFor(s)
       /\ status' = s

\* Faulty variant: the afterrun test is the wrong way round.
DecisionInverted(level) ==
    IF AtLeast(level, high_limit)     THEN ON_HIGH
    ELSE IF AtLeast(level, low_limit) THEN ON_LOW
    ELSE IF sinceOn < afterrun        THEN OFF
    ELSE status

\* The status update_state_for_pm_25 asks for.
Decision(level) ==
    IF AtLeast(level, high_limit)     THEN ON_HIGH
    ELSE IF AtLeast(level, low_limit) THEN ON_LOW
    ELSE IF sinceOn > afterrun        THEN OFF
    ELSE status

\* Faulty variant: the sensor moves the motor in every mode.
SetMeasurementsInAnyMode(level) == pm' = level /\ SetStatus(Decision(level))

SetMeasurements(level) ==
    /\ pm' = level
    /\ \/ opMode = AUTO /\ SetStatus(Decision(level))
       \/ opMode # AUTO /\ UNCHANGED <<status, sinceOn, relays>>
-----------------------------------------------------------------------------
(***************************************************************************)
(* app_main                                                                *)
(***************************************************************************)
Goes(from, to)   == phase = from /\ phase' = to
Starts(from, to) == Goes(from, to) /\ UNCHANGED newOpMode

\* store_start: nvs_open may fail; a key that cannot be read, or was never
\* written, keeps its default.
StoreStart ==
    /\ Starts("reset", "stored")
    /\ \/ cache' = Zero
       \/ \E readable \in SUBSET Keys :
              cache' = [k \in Keys |-> IF k \in readable THEN flash[k]
                                                         ELSE Default[k]]
    /\ UNCHANGED <<opMode, status, sinceOn, pm, relays, flash>>

ControllerStart ==
    /\ Starts("stored", "relays")
    /\ relays' = Released
    /\ UNCHANGED <<opMode, status, sinceOn, pm, cache, flash>>

ButtonsStart ==
    /\ Starts("relays", "buttons")
    /\ UNCHANGED <<opMode, status, sinceOn, pm, relays, cache, flash>>

\* wlan_start and logging_start, which touch nothing here, come before it.
ZigbeeStart ==
    /\ Starts("buttons", "zigbee")
    /\ UNCHANGED <<opMode, status, sinceOn, pm, relays, cache, flash>>

WebserverStart ==
    /\ Starts("zigbee", "web")
    /\ UNCHANGED <<opMode, status, sinceOn, pm, relays, cache, flash>>

\* Faulty variant: the mode is assigned without a comparison.
ReadLastOpModeUncompared ==
    /\ newOpMode' = cache["last_opmode"]
    /\ Goes("web", "restoring")
    /\ UNCHANGED <<opMode, status, sinceOn, pm, relays, cache, flash>>

\* setOpMode(store_read_last_op_mode()) up to its comparison ...
ReadLastOpMode ==
    /\ newOpMode' = cache["last_opmode"]
    /\ Goes("web", IF newOpMode' = opMode THEN "running" ELSE "restoring")
    /\ UNCHANGED <<opMode, status, sinceOn, pm, relays, cache, flash>>

\* ... and the rest of it, after the log line.  Nothing is compared again.
RestoreOpMode ==
    /\ Starts("restoring", "running")
    /\ opMode' = newOpMode /\ SaveLastOpMode(newOpMode)
    /\ UNCHANGED <<status, sinceOn, pm, relays>>

\* Power loss at any time, or the esp_restart of handle_credentials and of
\* the update task.
PowerCycle ==
    /\ phase' = "reset"
    /\ newOpMode' = LOCAL_MODE
    /\ opMode' = LOCAL_MODE
    /\ status' = OFF
    /\ sinceOn' = 0
    /\ pm' = 0
    /\ relays' = Released
    /\ cache' = Zero
    /\ UNCHANGED flash

(***************************************************************************)
(* button_controller.c                                                     *)
(***************************************************************************)
\* Faulty variant: the buttons are registered before the relays are set up.
ButtonsUpEarly == phase # "reset"

ButtonsUp == phase \in {"buttons", "zigbee", "web", "restoring", "running"}

PressMode ==
    /\ ButtonsUp
    /\ SetOpMode(Advance(opMode))
    /\ UNCHANGED <<phase, newOpMode, status, sinceOn, pm, relays>>

\* The second handleStateChange of advanceStatus drives the pins to the
\* levels setStatus has just left.
PressStatus ==
    /\ ButtonsUp
    /\ SetOpMode(LOCAL_MODE)
    /\ SetStatus(Advance(status))
    /\ UNCHANGED <<phase, newOpMode, pm>>

(***************************************************************************)
(* webserver.c                                                             *)
(***************************************************************************)
WebUp == phase \in {"web", "restoring", "running"}

WebOperation(s) ==
    /\ WebUp
    /\ SetStatus(s)
    /\ SetOpMode(API)
    /\ UNCHANGED <<phase, newOpMode, pm>>

WebAuto ==
    /\ WebUp
    /\ SetOpMode(AUTO)
    /\ UNCHANGED <<phase, newOpMode, status, sinceOn, pm, relays>>

HandleLimits(f) ==
    /\ WebUp
    /\ SetLimit(U16(f.low), U16(f.high), U16(f.afterrun))
    /\ UNCHANGED <<phase, newOpMode, opMode, status, sinceOn, pm, relays>>

(***************************************************************************)
(* esp_zigbee_gateway.c                                                    *)
(***************************************************************************)
ZigbeeUp == phase \in {"zigbee", "web", "restoring", "running"}

PMReport(level) ==
    /\ ZigbeeUp
    /\ SetMeasurements(level)
    /\ UNCHANGED <<phase, newOpMode, opMode, cache, flash>>

\* Temperature, humidity and unknown clusters re-apply the last PM2.5 level.
OtherReport == PMReport(pm)

Tick ==
    /\ sinceOn' = Older(sinceOn)
    /\ UNCHANGED <<phase, newOpMode, opMode, status, pm, relays, cache, flash>>
-----------------------------------------------------------------------------
Boot == \/ StoreStart  \/ ControllerStart \/ ButtonsStart
        \/ ZigbeeStart \/ WebserverStart  \/ ReadLastOpMode
        \/ RestoreOpMode

User == \/ PressMode \/ PressStatus \/ WebAuto
        \/ \E s \in MachineStatus : WebOperation(s)
        \/ \E f \in Forms : HandleLimits(f)

Sensor == OtherReport \/ \E level \in PM \cup {NaN} : PMReport(level)

Next == Boot \/ User \/ Sensor \/ Tick \/ PowerCycle

Spec == Init /\ [][Next]_vars

\* configureReport asks the sensor for a report at least every 5 seconds.
Fairness == WF_vars(Tick) /\ WF_vars(Sensor)
-----------------------------------------------------------------------------
(***************************************************************************)
(* Properties                                                              *)
(***************************************************************************)

\* The pins always carry the levels of the recorded status: whichever of the
\* five callers of setStatus ran last, at whatever point of the boot.
RelaysFollowStatus == relays = RelaysFor(status)

\* Until the buttons are registered nobody can have moved the motor or the
\* mode, which is why controller_start may release the relays unasked and
\* store_start may replace the cache.
QuietUntilButtons ==
    phase \in {"reset", "stored", "relays"} =>
        opMode = LOCAL_MODE /\ status = OFF

\* The cache, which the next boot restores from, always holds the mode in
\* effect, except that before app_main restores it the mode may still be the
\* zeroed LOCAL.
ModeCached ==
    \/ cache["last_opmode"] = opMode
    \/ phase # "running" /\ opMode = LOCAL_MODE

\* What a PM2.5 level calls for once every afterrun has passed.
Demand(level) ==
    CASE AtLeast(level, high_limit) -> ON_HIGH
      [] ~AtLeast(level, high_limit) /\ AtLeast(level, low_limit) -> ON_LOW
      [] OTHER -> OFF

\* In AUTO the motor ends up at the speed the air calls for and stays there,
\* however it was running when AUTO was entered, as long as the level and the
\* limits keep calling for that speed.
AutoConverges ==
    \A s \in MachineStatus :
        <>[](phase = "running" /\ opMode = AUTO /\ Demand(pm) = s)
            => <>[](relays = RelaysFor(s))

\* A step of the automatic mode: neither a user nor the boot nor a power
\* cycle takes part in it.
AutomaticStep == opMode = AUTO /\ opMode' = AUTO /\ phase' = phase

MotorStops == relays # Released /\ relays' = Released

\* data/index.html asks for the "Engine Afterrun (seconds)": with one set, the
\* report that first finds the air clean would leave the motor running.
AfterrunFollowsPollution ==
    [][AutomaticStep /\ MotorStops /\ afterrun > 0 => Demand(pm) = OFF]_vars
-----------------------------------------------------------------------------
(***************************************************************************)
(* The promise of FanPromise, kept by the motor itself: its speed is read  *)
(* off the pins, not off the status the program believes in.               *)
(***************************************************************************)
Speed == SpeedOf(relays)

Boots(p) == IF p \in {"restoring", "running"} THEN p ELSE "booting"

Promise == INSTANCE FanPromise
    WITH boot <- Boots(phase), mode <- opMode, speed <- Speed

\* Seen from outside, the controller does what FanPromise says and nothing
\* else: only AUTO lets the sensor move the motor, a web command takes speed
\* and mode together, the boot never moves the motor.
KeepsPromise == Promise!Spec

============================================================================
