---------------------------- MODULE FanPromise ----------------------------
(***************************************************************************)
(* What the fan promises to the people around it: an operating mode and a  *)
(* motor speed, and who may change which of them.  No relays, timestamps,  *)
(* limits or storage.                                                      *)
(*                                                                         *)
(*   - the MODE key steps through the modes and leaves the motor alone;    *)
(*   - the STATUS key takes local control and steps through the speeds;    *)
(*   - the web page sets a speed and takes control with the same click, or *)
(*     hands control to the sensor and leaves the motor alone;             *)
(*   - the sensor moves the motor in AUTO only, and never the mode;        *)
(*   - the end of the boot may replace the mode once, provided that it     *)
(*     finds it LOCAL, and leaves the motor alone; it may look first and   *)
(*     replace later, and then what was chosen in between is lost;         *)
(*   - a power cycle stops the motor.                                      *)
(***************************************************************************)
EXTENDS AC400

VARIABLES
    boot,      \* "booting", "restoring" the mode, or "running"
    mode, speed

vars == <<boot, mode, speed>>

TypeOK ==
    /\ boot \in {"booting", "restoring", "running"}
    /\ mode \in OpMode /\ speed \in MachineStatus

Init == boot = "booting" /\ mode = LOCAL_MODE /\ speed = OFF

ModeKey == mode' = Advance(mode) /\ UNCHANGED <<boot, speed>>

StatusKey ==
    mode' = LOCAL_MODE /\ speed' = Advance(speed) /\ UNCHANGED boot

Operate(s) == mode' = API /\ speed' = s /\ UNCHANGED boot

HandOver == mode' = AUTO /\ UNCHANGED <<boot, speed>>

Sense ==
    /\ mode = AUTO
    /\ speed' \in MachineStatus
    /\ UNCHANGED <<boot, mode>>

FinishBoot ==
    /\ boot = "booting" /\ boot' = "running"
    /\ mode' \in IF mode = LOCAL_MODE THEN OpMode ELSE {mode}
    /\ UNCHANGED speed

BeginRestore ==
    /\ boot = "booting" /\ boot' = "restoring"
    /\ mode = LOCAL_MODE
    /\ UNCHANGED <<mode, speed>>

EndRestore ==
    /\ boot = "restoring" /\ boot' = "running"
    /\ mode' \in OpMode
    /\ UNCHANGED speed

PowerCycle == boot' = "booting" /\ mode' = LOCAL_MODE /\ speed' = OFF

Next == \/ ModeKey \/ StatusKey \/ HandOver \/ Sense
        \/ FinishBoot \/ BeginRestore \/ EndRestore
        \/ \E s \in MachineStatus : Operate(s)
        \/ PowerCycle

Spec == Init /\ [][Next]_vars

============================================================================
