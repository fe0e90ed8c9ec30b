------------------------------- MODULE AC400 -------------------------------
(***************************************************************************)
(* The vocabulary shared by the AC400 modules: the enumerations of         *)
(* main/constants.h, the two relay outputs of main/relay_controller.c and  *)
(* the integer conversions between the web form, the settings cache and    *)
(* the control loop (main/webserver.c, main/nvs_store.c).                  *)
(***************************************************************************)
EXTENDS Integers

\* enum OpMode.  The C name LOCAL is a reserved word of TLA+.
LOCAL_MODE == 0
AUTO       == 1
API        == 2
OpMode     == {LOCAL_MODE, AUTO, API}

\* enum MachineStatus
OFF     == 0
ON_LOW  == 1
ON_HIGH == 2
MachineStatus == {OFF, ON_LOW, ON_HIGH}

\* Faulty variant: the modulo is missing.
AdvanceUnwrapped(x) == x + 1

\* The (x + 1) % 3 of advanceOpMode and advanceStatus.
Advance(x) == (x + 1) % 3

(***************************************************************************)
(* A relay is driven by an active-low pin: level 0 energises one speed of  *)
(* the motor, level 1 releases it.                                         *)
(***************************************************************************)
Pins     == {"low_speed", "high_speed"}
Relays   == [Pins -> {0, 1}]
Released == [p \in Pins |-> 1]

\* The pin that a status pulls to 0 after both have been set to 1.
EnergisedBy(s) == {p \in Pins : \/ s = ON_LOW  /\ p = "low_speed"
                                \/ s = ON_HIGH /\ p = "high_speed"}

\* What handleStateChange leaves on the pins when nothing interferes.
RelaysFor(s) == [p \in Pins |-> IF p \in EnergisedBy(s) THEN 0 ELSE 1]

\* The speed that a pattern of levels gives the motor.  Both relays at once is
\* no speed at all.
Conflict == 3
SpeedOf(levels) ==
    IF \E s \in MachineStatus : levels = RelaysFor(s)
    THEN CHOOSE s \in MachineStatus : levels = RelaysFor(s)
    ELSE Conflict

(***************************************************************************)
(* A limit is an int from the form (atoi), narrowed to uint16_t by         *)
(* handle_limits, kept as int16_t in the cache and in NVS, and widened     *)
(* again as uint16_t by its getter.                                        *)
(***************************************************************************)
U16(v) == v % 65536
I16(v) == ((v + 32768) % 65536) - 32768

============================================================================
