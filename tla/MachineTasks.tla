---------------------------- MODULE MachineTasks ----------------------------
(***************************************************************************)
(* The handlers of Machine as the FreeRTOS tasks run them on the one core  *)
(* of the ESP32-C6: none of the globals of state.c is locked, so a handler *)
(* can be interrupted between any two of its statements.                   *)
(*                                                                         *)
(*   timer   esp_timer task, priority 22: the button callbacks             *)
(*   httpd   web server task, priority 5                                   *)
(*   zigbee  Zigbee_main task, priority 5: the attribute reports           *)
(*   main    app_main, priority 1: the restore of the saved mode           *)
(*                                                                         *)
(* A task runs only while every task of higher priority waits; tasks of    *)
(* equal priority are time-sliced.  The one statement in which a handler   *)
(* can wait is the NVS write: the flash driver sleeps during an erase      *)
(* (CONFIG_SPI_FLASH_YIELD_DURING_ERASE).                                  *)
(*                                                                         *)
(* A handler is the sequence of statements it has yet to execute; each     *)
(* statement is a record of an operation and its argument, kept where the  *)
(* compiled code keeps it in a register.  Limits are fixed here: a report  *)
(* carries the speed its level calls for, and expired stands for           *)
(* now - afterrun > switched_on_timestamp.                                 *)
(***************************************************************************)
EXTENDS AC400, FiniteSets, Sequences

CONSTANTS
    Serial,    \* TRUE: a handler starts only when no other is under way
    Active,    \* the tasks that receive events; the others stay idle
    Requested, \* the speeds asked for on the web page
    Reported   \* the speeds the reported levels call for

Tasks    == {"timer", "httpd", "zigbee", "main"}
Priority == [t \in Tasks |-> CASE t = "timer" -> 22
                               [] t = "main"  -> 1
                               [] OTHER       -> 5]

ASSUME SerialAssumption == Serial \in BOOLEAN
ASSUME ActiveAssumption == Active \subseteq Tasks
ASSUME SpeedsAssumption == Requested \cup Reported \subseteq MachineStatus

VARIABLES
    opMode, status, expired,    \* state.c
    relays,                     \* the two pins
    cached, flash,              \* last_opmode in the cache and in NVS
    restored,                   \* has app_main called its last setOpMode?
    code,                       \* what each task has yet to execute
    raced,                      \* observer: have two setStatus sections met?
    racedMode,                  \* observer: have two setOpMode sections met?
    unsaved                     \* observer: did the last access to NVS fail?

state == <<opMode, status, expired, relays, cached, flash, restored, code>>
vars  == <<state, raced, racedMode, unsaved>>

Ops == {"check_mode", "assign_mode", "cache_mode", "write_mode",
        "advance_mode", "check_status", "stamp", "release_low",
        "release_high", "energise", "record_status", "advance_status",
        "redrive", "check_auto", "decide"}

Statement == [op : Ops, arg : OpMode \cup MachineStatus]
Do(o, a)  == [op |-> o, arg |-> a]

Idle(t) == code[t] = <<>>
AllIdle == \A t \in Tasks : Idle(t)

\* After store_start: a mode that could not be read leaves the cache zeroed.
Init ==
    /\ opMode = LOCAL_MODE /\ status = OFF /\ expired = FALSE
    /\ relays = Released
    /\ flash \in OpMode /\ cached \in {flash, LOCAL_MODE}
    /\ restored = FALSE
    /\ code = [t \in Tasks |-> <<>>]
    /\ raced = FALSE /\ racedMode = FALSE
    /\ unsaved = (cached # flash)
-----------------------------------------------------------------------------
(***************************************************************************)
(* Scheduling                                                              *)
(***************************************************************************)
At(t, op)  == ~Idle(t) /\ Head(code[t]).op = op
Arg(t)     == Head(code[t]).arg
Waiting(t) == Idle(t) \/ At(t, "write_mode")
MayRun(t)  == \A u \in Tasks : Priority[u] > Priority[t] => Waiting(u)

\* The next statement of t, to be replaced by others (none: it is done).
Executes(t, op)  == At(t, op) /\ MayRun(t)
Continue(t, seq) == code' = [code EXCEPT ![t] = seq \o Tail(@)]
Done(t)          == Continue(t, << >>)

(***************************************************************************)
(* setOpMode                                                               *)
(***************************************************************************)
\* Faulty variant: the mode is saved before it is assigned.
CheckModeSavingFirst(t) ==
    /\ Executes(t, "check_mode")
    /\ IF Arg(t) = opMode THEN Done(t)
       ELSE Continue(t, << Do("cache_mode", Arg(t)), Do("assign_mode", Arg(t)) >>)
    /\ UNCHANGED <<opMode, status, expired, relays, cached, flash, restored>>

CheckMode(t) ==
    /\ Executes(t, "check_mode")
    /\ IF Arg(t) = opMode THEN Done(t)
       ELSE Continue(t, << Do("assign_mode", Arg(t)), Do("cache_mode", Arg(t)) >>)
    /\ UNCHANGED <<opMode, status, expired, relays, cached, flash, restored>>

AssignMode(t) ==
    /\ Executes(t, "assign_mode")
    /\ opMode' = Arg(t) /\ Done(t)
    /\ UNCHANGED <<status, expired, relays, cached, flash, restored>>

\* store_save_last_op_mode(opMode): the argument is the new mode, still in a
\* register, or the global read again.
CacheMode(t) ==
    /\ Executes(t, "cache_mode")
    /\ \E m \in {Arg(t), opMode} :
           cached' = m /\ Continue(t, << Do("write_mode", m) >>)
    /\ UNCHANGED <<opMode, status, expired, relays, flash, restored>>

\* writeInt logs the error of a write that fails, and goes on.
WriteMode(t) ==
    /\ Executes(t, "write_mode")
    /\ flash' \in {Arg(t), flash} /\ Done(t)
    /\ UNCHANGED <<opMode, status, expired, relays, cached, restored>>

AdvanceMode(t) ==
    /\ Executes(t, "advance_mode")
    /\ Continue(t, << Do("check_mode", Advance(opMode)) >>)
    /\ UNCHANGED <<opMode, status, expired, relays, cached, flash, restored>>

(***************************************************************************)
(* setStatus, with handleStateChange inside                                *)
(***************************************************************************)

\* Faulty variant: the other pin is not released first.
DriveWithoutRelease(s) == << Do("energise", s) >>

Drive(s) == << Do("release_low", s), Do("release_high", s), Do("energise", s) >>

CheckStatus(t) ==
    /\ Executes(t, "check_status")
    /\ IF Arg(t) = status THEN Done(t)
       ELSE Continue(t, << Do("stamp", Arg(t)) >> \o Drive(Arg(t))
                            \o << Do("record_status", Arg(t)) >>)
    /\ UNCHANGED <<opMode, status, expired, relays, cached, flash, restored>>

Stamp(t) ==
    /\ Executes(t, "stamp")
    /\ expired' = (expired /\ Arg(t) = OFF) /\ Done(t)
    /\ UNCHANGED <<opMode, status, relays, cached, flash, restored>>

ReleaseLow(t) ==
    /\ Executes(t, "release_low")
    /\ relays' = [relays EXCEPT !["low_speed"] = 1] /\ Done(t)
    /\ UNCHANGED <<opMode, status, expired, cached, flash, restored>>

ReleaseHigh(t) ==
    /\ Executes(t, "release_high")
    /\ relays' = [relays EXCEPT !["high_speed"] = 1] /\ Done(t)
    /\ UNCHANGED <<opMode, status, expired, cached, flash, restored>>

Energise(t) ==
    /\ Executes(t, "energise")
    /\ relays' = [p \in Pins |-> IF p \in EnergisedBy(Arg(t)) THEN 0
                                                             ELSE relays[p]]
    /\ Done(t)
    /\ UNCHANGED <<opMode, status, expired, cached, flash, restored>>

RecordStatus(t) ==
    /\ Executes(t, "record_status")
    /\ status' = Arg(t) /\ Done(t)
    /\ UNCHANGED <<opMode, expired, relays, cached, flash, restored>>

(***************************************************************************)
(* advanceStatus: setStatus, then handleStateChange on the status read     *)
(* again                                                                   *)
(***************************************************************************)
AdvanceStatus(t) ==
    /\ Executes(t, "advance_status")
    /\ Continue(t, << Do("check_status", Advance(status)) >>)
    /\ UNCHANGED <<opMode, status, expired, relays, cached, flash, restored>>

\* Faulty variant: the argument, not the recorded status, is driven.
RedriveArgument(t) ==
    /\ Executes(t, "redrive")
    /\ Continue(t, Drive(Arg(t)))
    /\ UNCHANGED <<opMode, status, expired, relays, cached, flash, restored>>

Redrive(t) ==
    /\ Executes(t, "redrive")
    /\ Continue(t, Drive(status))
    /\ UNCHANGED <<opMode, status, expired, relays, cached, flash, restored>>

(***************************************************************************)
(* setMeasurements and update_state_for_pm_25                              *)
(***************************************************************************)
\* Faulty variant: the mode is not tested.
CheckAutoNever(t) ==
    /\ Executes(t, "check_auto")
    /\ Continue(t, << Do("decide", Arg(t)) >>)
    /\ UNCHANGED <<opMode, status, expired, relays, cached, flash, restored>>

CheckAuto(t) ==
    /\ Executes(t, "check_auto")
    /\ IF opMode = AUTO THEN Continue(t, << Do("decide", Arg(t)) >>) ELSE Done(t)
    /\ UNCHANGED <<opMode, status, expired, relays, cached, flash, restored>>

Decide(t) ==
    /\ Executes(t, "decide")
    /\ IF Arg(t) # OFF \/ expired
       THEN Continue(t, << Do("check_status", Arg(t)) >>) ELSE Done(t)
    /\ UNCHANGED <<opMode, status, expired, relays, cached, flash, restored>>
-----------------------------------------------------------------------------
(***************************************************************************)
(* Handlers                                                                *)
(***************************************************************************)
Start(t, seq) ==
    /\ t \in Active /\ Idle(t) /\ MayRun(t)
    /\ Serial => AllIdle
    /\ code' = [code EXCEPT ![t] = seq]
    /\ UNCHANGED <<opMode, status, expired, relays, cached, flash>>

StatusPress == << Do("check_mode", LOCAL_MODE), Do("advance_status", OFF),
                  Do("redrive", OFF) >>

PressMode ==
    /\ Start("timer", << Do("advance_mode", OFF) >>)
    /\ UNCHANGED restored

PressStatus ==
    /\ Start("timer", StatusPress)
    /\ UNCHANGED restored

WebOperation(s) ==
    /\ Start("httpd", << Do("check_status", s), Do("check_mode", API) >>)
    /\ UNCHANGED restored

WebAuto ==
    /\ Start("httpd", << Do("check_mode", AUTO) >>)
    /\ UNCHANGED restored

Report(s) ==
    /\ Start("zigbee", << Do("check_auto", s) >>)
    /\ UNCHANGED restored

\* setOpMode(store_read_last_op_mode()), once.
RestoreOpMode ==
    /\ ~restored
    /\ Start("main", << Do("check_mode", cached) >>)
    /\ restored' = TRUE

\* The afterrun is over.  A report compares with a time it has read first,
\* so no time passes for it while it is under way.
Expire ==
    /\ Idle("zigbee")
    /\ expired' = TRUE
    /\ UNCHANGED <<opMode, status, relays, cached, flash, restored, code>>
-----------------------------------------------------------------------------
(***************************************************************************)
(* The observer.  A setStatus section is open from the test of status to   *)
(* its assignment, a redrive from the read of status to the last pin; a    *)
(* setOpMode section from the test of opMode to the end of the NVS write.  *)
(* An access to NVS fails when it leaves the cache and NVS different.      *)
(***************************************************************************)
StatusOps == {"stamp", "release_low", "release_high", "energise",
              "record_status"}
ModeOps   == {"assign_mode", "cache_mode", "write_mode"}

InSection(t, ops) == ~Idle(t) /\ Head(code[t]).op \in ops
Meeting(ops) == Cardinality({t \in Tasks : InSection(t, ops)}) > 1

\* The last statement of the STATUS key's callback.
PressEnds == At("timer", "energise") /\ Len(code["timer"]) = 1

\* The tasks whose write ends in this step.
Writing == {t \in Tasks : At(t, "write_mode") /\ code'[t] # code[t]}

\* A STATUS key press with no other setStatus section open sets things right.
Observe ==
    /\ raced' = \/ Meeting(StatusOps)'
                \/ /\ raced
                   /\ PressEnds /\ Idle("timer")' =>
                          \E t \in Tasks : InSection(t, StatusOps)'
    /\ racedMode' = (racedMode \/ Meeting(ModeOps)')
    /\ unsaved' = IF Writing = {} THEN unsaved
                  ELSE \E t \in Writing : flash' # Arg(t)

Execute(t) == \/ CheckMode(t)   \/ AssignMode(t)    \/ CacheMode(t)
              \/ WriteMode(t)   \/ AdvanceMode(t)   \/ CheckStatus(t)
              \/ Stamp(t)       \/ ReleaseLow(t)    \/ ReleaseHigh(t)
              \/ Energise(t)    \/ RecordStatus(t)  \/ AdvanceStatus(t)
              \/ Redrive(t)     \/ CheckAuto(t)     \/ Decide(t)

Event == \/ PressMode \/ PressStatus \/ WebAuto \/ RestoreOpMode
         \/ \E s \in Requested : WebOperation(s)
         \/ \E s \in Reported : Report(s)

Next == (Event \/ Expire \/ \E t \in Tasks : Execute(t)) /\ Observe

Spec == Init /\ [][Next]_vars
-----------------------------------------------------------------------------
TypeOK ==
    /\ opMode \in OpMode /\ status \in MachineStatus /\ expired \in BOOLEAN
    /\ relays \in Relays
    /\ cached \in OpMode /\ flash \in OpMode
    /\ restored \in BOOLEAN
    /\ code \in [Tasks -> Seq(Statement)]
    /\ raced \in BOOLEAN /\ racedMode \in BOOLEAN /\ unsaved \in BOOLEAN

\* Once its callback has returned, the STATUS key has put the motor at the
\* recorded status: handleStateChange at the end of advanceStatus repairs
\* whatever another handler had left half done.
PressWins ==
    [][PressEnds /\ Idle("timer")' => relays' = RelaysFor(status')]_vars

\* When no handler is under way the pins show the recorded status, unless two
\* setStatus sections have met since the last STATUS press: every other
\* overlap of the four tasks is harmless to the motor.
OnlyRacesDisagree == AllIdle /\ ~raced => relays = RelaysFor(status)

\* When no handler is under way the cache holds the mode in effect, and NVS
\* holds it too if its last access succeeded, unless two setOpMode sections
\* have met: nothing but such an overlap or the flash itself lets the next boot
\* restore another mode.
OnlyRacesLoseMode ==
    AllIdle /\ ~racedMode =>
        /\ cached = opMode \/ (~restored /\ opMode = LOCAL_MODE)
        /\ flash = cached \/ unsaved

\* data/index.html and the display show the status as "Operation Status": at
\* rest it would be what the motor does.
OperationStatusIsMotorSpeed == AllIdle => relays = RelaysFor(status)

============================================================================
