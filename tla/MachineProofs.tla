--------------------------- MODULE MachineProofs ---------------------------
(***************************************************************************)
(* Proofs about Machine and MachineHistory for every set of forms, every   *)
(* set of PM2.5 levels and every bound on ages.                            *)
(*                                                                         *)
(* IInv is inductive: types, pins that follow the status, and the cache    *)
(* that follows the mode.  The promise of FanPromise follows from it.      *)
(***************************************************************************)
EXTENDS MachineHistory, TLAPS

IInv == TypeOK /\ RelaysFollowStatus /\ QuietUntilButtons /\ ModeCached

USE DEF OpMode, MachineStatus, LOCAL_MODE, AUTO, API, OFF, ON_LOW, ON_HIGH,
        Promise!OpMode, Promise!MachineStatus, Promise!LOCAL_MODE, Promise!AUTO,
        Promise!API, Promise!OFF, Promise!ON_LOW, Promise!ON_HIGH,
        Promise!Advance

-----------------------------------------------------------------------------
\* The narrowing of a limit on its way through the form, the cache and the
\* getter loses nothing that the form handler had kept: get_*_limit returns
\* what handle_limits passed to set_limit.
THEOREM LimitRoundTrip ==
    ASSUME NEW v \in Int
    PROVE  U16(I16(U16(v))) = U16(v)
  <1>1. \A a \in Int : 0 <= a /\ a < 65536 => a % 65536 = a
    OBVIOUS
  <1>2. \A a \in Int : 65536 <= a /\ a < 131072 => a % 65536 = a - 65536
    OBVIOUS
  <1>3. \A a \in Int : -65536 <= a /\ a < 0 => a % 65536 = a + 65536
    OBVIOUS
  <1>4. PICK u \in Int : u = U16(v) /\ 0 <= u /\ u < 65536
    BY DEF U16
  <1>5. CASE u < 32768
    <2>1. I16(u) = u
      BY <1>1, <1>4, <1>5 DEF I16
    <2> QED  BY <1>1, <1>4, <2>1 DEF U16
  <1>6. CASE ~(u < 32768)
    <2>1. I16(u) = u - 65536
      BY <1>2, <1>4, <1>6 DEF I16
    <2>2. U16(u - 65536) = u
      BY <1>3, <1>4 DEF U16
    <2> QED  BY <1>4, <2>1, <2>2
  <1> QED  BY <1>5, <1>6

LEMMA I16Type == ASSUME NEW v \in Int PROVE I16(v) \in Int /\ U16(v) \in Int
  BY DEF I16, U16

\* Different statuses drive different levels, so the levels tell the status.
LEMMA LevelsTellStatus ==
    ASSUME NEW s \in MachineStatus, NEW t \in MachineStatus,
           RelaysFor(s) = RelaysFor(t)
    PROVE  s = t
  <1> DEFINE R(u) == RelaysFor(u)
  <1>1. \A u \in MachineStatus :
            /\ R(u)["low_speed"]  = IF u = ON_LOW  THEN 0 ELSE 1
            /\ R(u)["high_speed"] = IF u = ON_HIGH THEN 0 ELSE 1
    BY DEF RelaysFor, EnergisedBy, Pins
  <1> QED  BY <1>1

LEMMA RelaysForType ==
    /\ \A s \in MachineStatus : RelaysFor(s) \in Relays
    /\ Released = RelaysFor(OFF)
  BY DEF RelaysFor, Released, Relays, EnergisedBy, Pins

-----------------------------------------------------------------------------
(***************************************************************************)
(* The helpers the handlers are made of                                    *)
(***************************************************************************)
StoreOK(c) == c \in [Keys -> Int] /\ c["last_opmode"] \in OpMode

\* store_save_last_op_mode leaves the mode in the cache, whether or not the
\* write to NVS succeeds.
LEMMA SaveLastOpModeStep ==
    ASSUME StoreOK(cache), StoreOK(flash), NEW m \in OpMode, SaveLastOpMode(m)
    PROVE  StoreOK(cache') /\ StoreOK(flash') /\ cache'["last_opmode"] = m
  <1> DEFINE new == [k \in {"last_opmode"} |-> m]
  <1>1. PICK written \in SUBSET DOMAIN new :
            flash' = [k \in Keys |-> IF k \in written THEN new[k] ELSE flash[k]]
    BY DEF SaveLastOpMode, Save
  <1>2. cache' = [k \in Keys |-> IF k \in DOMAIN new THEN new[k] ELSE cache[k]]
    BY DEF SaveLastOpMode, Save
  <1>3. StoreOK(flash')
    BY <1>1 DEF StoreOK, Keys, LimitKeys
  <1>4. StoreOK(cache') /\ cache'["last_opmode"] = m
    BY <1>2 DEF StoreOK, Keys, LimitKeys
  <1> QED  BY <1>3, <1>4

\* setOpMode leaves the requested mode in effect; if it changed the mode, the
\* cache holds it too, and if it did not, the store is untouched.
LEMMA SetOpModeStep ==
    ASSUME StoreOK(cache), StoreOK(flash), NEW m \in OpMode, SetOpMode(m)
    PROVE  /\ opMode' = m
           /\ StoreOK(cache') /\ StoreOK(flash')
           /\ \/ cache'["last_opmode"] = m
              \/ m = opMode /\ cache' = cache
  BY SaveLastOpModeStep DEF SetOpMode, StoreOK

\* What is left of app_main's setOpMode once it has compared.
LEMMA RestoreStep ==
    ASSUME TypeOK, RestoreOpMode
    PROVE  /\ opMode' = newOpMode /\ cache'["last_opmode"] = newOpMode
           /\ StoreOK(cache') /\ StoreOK(flash')
  BY SaveLastOpModeStep DEF RestoreOpMode, TypeOK, StoreOK

\* set_limit touches no other key.
LEMMA SetLimitStep ==
    ASSUME StoreOK(cache), StoreOK(flash),
           NEW l \in Int, NEW h \in Int, NEW a \in Int, SetLimit(l, h, a)
    PROVE  /\ StoreOK(cache') /\ StoreOK(flash')
           /\ cache'["last_opmode"] = cache["last_opmode"]
  <1> DEFINE new == [k \in LimitKeys |-> I16(CASE k = "low_limit"  -> l
                                             [] k = "high_limit" -> h
                                             [] k = "afterrun"   -> a)]
  <1>1. new \in [LimitKeys -> Int]
    <2>1. I16(l) \in Int /\ I16(h) \in Int /\ I16(a) \in Int
      BY I16Type
    <2> QED  BY <2>1 DEF LimitKeys
  <1>2. PICK written \in SUBSET DOMAIN new :
            flash' = [k \in Keys |-> IF k \in written THEN new[k] ELSE flash[k]]
    BY DEF SetLimit, Save
  <1>3. cache' = [k \in Keys |-> IF k \in DOMAIN new THEN new[k] ELSE cache[k]]
    BY DEF SetLimit, Save
  <1> HIDE DEF new
  <1>4. StoreOK(flash')
    BY <1>1, <1>2 DEF StoreOK, Keys, LimitKeys
  <1>5. StoreOK(cache') /\ cache'["last_opmode"] = cache["last_opmode"]
    BY <1>1, <1>3 DEF StoreOK, Keys, LimitKeys
  <1> QED  BY <1>4, <1>5

\* setStatus leaves the requested status recorded and on the pins.
LEMMA SetStatusStep ==
    ASSUME RelaysFollowStatus, sinceOn \in 0 .. MaxAge,
           NEW s \in MachineStatus, SetStatus(s)
    PROVE  status' = s /\ relays' = RelaysFor(s) /\ sinceOn' \in 0 .. MaxAge
  BY MaxAgeAssumption DEF SetStatus, RelaysFollowStatus

LEMMA AdvanceType ==
    /\ \A m \in OpMode : Advance(m) \in OpMode
    /\ \A s \in MachineStatus : Advance(s) \in MachineStatus
  BY DEF Advance

LEMMA DecisionType ==
    ASSUME status \in MachineStatus, NEW level
    PROVE  Decision(level) \in MachineStatus
  BY DEF Decision
-----------------------------------------------------------------------------
(***************************************************************************)
(* The inductive invariant                                                 *)
(***************************************************************************)
LEMMA IInvInit == Init => IInv
  BY MaxAgeAssumption, PMAssumption, RelaysForType
  DEF Init, IInv, TypeOK, RelaysFollowStatus, QuietUntilButtons, ModeCached,
      Phases, Keys, LimitKeys, Default, Zero

\* The start functions.  store_start replaces the cache and controller_start
\* the levels on the pins: QuietUntilButtons makes both harmless.
LEMMA IInvBoot == IInv /\ Boot => IInv'
  <1> SUFFICES ASSUME IInv, Boot PROVE IInv'
    OBVIOUS
  <1> USE DEF IInv, TypeOK, RelaysFollowStatus, QuietUntilButtons, ModeCached,
              Phases, Starts, Goes
  <1>1. CASE StoreStart
    <2>1. cache' \in [Keys -> Int] /\ cache'["last_opmode"] \in OpMode
      <3>1. CASE cache' = Zero
        BY <3>1 DEF Zero, Keys, LimitKeys
      <3>2. CASE \E readable \in SUBSET Keys :
                    cache' = [k \in Keys |-> IF k \in readable THEN flash[k]
                                                               ELSE Default[k]]
        BY <3>2 DEF Default, Keys, LimitKeys
      <3> QED  BY <1>1, <3>1, <3>2 DEF StoreStart
    <2> QED  BY <1>1, <2>1 DEF StoreStart
  <1>2. CASE ControllerStart
    BY <1>2, RelaysForType DEF ControllerStart
  <1>3. CASE ButtonsStart
    BY <1>3 DEF ButtonsStart
  <1>4. CASE ZigbeeStart
    BY <1>4 DEF ZigbeeStart
  <1>5. CASE WebserverStart
    BY <1>5 DEF WebserverStart
  <1>6. CASE ReadLastOpMode
    BY <1>6 DEF ReadLastOpMode
  <1>7. CASE RestoreOpMode
    <2>1. /\ opMode' = newOpMode /\ cache'["last_opmode"] = opMode'
          /\ StoreOK(cache') /\ StoreOK(flash')
      BY <1>7, RestoreStep
    <2> QED  BY <1>7, <2>1 DEF RestoreOpMode, StoreOK
  <1> QED  BY <1>1, <1>2, <1>3, <1>4, <1>5, <1>6, <1>7 DEF Boot

LEMMA IInvUser == IInv /\ User => IInv'
  <1> SUFFICES ASSUME IInv, User PROVE IInv'
    OBVIOUS
  <1> USE DEF IInv, TypeOK, RelaysFollowStatus, QuietUntilButtons, ModeCached
  <1>0. StoreOK(cache) /\ StoreOK(flash)
    BY DEF StoreOK
  <1>1. CASE PressMode
    <2>1. Advance(opMode) \in OpMode /\ Advance(opMode) # opMode
      BY AdvanceType DEF Advance
    <2>2. /\ opMode' = Advance(opMode)
          /\ StoreOK(cache') /\ StoreOK(flash')
          /\ cache'["last_opmode"] = opMode'
      BY <1>0, <1>1, <2>1, SetOpModeStep DEF PressMode
    <2> QED  BY <1>1, <2>1, <2>2 DEF PressMode, ButtonsUp, StoreOK
  <1>2. CASE PressStatus
    <2>1. /\ opMode' = LOCAL_MODE
          /\ StoreOK(cache') /\ StoreOK(flash')
          /\ \/ cache'["last_opmode"] = LOCAL_MODE
             \/ opMode = LOCAL_MODE /\ cache' = cache
      BY <1>0, <1>2, SetOpModeStep DEF PressStatus
    <2>2. /\ status' = Advance(status) /\ status' \in MachineStatus
          /\ relays' = RelaysFor(status') /\ sinceOn' \in 0 .. MaxAge
      BY <1>2, AdvanceType, SetStatusStep DEF PressStatus
    <2> QED  BY <1>2, <2>1, <2>2, RelaysForType DEF PressStatus, ButtonsUp, StoreOK
  <1>3. CASE WebAuto
    <2>1. /\ opMode' = AUTO
          /\ StoreOK(cache') /\ StoreOK(flash')
          /\ \/ cache'["last_opmode"] = AUTO
             \/ opMode = AUTO /\ cache' = cache
      BY <1>0, <1>3, SetOpModeStep DEF WebAuto
    <2> QED  BY <1>3, <2>1 DEF WebAuto, WebUp, StoreOK
  <1>4. ASSUME NEW s \in MachineStatus, WebOperation(s) PROVE IInv'
    <2>1. /\ opMode' = API
          /\ StoreOK(cache') /\ StoreOK(flash')
          /\ \/ cache'["last_opmode"] = API
             \/ opMode = API /\ cache' = cache
      BY <1>0, <1>4, SetOpModeStep DEF WebOperation
    <2>2. status' = s /\ relays' = RelaysFor(s) /\ sinceOn' \in 0 .. MaxAge
      BY <1>4, SetStatusStep DEF WebOperation
    <2> QED  BY <1>4, <2>1, <2>2, RelaysForType DEF WebOperation, WebUp, StoreOK
  <1>5. ASSUME NEW f \in Forms, HandleLimits(f) PROVE IInv'
    <2>1. U16(f.low) \in Int /\ U16(f.high) \in Int /\ U16(f.afterrun) \in Int
      BY FormsAssumption, I16Type
    <2>2. /\ StoreOK(cache') /\ StoreOK(flash')
          /\ cache'["last_opmode"] = cache["last_opmode"]
      BY <1>0, <1>5, <2>1, SetLimitStep DEF HandleLimits
    <2> QED  BY <1>5, <2>2 DEF HandleLimits, WebUp, StoreOK
  <1> QED  BY <1>1, <1>2, <1>3, <1>4, <1>5 DEF User

LEMMA IInvSensor == IInv /\ Sensor => IInv'
  <1> SUFFICES ASSUME IInv, NEW level \in PM \cup {NaN}, PMReport(level)
               PROVE  IInv'
    BY DEF Sensor, OtherReport, IInv, TypeOK
  <1> USE DEF IInv, TypeOK, RelaysFollowStatus, QuietUntilButtons, ModeCached
  <1>1. CASE opMode = AUTO
    <2>1. Decision(level) \in MachineStatus
      BY DecisionType
    <2>2. /\ status' = Decision(level) /\ relays' = RelaysFor(status')
          /\ sinceOn' \in 0 .. MaxAge
      BY <1>1, <2>1, SetStatusStep DEF PMReport, SetMeasurements
    <2> QED
      BY <2>1, <2>2, RelaysForType DEF PMReport, SetMeasurements, ZigbeeUp
  <1>2. CASE opMode # AUTO
    BY <1>2 DEF PMReport, SetMeasurements
  <1> QED  BY <1>1, <1>2

LEMMA IInvRest == IInv /\ (Tick \/ PowerCycle \/ UNCHANGED vars) => IInv'
  <1> SUFFICES ASSUME IInv, Tick \/ PowerCycle \/ UNCHANGED vars PROVE IInv'
    OBVIOUS
  <1> USE DEF IInv, TypeOK, RelaysFollowStatus, QuietUntilButtons, ModeCached
  <1>1. CASE Tick
    BY <1>1, MaxAgeAssumption DEF Tick, Older
  <1>2. CASE PowerCycle
    BY <1>2, MaxAgeAssumption, PMAssumption, RelaysForType
    DEF PowerCycle, Phases, Zero, Keys, LimitKeys
  <1>3. CASE UNCHANGED vars
    BY <1>3 DEF vars
  <1> QED  BY <1>1, <1>2, <1>3

\* Every reachable state satisfies the invariant, whatever the forms, the
\* sensor levels and the afterruns are.
THEOREM Invariance == Spec => []IInv
  <1>1. IInv /\ [Next]_vars => IInv'
    BY IInvBoot, IInvUser, IInvSensor, IInvRest DEF Next
  <1> QED  BY IInvInit, <1>1, PTL DEF Spec

\* The globals of state.c, the pins and the store keep their types.
THEOREM TypeCorrect == Spec => []TypeOK
  <1>1. IInv => TypeOK
    BY DEF IInv
  <1> QED  BY Invariance, <1>1, PTL

\* The pins carry the levels of the recorded status in every state, whichever
\* caller of setStatus ran last and however far the boot has got.
THEOREM RelaysFollow == Spec => []RelaysFollowStatus
  <1>1. IInv => RelaysFollowStatus
    BY DEF IInv
  <1> QED  BY Invariance, <1>1, PTL

\* Nobody moves the motor or the mode before the buttons are registered, so
\* controller_start and store_start overwrite nothing.
THEOREM QuietStart == Spec => []QuietUntilButtons
  <1>1. IInv => QuietUntilButtons
    BY DEF IInv
  <1> QED  BY Invariance, <1>1, PTL

\* The cache holds the mode in effect for the next boot to restore, even if the
\* writes to NVS fail, but for the time before the restore of this one.
THEOREM CacheFollowsMode == Spec => []ModeCached
  <1>1. IInv => ModeCached
    BY DEF IInv
  <1> QED  BY Invariance, <1>1, PTL

-----------------------------------------------------------------------------
(***************************************************************************)
(* The promise                                                             *)
(***************************************************************************)
\* Where the pins follow the status, the speed read off them is the status.
LEMMA SpeedIsStatus ==
    ASSUME status \in MachineStatus, RelaysFollowStatus
    PROVE  Speed = status
  BY LevelsTellStatus DEF Speed, SpeedOf, RelaysFollowStatus

LEMMA PromiseInit == Init => Promise!Init
  <1> SUFFICES ASSUME Init PROVE Promise!Init
    OBVIOUS
  <1>1. Speed = OFF
    BY IInvInit, SpeedIsStatus DEF IInv, TypeOK, Init
  <1> QED  BY <1>1 DEF Init, Promise!Init, Boots

LEMMA PromiseBoot ==
    ASSUME IInv, Boot, Speed = status, Speed' = status'
    PROVE  Promise!Next \/ UNCHANGED Promise!vars
  <1>1. CASE ReadLastOpMode
    <2>1. /\ UNCHANGED <<opMode, status>> /\ phase = "web"
          /\ phase' = IF cache["last_opmode"] = opMode THEN "running"
                                                       ELSE "restoring"
      BY <1>1 DEF ReadLastOpMode, Goes
    <2>2. CASE cache["last_opmode"] = opMode
      BY <2>1, <2>2 DEF Promise!FinishBoot, Promise!Next, Boots, IInv, TypeOK
    <2>3. CASE cache["last_opmode"] # opMode
      <3>1. opMode = LOCAL_MODE
        BY <2>3 DEF IInv, ModeCached
      <3> QED  BY <2>1, <2>3, <3>1 DEF Promise!BeginRestore, Promise!Next, Boots
    <2> QED  BY <2>2, <2>3
  <1>2. CASE RestoreOpMode
    <2>1. opMode' \in OpMode
      BY <1>2, RestoreStep DEF IInv, TypeOK
    <2>2. UNCHANGED status /\ phase = "restoring" /\ phase' = "running"
      BY <1>2 DEF RestoreOpMode, Starts, Goes
    <2> QED  BY <2>1, <2>2 DEF Promise!EndRestore, Promise!Next, Boots
  <1>3. CASE Boot /\ ~ReadLastOpMode /\ ~RestoreOpMode
    <2>1. UNCHANGED opMode /\ UNCHANGED status
          /\ phase \notin {"restoring", "running"}
          /\ phase' \notin {"restoring", "running"}
      BY <1>3 DEF Boot, Starts, Goes, StoreStart, ControllerStart, ButtonsStart,
                  ZigbeeStart, WebserverStart
    <2> QED  BY <2>1 DEF Promise!vars, Boots
  <1> QED  BY <1>1, <1>2, <1>3

LEMMA PromiseUser ==
    ASSUME IInv, User, Speed = status, Speed' = status'
    PROVE  Promise!Next \/ UNCHANGED Promise!vars
  <1> USE DEF Promise!Next, Promise!vars
  <1>0. StoreOK(cache) /\ StoreOK(flash) /\ RelaysFollowStatus
        /\ opMode \in OpMode /\ status \in MachineStatus
        /\ sinceOn \in 0 .. MaxAge
    BY DEF IInv, TypeOK, StoreOK
  <1>1. CASE PressMode
    <2>1. opMode' = Advance(opMode)
      BY <1>0, <1>1, AdvanceType, SetOpModeStep DEF PressMode
    <2> QED  BY <1>1, <2>1 DEF PressMode, Advance, Promise!ModeKey
  <1>2. CASE PressStatus
    <2>1. opMode' = LOCAL_MODE
      BY <1>0, <1>2, SetOpModeStep DEF PressStatus
    <2>2. status' = Advance(status)
      BY <1>0, <1>2, AdvanceType, SetStatusStep DEF PressStatus
    <2> QED  BY <1>2, <2>1, <2>2 DEF PressStatus, Advance, Promise!StatusKey
  <1>3. CASE WebAuto
    <2>1. opMode' = AUTO
      BY <1>0, <1>3, SetOpModeStep DEF WebAuto
    <2> QED  BY <1>3, <2>1 DEF WebAuto, Promise!HandOver
  <1>4. ASSUME NEW s \in MachineStatus, WebOperation(s)
        PROVE  Promise!Operate(s)
    <2>1. opMode' = API
      BY <1>0, <1>4, SetOpModeStep DEF WebOperation
    <2>2. status' = s
      BY <1>0, <1>4, SetStatusStep DEF WebOperation
    <2> QED  BY <1>4, <2>1, <2>2 DEF WebOperation, Promise!Operate
  <1>5. CASE \E f \in Forms : HandleLimits(f)
    BY <1>5 DEF HandleLimits
  <1> QED  BY <1>1, <1>2, <1>3, <1>4, <1>5 DEF User

LEMMA PromiseSensor ==
    ASSUME IInv, Sensor, Speed = status, Speed' = status'
    PROVE  Promise!Sense \/ UNCHANGED Promise!vars
  <1>1. PICK level \in PM \cup {NaN} : PMReport(level)
    BY DEF Sensor, OtherReport, IInv, TypeOK
  <1>2. CASE opMode = AUTO
    <2>1. status' = Decision(level) /\ status' \in MachineStatus
      BY <1>1, <1>2, DecisionType, SetStatusStep
      DEF PMReport, SetMeasurements, IInv, TypeOK
    <2> QED
      BY <1>1, <1>2, <2>1 DEF PMReport, Promise!Sense
  <1>3. CASE opMode # AUTO
    BY <1>1, <1>3 DEF PMReport, SetMeasurements, Promise!vars
  <1> QED  BY <1>2, <1>3

\* The controller implements the promise: for every set of forms and sensor
\* levels, each of its steps is one of FanPromise or changes nothing there.
THEOREM ImplementsPromise == Spec => KeepsPromise
  <1>1. IInv /\ IInv' /\ [Next]_vars => [Promise!Next]_Promise!vars
    <2> SUFFICES ASSUME IInv, IInv', [Next]_vars
                 PROVE  Promise!Next \/ UNCHANGED Promise!vars
      OBVIOUS
    <2>1. Speed = status
      BY SpeedIsStatus DEF IInv, TypeOK
    <2>2. Speed' = status'
      <3>1. status' \in MachineStatus /\ relays' = RelaysFor(status')
        BY DEF IInv, TypeOK, RelaysFollowStatus
      <3> QED  BY <3>1, LevelsTellStatus DEF Speed, SpeedOf
    <2>3. CASE Boot
      BY <2>1, <2>2, <2>3, PromiseBoot
    <2>4. CASE User
      BY <2>1, <2>2, <2>4, PromiseUser
    <2>5. CASE Sensor
      BY <2>1, <2>2, <2>5, PromiseSensor DEF Promise!Next
    <2>6. CASE Tick
      BY <2>1, <2>2, <2>6 DEF Tick, Promise!vars
    <2>7. CASE PowerCycle
      BY <2>1, <2>2, <2>7 DEF PowerCycle, Promise!PowerCycle, Promise!Next, Boots
    <2>8. CASE UNCHANGED vars
      BY <2>1, <2>2, <2>8 DEF vars, Promise!vars
    <2> QED  BY <2>3, <2>4, <2>5, <2>6, <2>7, <2>8 DEF Next
  <1> QED  BY Invariance, PromiseInit, <1>1, PTL DEF Spec, KeepsPromise, Promise!Spec

-----------------------------------------------------------------------------
(***************************************************************************)
(* The observer's properties.  PatternInv says that the age of             *)
(* switched_on_timestamp is the age of the levels on the pins while one of *)
(* the relays is energised; ChoiceInv that a choice made before app_main   *)
(* compared is in the cache, and so that there was none if it restores.    *)
(***************************************************************************)
PatternInv == relays # Released => patternAge = sinceOn

ChoiceInv ==
    /\ phase \in {"reset", "stored", "relays", "restoring"} => ~userChose
    /\ userChose => cache["last_opmode"] = opMode

HInv == IInv /\ PatternInv /\ ChoiceInv

LEMMA HInvInit == HInit => HInv
  BY IInvInit DEF HInit, Init, HInv, PatternInv, ChoiceInv

\* setStatus restarts the timestamp exactly when it energises another relay.
LEMMA SetStatusAge ==
    ASSUME IInv, PatternInv, NEW s \in MachineStatus, SetStatus(s),
           patternAge' = IF relays' # relays THEN 0 ELSE patternAge
    PROVE  PatternInv'
  <1> USE DEF IInv, TypeOK, RelaysFollowStatus, PatternInv
  <1>1. CASE s = status
    BY <1>1 DEF SetStatus
  <1>2. CASE s # status
    <2>1. relays' = RelaysFor(s) /\ sinceOn' = IF s = OFF THEN sinceOn ELSE 0
      BY <1>2 DEF SetStatus
    <2>2. relays' # relays
      BY <1>2, <2>1, LevelsTellStatus
    <2>3. s = OFF => relays' = Released
      BY <2>1, RelaysForType
    <2> QED  BY <2>1, <2>2, <2>3
  <1> QED  BY <1>1, <1>2

LEMMA HInvBoot == HInv /\ Observed(Boot) => PatternInv' /\ ChoiceInv'
  <1> SUFFICES ASSUME HInv, Observed(Boot) PROVE PatternInv' /\ ChoiceInv'
    OBVIOUS
  <1> USE DEF HInv, PatternInv, ChoiceInv, Observed, Starts, Goes
  <1>1. CASE StoreStart
    BY <1>1 DEF StoreStart
  <1>2. CASE ControllerStart
    <2>1. relays = Released
      BY <1>2, RelaysForType
      DEF ControllerStart, IInv, RelaysFollowStatus, QuietUntilButtons
    <2> QED  BY <1>2, <2>1 DEF ControllerStart
  <1>3. CASE ButtonsStart \/ ZigbeeStart \/ WebserverStart
    BY <1>3 DEF ButtonsStart, ZigbeeStart, WebserverStart
  <1>4. CASE ReadLastOpMode
    BY <1>4 DEF ReadLastOpMode
  <1>5. CASE RestoreOpMode
    <2>1. cache'["last_opmode"] = opMode'
      BY <1>5, RestoreStep DEF IInv
    <2> QED  BY <1>5, <2>1 DEF RestoreOpMode
  <1> QED  BY <1>1, <1>2, <1>3, <1>4, <1>5 DEF Observed, Boot

LEMMA HInvUser == HInv /\ ObservedUser => PatternInv' /\ ChoiceInv'
  <1> SUFFICES ASSUME HInv, ObservedUser PROVE PatternInv' /\ ChoiceInv'
    OBVIOUS
  <1> USE DEF HInv, ObservedUser
  <1>0. StoreOK(cache) /\ StoreOK(flash) /\ opMode \in OpMode
        /\ status \in MachineStatus
    BY DEF IInv, TypeOK, StoreOK
  <1>1. ASSUME NEW m \in OpMode, SetOpMode(m),
               phase \notin {"reset", "stored", "relays"}, UNCHANGED phase
        PROVE  ChoiceInv'
    <2>1. /\ opMode' = m
          /\ \/ cache'["last_opmode"] = m
             \/ m = opMode /\ cache' = cache
      BY <1>0, <1>1, SetOpModeStep
    <2> QED  BY <1>1, <2>1 DEF ChoiceInv
  <1>2. CASE PressMode
    BY <1>0, <1>1, <1>2, AdvanceType DEF PressMode, ButtonsUp, PatternInv
  <1>3. CASE PressStatus
    BY <1>0, <1>1, <1>3, AdvanceType, SetStatusAge DEF PressStatus, ButtonsUp
  <1>4. CASE WebAuto
    BY <1>0, <1>1, <1>4 DEF WebAuto, WebUp, PatternInv
  <1>5. ASSUME NEW s \in MachineStatus, WebOperation(s)
        PROVE  PatternInv' /\ ChoiceInv'
    BY <1>0, <1>1, <1>5, SetStatusAge DEF WebOperation, WebUp
  <1>6. ASSUME NEW f \in Forms, HandleLimits(f)
        PROVE  PatternInv' /\ ChoiceInv'
    <2>1. U16(f.low) \in Int /\ U16(f.high) \in Int /\ U16(f.afterrun) \in Int
      BY FormsAssumption, I16Type
    <2>2. cache'["last_opmode"] = cache["last_opmode"]
      BY <1>0, <1>6, <2>1, SetLimitStep DEF HandleLimits
    <2> QED  BY <1>6, <2>2 DEF HandleLimits, WebUp, PatternInv, ChoiceInv
  <1> QED  BY <1>2, <1>3, <1>4, <1>5, <1>6 DEF User

LEMMA HInvSensor == HInv /\ Observed(Sensor) => PatternInv' /\ ChoiceInv'
  <1> SUFFICES ASSUME HInv, Observed(Sensor),
                      NEW level \in PM \cup {NaN}, PMReport(level)
               PROVE  PatternInv' /\ ChoiceInv'
    BY DEF Observed, Sensor, OtherReport, HInv, IInv, TypeOK
  <1> USE DEF HInv, Observed
  <1>1. ChoiceInv'
    BY DEF ChoiceInv, PMReport
  <1>2. CASE opMode = AUTO
    BY <1>1, <1>2, DecisionType, SetStatusAge
    DEF PMReport, SetMeasurements, IInv, TypeOK
  <1>3. CASE opMode # AUTO
    BY <1>1, <1>3 DEF PMReport, SetMeasurements, PatternInv
  <1> QED  BY <1>2, <1>3

LEMMA HInvStep == HInv /\ [HNext]_hvars => HInv'
  <1> SUFFICES ASSUME HInv, [HNext]_hvars PROVE HInv'
    OBVIOUS
  <1>1. IInv'
    BY IInvBoot, IInvUser, IInvSensor, IInvRest
    DEF HInv, HNext, Observed, ObservedUser, ObservedTick, ObservedPowerCycle,
        hvars
  <1>2. CASE Observed(Boot)
    BY <1>1, <1>2, HInvBoot DEF HInv
  <1>3. CASE Observed(Sensor)
    BY <1>1, <1>3, HInvSensor DEF HInv
  <1>4. CASE ObservedUser
    BY <1>1, <1>4, HInvUser DEF HInv
  <1>5. CASE ObservedTick
    BY <1>1, <1>5 DEF ObservedTick, Tick, HInv, PatternInv, ChoiceInv
  <1>6. CASE ObservedPowerCycle
    BY <1>1, <1>6 DEF ObservedPowerCycle, PowerCycle, HInv, PatternInv, ChoiceInv
  <1>7. CASE UNCHANGED hvars
    BY <1>1, <1>7 DEF hvars, vars, history, HInv, PatternInv, ChoiceInv
  <1> QED  BY <1>2, <1>3, <1>4, <1>5, <1>6, <1>7 DEF HNext

\* The automatic mode stops the motor only in a report, and only after the
\* levels now on the pins have been there for longer than the afterrun.
LEMMA StopStep ==
    ASSUME HInv, HInv', [HNext]_hvars, AutomaticStep, MotorStops
    PROVE  patternAge > afterrun
  <1> USE DEF AutomaticStep, MotorStops
  <1>0. StoreOK(cache) /\ StoreOK(flash) /\ status \in MachineStatus
        /\ relays = RelaysFor(status) /\ relays # Released
        /\ relays' = RelaysFor(status') /\ status' \in MachineStatus
    BY DEF HInv, IInv, TypeOK, StoreOK, RelaysFollowStatus
  <1>1. status # OFF /\ status' = OFF
    BY <1>0, RelaysForType, LevelsTellStatus
  <1>2. CASE Observed(Boot)
    BY <1>2 DEF Observed, Boot, Starts, Goes, StoreStart, ControllerStart,
                ButtonsStart, ZigbeeStart, WebserverStart, ReadLastOpMode,
                RestoreOpMode
  <1>3. CASE ObservedUser
    <2>1. CASE PressStatus
      BY <1>0, <2>1, SetOpModeStep DEF PressStatus
    <2>2. CASE \E s \in MachineStatus : WebOperation(s)
      BY <1>0, <2>2, SetOpModeStep DEF WebOperation
    <2>3. CASE PressMode \/ WebAuto \/ \E f \in Forms : HandleLimits(f)
      BY <2>3 DEF PressMode, WebAuto, HandleLimits
    <2> QED  BY <1>3, <2>1, <2>2, <2>3 DEF ObservedUser, User
  <1>4. CASE Observed(Sensor)
    <2>1. PICK level \in PM \cup {NaN} : PMReport(level)
      BY <1>4 DEF Observed, Sensor, OtherReport, HInv, IInv, TypeOK
    <2>2. Decision(level) = OFF
      BY <1>0, <1>1, <2>1, DecisionType, SetStatusStep
      DEF PMReport, SetMeasurements, HInv, IInv, TypeOK
    <2>3. sinceOn > afterrun
      BY <1>1, <2>2 DEF Decision
    <2> QED  BY <1>0, <2>3 DEF HInv, PatternInv
  <1>5. CASE ObservedTick
    BY <1>0, <1>5 DEF ObservedTick, Tick
  <1>6. CASE ObservedPowerCycle
    BY <1>6 DEF ObservedPowerCycle, PowerCycle
  <1>7. CASE UNCHANGED hvars
    BY <1>7 DEF hvars, vars
  <1> QED  BY <1>2, <1>3, <1>4, <1>5, <1>6, <1>7 DEF HNext

\* The automatic mode never stops the motor before it has run for longer than
\* the afterrun at its present speed.
THEOREM MotorRunsItsMinimum == HSpec => MinimumRunTime
  <1>1. HInv /\ HInv' /\ [HNext]_hvars
        => [AutomaticStep /\ MotorStops => patternAge > afterrun]_hvars
    BY StopStep
  <1> QED  BY HInvInit, HInvStep, <1>1, PTL DEF HSpec, MinimumRunTime

\* The restore at the end of the boot keeps a mode that was chosen before
\* app_main compared: the choice is in the cache, so the comparison finds it.
THEOREM EarlierChoiceSurvivesBoot == HSpec => RestoreKeepsEarlierChoice
  <1>1. HInv /\ [HNext]_hvars
        => [phase # "running" /\ phase' = "running" /\ userChose
            => opMode' = opMode]_hvars
    <2> SUFFICES ASSUME HInv, HNext, phase # "running", phase' = "running",
                        userChose
                 PROVE  opMode' = opMode
      OBVIOUS
    <2>1. ReadLastOpMode \/ RestoreOpMode
      BY DEF HNext, Observed, ObservedUser, ObservedTick, ObservedPowerCycle,
             Boot, Starts, Goes, StoreStart, ControllerStart, ButtonsStart,
             ZigbeeStart, WebserverStart, User, PressMode, PressStatus,
             WebAuto, WebOperation, HandleLimits, Sensor, OtherReport,
             PMReport, Tick, PowerCycle
    <2>2. ~RestoreOpMode
      BY DEF RestoreOpMode, Starts, Goes, HInv, ChoiceInv
    <2> QED  BY <2>1, <2>2 DEF ReadLastOpMode
  <1> QED  BY HInvInit, HInvStep, <1>1, PTL DEF HSpec, RestoreKeepsEarlierChoice

============================================================================
