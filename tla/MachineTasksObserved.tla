------------------------ MODULE MachineTasksObserved ------------------------
(***************************************************************************)
(* MachineTasks with what somebody outside can note down: the state when   *)
(* no handler was last under way, and the speed last asked for on the web  *)
(* page.  No handler reads these variables.                                *)
(***************************************************************************)
EXTENDS MachineTasks

VARIABLES
    rest,     \* mode, levels and boot as last seen at rest
    asked     \* speed of the "Manual Override" in force, or None

ovars == <<vars, rest, asked>>

None == 4

Snapshot == [mode |-> opMode, relays |-> relays, 
             boot   |-> IF restored THEN "running" ELSE "booting"]

OInit == Init /\ rest = Snapshot /\ asked = None

Asks(s)  == WebOperation(s) /\ asked' = s
Releases == (PressMode \/ PressStatus \/ WebAuto) /\ asked' = None
Others   == /\ \/ RestoreOpMode \/ Expire
               \/ \E s \in Reported : Report(s)
               \/ \E t \in Tasks : Execute(t)
            /\ UNCHANGED asked

ONext == /\ Releases \/ Others \/ \E s \in Requested : Asks(s)
         /\ Observe
         /\ rest' = IF AllIdle' THEN Snapshot' ELSE rest

OSpec == OInit /\ [][ONext]_ovars
-----------------------------------------------------------------------------
Promise == INSTANCE FanPromise
    WITH boot <- rest.boot, mode <- rest.mode, speed <- SpeedOf(rest.relays)

\* Handlers that do not overlap do what FanPromise says: the statements of
\* MachineTasks, from one rest to the next, make up the handlers of Machine.
KeepsPromiseAtRest == Promise!Spec

\* data/index.html offers the three speeds as a "Manual Override": at rest the
\* motor would run at the speed last asked for until a key or the Auto button
\* ends the override.
ManualOverrideHolds ==
    AllIdle /\ opMode = API /\ asked # None => status = asked

============================================================================
