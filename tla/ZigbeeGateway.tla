---------------------------- MODULE ZigbeeGateway ----------------------------
(***************************************************************************)
(* The coordinator side of main/esp_zigbee_gateway.c: how the network is   *)
(* formed, and how a sensor that announces itself is bound and asked for   *)
(* its reports.  The measurements the reports carry are Machine's input.   *)
(*                                                                         *)
(* The signal handler and the callbacks all run in the Zigbee_main task,   *)
(* one at a time, so each is one action.  The stack answers bind requests  *)
(* in any order, late, or with an error or a timeout, and a timeout does   *)
(* not tell whether the sensor has bound; a sensor may rejoin at any time, *)
(* with or without having lost its tables.                                 *)
(***************************************************************************)
EXTENDS Integers, FiniteSets

CONSTANTS
    Devices,         \* the sensors, by their short address
    MaxAnnounce      \* bound: announcements, by sensor

ASSUME MaxAnnounceAssumption == MaxAnnounce \in [Devices -> Nat]

\* g_clusters: temperature, humidity and PM2.5.
Clusters == {"temp", "hum", "pm25"}

VARIABLES
    network,           \* what the commissioning of the stack is at
    endpointsBound,    \* the counter of bind_cb
    announced,         \* how often each sensor has announced itself
    pending,           \* bind requests on their way, by sensor and cluster
    bound,             \* the clusters in the sensor's binding table
    asked,             \* the clusters the sensor was told to report
    confirmed          \* observer: the clusters bind_cb saw a success for
                       \* since the sensor and the gateway last began anew

vars == <<network, endpointsBound, announced, pending, bound, asked, confirmed>>
-----------------------------------------------------------------------------
\* "failed" and "closed" are the two ends the handler has no way out of.
Networks == {"starting", "initializing", "forming", "retrying", "steering",
             "open", "failed", "closed"}

TypeOK ==
    /\ network \in Networks
    /\ endpointsBound \in Nat
    /\ announced \in [Devices -> Nat]
    /\ pending \in [Devices -> [Clusters -> Nat]]
    /\ bound \in [Devices -> SUBSET Clusters]
    /\ asked \in [Devices -> SUBSET Clusters]
    /\ confirmed \in [Devices -> SUBSET Clusters]

NoRequest == [d \in Devices |-> [c \in Clusters |-> 0]]
NoCluster == [d \in Devices |-> {}]

\* zigbee_start, and esp_zb_task up to esp_zb_start(false).
Init ==
    /\ network = "starting"
    /\ endpointsBound = 0
    /\ announced = [d \in Devices |-> 0]
    /\ pending = NoRequest
    /\ bound = NoCluster /\ asked = NoCluster /\ confirmed = NoCluster
-----------------------------------------------------------------------------
(***************************************************************************)
(* esp_zb_app_signal_handler: commissioning                                *)
(***************************************************************************)
sensors == <<endpointsBound, announced, pending, bound, asked, confirmed>>

Commission(from, to) ==
    network = from /\ network' = to /\ UNCHANGED sensors

SkipStartup == Commission("starting", "initializing")

\* DEVICE_FIRST_START or DEVICE_REBOOT.  An error is logged and nothing else.
Started     == Commission("initializing", "forming")
StartFailed == Commission("initializing", "failed")

Formed          == Commission("forming", "steering")
FormationFailed == Commission("forming", "retrying")

\* Faulty variant: the alarm does not start the formation again.
RetryFormationIdle == Commission("retrying", "retrying")

\* The alarm of one second calls bdb_start_top_level_commissioning_cb.
RetryFormation == Commission("retrying", "forming")

\* ESP_ERROR_CHECK in that callback restarts the gateway when the stack
\* refuses; the sensors keep what they have.
RetryAborts ==
    /\ network = "retrying" /\ network' = "starting"
    /\ endpointsBound' = 0
    /\ pending' = NoRequest /\ confirmed' = NoCluster
    /\ UNCHANGED <<announced, bound, asked>>

SteeringStarted == Commission("steering", "open")
SteeringFailed  == Commission("steering", "closed")

(***************************************************************************)
(* esp_zb_app_signal_handler: DEVICE_ANNCE                                 *)
(***************************************************************************)

\* One bind request per cluster, with the callback's context in a device_t
\* of its own.  A sensor that joins anew, having been reset, has forgotten its
\* bindings and its reports; one that merely rejoins has not.  It may do so as
\* soon as the stack runs: sensors of an earlier network need not wait for the
\* steering.
DeviceAnnounce(d) ==
    /\ network # "starting"
    /\ announced[d] < MaxAnnounce[d]
    /\ announced' = [announced EXCEPT ![d] = @ + 1]
    /\ pending' = [pending EXCEPT ![d] = [c \in Clusters |-> @[c] + 1]]
    /\ \/ UNCHANGED <<bound, asked, confirmed>>
       \/ /\ bound' = [bound EXCEPT ![d] = {}]
          /\ asked' = [asked EXCEPT ![d] = {}]
          /\ confirmed' = [confirmed EXCEPT ![d] = {}]
    /\ UNCHANGED <<network, endpointsBound>>

(***************************************************************************)
(* bind_cb                                                                 *)
(***************************************************************************)

\* Faulty variants: one endpoint too few, or too many, is waited for.
ConfigureReportsEarly(d) ==
    asked' = IF endpointsBound' < 2 THEN asked
             ELSE [asked EXCEPT ![d] = Clusters]

ConfigureReportsLate(d) ==
    asked' = IF endpointsBound' <= 3 THEN asked
             ELSE [asked EXCEPT ![d] = Clusters]

\* configureReport for each cluster, once the counter has reached 3.
ConfigureReports(d) ==
    asked' = IF endpointsBound' < 3 THEN asked
             ELSE [asked EXCEPT ![d] = Clusters]

\* The callback's context names the sensor; the answer may be one to a request
\* of an earlier announcement, whose binding the sensor has forgotten.
BindSucceeded(d, c) ==
    /\ pending[d][c] > 0
    /\ pending' = [pending EXCEPT ![d][c] = @ - 1]
    /\ \/ bound' = [bound EXCEPT ![d] = @ \cup {c}]
       \/ announced[d] > 1 /\ UNCHANGED bound
    /\ confirmed' = [confirmed EXCEPT ![d] = @ \cup {c}]
    /\ endpointsBound' = endpointsBound + 1
    /\ ConfigureReports(d)
    /\ UNCHANGED <<network, announced>>

\* Faulty variant: a failure takes back an endpoint that was counted.
BindFailedUncounts(d, c) ==
    /\ pending[d][c] > 0
    /\ pending' = [pending EXCEPT ![d][c] = @ - 1]
    /\ endpointsBound' = endpointsBound - 1
    /\ UNCHANGED <<network, announced, bound, asked, confirmed>>

\* Any other status is ignored.  After a timeout the sensor may have bound, and
\* only its answer been lost.
BindFailed(d, c) ==
    /\ pending[d][c] > 0
    /\ pending' = [pending EXCEPT ![d][c] = @ - 1]
    /\ bound' \in {bound, [bound EXCEPT ![d] = @ \cup {c}]}
    /\ UNCHANGED <<network, endpointsBound, announced, asked, confirmed>>

-----------------------------------------------------------------------------
Commissioning ==
    \/ SkipStartup \/ Started \/ StartFailed \/ Formed \/ FormationFailed
    \/ RetryFormation \/ RetryAborts \/ SteeringStarted \/ SteeringFailed

Next ==
    \/ Commissioning
    \/ \E d \in Devices :
           \/ DeviceAnnounce(d)
           \/ \E c \in Clusters : BindSucceeded(d, c) \/ BindFailed(d, c)

Spec == Init /\ [][Next]_vars

\* The stack sends the next signal sooner or later, the alarm goes off, and a
\* formation that is tried for ever succeeds at last.
FairSpec ==
    /\ Spec
    /\ WF_vars(SkipStartup) /\ WF_vars(Started \/ StartFailed)
    /\ WF_vars(Formed \/ FormationFailed) /\ SF_vars(Formed)
    /\ WF_vars(RetryFormation)
    /\ WF_vars(SteeringStarted \/ SteeringFailed)
-----------------------------------------------------------------------------
\* A sensor all of whose binds bind_cb has seen succeed has been told to report
\* all its clusters.  bind_cb counts successes without looking at the sensor or
\* at the cluster and never starts again from 0; what makes it work is that the
\* counter is never behind the successes of any one sensor.  One whose answer
\* was lost is bound and may never be asked.
ConfirmedSensorsReport ==
    \A d \in Devices : confirmed[d] = Clusters => asked[d] = Clusters

\* d has announced itself once and no other sensor has.
FirstAndOnce(d) ==
    announced = [e \in Devices |-> IF e = d THEN 1 ELSE 0]

\* The first sensor, on its first announcement, is asked for reports only
\* when all its endpoints are bound.
FirstSensorInOrder ==
    \A d \in Devices :
        FirstAndOnce(d) /\ asked[d] # {} => bound[d] = Clusters

\* The network is opened for sensors unless the stack fails to start or to
\* steer: a failed formation is repeated until it works, by the alarm or by the
\* restart that the alarm's callback causes.
NetworkOpens == <>(network \in {"open", "failed", "closed"})

\* bind_cb logs "All Endpoints Bound successfully!" before it asks a sensor
\* for reports: it would do so only when that sensor's endpoints are bound.
AllEndpointsBound ==
    [][\A d \in Devices : asked'[d] = Clusters /\ asked[d] # Clusters
                              => bound'[d] = Clusters]_vars

============================================================================
