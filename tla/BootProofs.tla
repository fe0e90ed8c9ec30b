----------------------------- MODULE BootProofs -----------------------------
(***************************************************************************)
(* Proofs about Boot: what WlanProofs shows of one boot holds across       *)
(* aborts, power cycles and new credentials, and whatever credentials are  *)
(* stored, a device that comes up with wrong ones is an access point.      *)
(***************************************************************************)
EXTENDS Boot, WlanProofs

\* What app_main has and has not done of wlan_start.
InStep ==
    /\ step \in {"display", "store"} => task = "starting"
    /\ step \in {"logging", "zigbee", "web", "up"} => task \in {"station", "ap"}

\* Without the network's credentials there is no trace of a connection.
Unconnected ==
    /\ station # "associated" /\ ~leasing
    /\ "connected" \notin bits
    /\ ~Leased
    /\ task \notin {"connected", "station"}

WrongUnconnected == cached # Home => Unconnected

\* The variables Boot adds.
Types ==
    /\ step \in Steps /\ restarts \in 0 .. MaxRestarts
    /\ stored \in Credentials /\ cached \in Credentials
    /\ udp \in BOOLEAN /\ serving \in BOOLEAN /\ hook \in BOOLEAN
    /\ notified \in BOOLEAN
    /\ caller \in {"calling", "waiting", "ready"} /\ client \in Log!Clients
    /\ screen \in Addresses \cup {"ap", "torn"}

BInv == IInv /\ Types /\ InStep /\ WrongUnconnected
-----------------------------------------------------------------------------
(***************************************************************************)
(* Boot and Wlan                                                           *)
(***************************************************************************)

\* A restart puts Wlan's part back where it starts.
LEMMA RestartIsInit == Restart => Init'
  BY DEF Restart, Init

\* Every other step is a step of Wlan or leaves its part alone.
LEMMA BootOfWlan ==
    ASSUME [BNext]_bvars
    PROVE  [Next]_vars \/ Restart
  <1>1. CASE Main
    BY <1>1
    DEF Main, DisplayStart, StoreStart, WlanStart, WlanReturns, SkipLogging,
        StartLogging, ZigbeeStart, WebserverStart, Next
  <1>2. CASE EventLoop \/ Attempt \/ Network
    BY <1>2 DEF EventLoop, Attempt, Network, Next
  <1>3. CASE LogClient \/ Redraw
    BY <1>3 DEF LogClient, Redraw
  <1>4. CASE Abort \/ PowerCycle
    BY <1>4 DEF Abort, PowerCycle
  <1>5. CASE \E c \in [name : Names, word : Words] : HandleCredentials(c)
    BY <1>5 DEF HandleCredentials
  <1>6. CASE UNCHANGED bvars
    BY <1>6 DEF bvars
  <1> QED  BY <1>1, <1>2, <1>3, <1>4, <1>5, <1>6 DEF BNext

LEMMA IInvAcrossRestarts ==
    ASSUME IInv, [BNext]_bvars
    PROVE  IInv'
  <1>1. CASE [Next]_vars
    BY <1>1, IInvNext
  <1>2. CASE Restart
    <2>1. (Init => IInv)'
      BY IInvInit, PTL
    <2> QED  BY <1>2, <2>1, RestartIsInit
  <1> QED  BY <1>1, <1>2, BootOfWlan
-----------------------------------------------------------------------------
(***************************************************************************)
(* The types of what Boot adds                                             *)
(***************************************************************************)
LEMMA TypesInit == BInit => Types
  <1> SUFFICES ASSUME BInit PROVE Types
    OBVIOUS
  <1>1. restarts \in 0 .. MaxRestarts
    BY MaxRestartsAssumption DEF BInit
  <1>2. cached \in Credentials
    BY DEF BInit, Blank, Credentials
  <1> QED
    BY <1>1, <1>2 DEF BInit, Types, Steps, Addresses, Log!Clients

LEMMA RestartTypes ==
    ASSUME Types, Restart, stored' \in Credentials
    PROVE  Types'
  <1>1. restarts' \in 0 .. MaxRestarts
    BY MaxRestartsAssumption DEF Types, Restart
  <1> QED
    BY <1>1
    DEF Types, Restart, Steps, Blank, Credentials, Addresses, Log!Clients

LEMMA TypesNext ==
    ASSUME IInv, Types, [BNext]_bvars
    PROVE  Types'
  <1>a. ip_address \in Addresses \cup {"ap"}
    BY DEF IInv, TypeOK
  <1>1. CASE DisplayStart
    BY <1>1, <1>a DEF DisplayStart, Goes, Types, Steps, rest, logging
  <1>2. CASE StoreStart
    <2>1. PICK n \in {stored.name, Empty}, w \in {stored.word, Empty} :
              cached' = [name |-> n, word |-> w]
      BY <1>2 DEF StoreStart
    <2>2. cached' \in Credentials
      BY <2>1 DEF Types, Credentials
    <2> QED  BY <1>2, <2>2 DEF StoreStart, Goes, Types, Steps, logging
  <1>3. CASE WlanStart \/ WlanReturns \/ SkipLogging \/ ZigbeeStart
    BY <1>3
    DEF WlanStart, WlanReturns, SkipLogging, ZigbeeStart, Goes, Types, Steps,
        rest, logging
  <1>4. CASE StartLogging
    BY <1>4
    DEF StartLogging, Types, Steps, rest, Log!CreateClient, Log!BufferFails,
        Log!Hook, Log!start, Log!Clients
  <1>5. CASE WebserverStart
    BY <1>5 DEF WebserverStart, Goes, Types, Steps, logging
  <1>6. CASE EventLoop \/ Attempt \/ Network
    BY <1>6 DEF EventLoop, Attempt, Network, Types, rest, logging
  <1>7. CASE LogClient
    BY <1>7
    DEF LogClient, Types, rest, Log!CopyParameters, Log!Opens,
        Log!SocketFails, Log!Client, Log!NotifyGive, Log!Clients
  <1>8. CASE Redraw
    BY <1>8, <1>a DEF Redraw, Types, rest, logging
  <1>9. CASE Abort \/ PowerCycle
    BY <1>9, RestartTypes DEF Abort, PowerCycle, Types
  <1>10. CASE \E c \in [name : Names, word : Words] : HandleCredentials(c)
    <2>1. PICK c \in [name : Names, word : Words] : HandleCredentials(c)
      BY <1>10
    <2>2. PICK n \in {c.name, stored.name}, w \in {c.word, stored.word} :
              stored' = [name |-> n, word |-> w]
      BY <2>1 DEF HandleCredentials
    <2>3. stored' \in Credentials
      BY <2>2 DEF Types, Credentials
    <2> QED  BY <2>1, <2>3, RestartTypes DEF HandleCredentials
  <1>11. CASE UNCHANGED bvars
    BY <1>11 DEF bvars, Types, rest, logging
  <1> QED
    BY <1>1, <1>2, <1>3, <1>4, <1>5, <1>6, <1>7, <1>8, <1>9, <1>10, <1>11
    DEF BNext, Main
-----------------------------------------------------------------------------
(***************************************************************************)
(* How far app_main is                                                     *)
(***************************************************************************)

\* Wlan's handlers wake a task that waits and leave every other alone.
LEMMA OnlyWakes ==
    ASSUME Handler \/ ConnectFails \/ Associates \/ Lease \/ LosesLink
    PROVE  task' = task \/ task = "waiting"
  BY DEF Handler, OnStart, Retry, GiveUp, OnGotIp, SetBits,
         ConnectFails, Associates, Lease, LosesLink, external

LEMMA InStepNext ==
    ASSUME Types, InStep, [BNext]_bvars
    PROVE  InStep'
  <1>1. CASE DisplayStart \/ StoreStart \/ WlanReturns \/ SkipLogging
             \/ ZigbeeStart \/ WebserverStart
    BY <1>1
    DEF DisplayStart, StoreStart, WlanReturns, SkipLogging, ZigbeeStart,
        WebserverStart, Goes, InStep, vars
  <1>2. CASE WlanStart
    BY <1>2 DEF WlanStart, InStep
  <1>3. CASE StartLogging
    BY <1>3 DEF StartLogging, InStep, vars
  <1>4. CASE EventLoop \/ Attempt \/ Network
    BY <1>4, OnlyWakes DEF EventLoop, Attempt, Network, InStep
  <1>5. CASE LogClient \/ Redraw
    BY <1>5 DEF LogClient, Redraw, InStep, vars
  <1>6. CASE Restart
    BY <1>6 DEF Restart, InStep
  <1>7. CASE UNCHANGED bvars
    BY <1>7 DEF bvars, vars, InStep
  <1> QED
    BY <1>1, <1>2, <1>3, <1>4, <1>5, <1>6, <1>7
    DEF BNext, Main, Abort, PowerCycle, HandleCredentials
-----------------------------------------------------------------------------
(***************************************************************************)
(* Wrong credentials                                                       *)
(***************************************************************************)

\* Before wlan_start there is nothing.
LEMMA FreshUnconnected == IInv /\ task = "starting" => Unconnected
  <1> SUFFICES ASSUME IInv, task = "starting" PROVE Unconnected
    OBVIOUS
  <1>1. station = "off" /\ bits = {} /\ events = << >>
    BY DEF IInv, Progress
  <1>2. ~leasing
    BY <1>1 DEF IInv, Asking
  <1>3. ~Leased
    BY <1>1 DEF Leased
  <1> QED  BY <1>1, <1>2, <1>3 DEF Unconnected

\* Nothing of Wlan but an association leads to a connection.
LEMMA StaysUnconnected ==
    ASSUME IInv, Unconnected, [Next]_vars, ~Associates
    PROVE  Unconnected'
  <1>a. events \in Seq(Events) /\ bits \subseteq {"fail"}
    BY DEF IInv, TypeOK, Unconnected, Bits
  <1>b. ASSUME Handles("sta_start") \/ Handles("disconnected") PROVE ~Leased'
    <2>1. events # << >> /\ Head(events) # "got_ip" /\ events' = Tail(events)
      BY <1>b DEF Handles
    <2> QED  BY <2>1, OnlyPending DEF Unconnected
  <1>1. CASE StartStation
    <2>1. events' = << "sta_start" >>
      BY <1>1 DEF StartStation
    <2>2. ~Leased'
      BY <2>1 DEF Leased
    <2> QED  BY <1>1, <2>2 DEF StartStation, Unconnected
  <1>2. CASE Wait
    BY <1>2, <1>a DEF Wait, Returned, Unconnected, driver, Leased
  <1>3. CASE ShowAddress
    BY <1>3 DEF ShowAddress, Unconnected
  <1>4. CASE StartAccessPoint
    BY <1>4 DEF StartAccessPoint, Unconnected, Leased
  <1>5. CASE OnStart
    BY <1>5, <1>b DEF OnStart, esp_wifi_connect, Unconnected
  <1>6. CASE Retry
    BY <1>6, <1>b DEF Retry, LinkDown, esp_wifi_connect, Unconnected
  <1>7. CASE GiveUp
    <2>1. ~Leased'
      BY <1>7, <1>b DEF GiveUp, LinkDown
    <2>2. bits' = bits \cup {"fail"} /\ "connected" \notin bits'
      BY <1>7 DEF GiveUp, SetBits, Unconnected
    <2>3. task' \notin {"connected", "station"}
      BY <1>7, <2>2 DEF GiveUp, SetBits, Returned, Unconnected
    <2> QED  BY <1>7, <2>1, <2>2, <2>3 DEF GiveUp, LinkDown, Unconnected
  <1>8. CASE OnGotIp
    <2>1. Leased
      BY <1>8, PendingStays DEF OnGotIp
    <2> QED  BY <2>1 DEF Unconnected
  <1>9. CASE ConnectFails
    <2>1. Leased' = Leased
      BY <1>9, DisconnectionPosted DEF ConnectFails
    <2> QED  BY <1>9, <2>1 DEF ConnectFails, external, Unconnected
  <1>10. CASE Lease \/ LosesLink
    BY <1>10 DEF Lease, LosesLink, Unconnected
  <1>11. CASE UNCHANGED vars
    BY <1>11 DEF vars, driver, Unconnected, Leased
  <1> QED
    BY <1>1, <1>2, <1>3, <1>4, <1>5, <1>6, <1>7, <1>8, <1>9, <1>10, <1>11
    DEF Next, Handler

LEMMA WrongUnconnectedNext ==
    ASSUME BInv, [BNext]_bvars
    PROVE  WrongUnconnected'
  <1>1. CASE Restart
    <2>1. task' = "starting"
      BY <1>1 DEF Restart
    <2>2. IInv'
      BY IInvAcrossRestarts DEF BInv
    <2>3. (IInv /\ task = "starting" => Unconnected)'
      BY FreshUnconnected, PTL
    <2> QED  BY <2>1, <2>2, <2>3 DEF WrongUnconnected
  <1>2. CASE StoreStart
    <2>1. task = "starting" /\ UNCHANGED vars
      BY <1>2 DEF StoreStart, Goes, BInv, InStep
    <2>2. Unconnected
      BY <2>1, FreshUnconnected DEF BInv
    <2>3. Unconnected'
      BY <2>1, <2>2 DEF vars, driver, Unconnected, Leased
    <2> QED  BY <2>3 DEF WrongUnconnected
  <1>3. CASE ~Restart /\ ~StoreStart
    <2>1. UNCHANGED cached
      BY <1>3
      DEF BNext, Main, DisplayStart, WlanStart, WlanReturns, SkipLogging,
          StartLogging, ZigbeeStart, WebserverStart, EventLoop, Attempt,
          Network, LogClient, Redraw, Abort, PowerCycle, HandleCredentials,
          bvars, rest
    <2>2. SUFFICES ASSUME cached # Home PROVE Unconnected'
      BY <2>1 DEF WrongUnconnected
    <2>3. Unconnected /\ IInv
      BY <2>2 DEF BInv, WrongUnconnected
    <2>4. [Next]_vars
      BY <1>3, BootOfWlan
    <2>5. CASE ~Associates
      BY <2>3, <2>4, <2>5, StaysUnconnected
    <2>6. CASE Associates
      <3>1. station = "connecting" /\ station' = "associated"
        BY <2>6 DEF Associates
      <3>2. ~WlanStart
        BY <3>1
        DEF WlanStart, StartStation, Wait, ShowAddress, StartAccessPoint,
            driver
      <3>3. ~EventLoop
        BY <3>1
        DEF EventLoop, Handler, OnStart, Retry, GiveUp, OnGotIp, driver,
            esp_wifi_connect
      <3>4. ~Attempt /\ ~Network
        BY <2>2, <3>1 DEF Attempt, Network, ConnectFails, Lease, LosesLink
      <3> QED
        BY <1>3, <3>1, <3>2, <3>3, <3>4
        DEF BNext, Main, DisplayStart, WlanReturns, SkipLogging,
            StartLogging, ZigbeeStart, WebserverStart, LogClient, Redraw,
            Abort, PowerCycle, HandleCredentials, bvars, vars, driver
    <2> QED  BY <2>5, <2>6
  <1> QED  BY <1>1, <1>2, <1>3
-----------------------------------------------------------------------------
LEMMA BInvInit == BInit => BInv
  <1> SUFFICES ASSUME BInit PROVE BInv
    OBVIOUS
  <1>1. IInv
    BY IInvInit DEF BInit
  <1>2. task = "starting" /\ step = "display"
    BY DEF BInit, Init
  <1> QED
    BY <1>1, <1>2, TypesInit, FreshUnconnected
    DEF BInv, InStep, WrongUnconnected

LEMMA BInvNext == BInv /\ [BNext]_bvars => BInv'
  BY IInvAcrossRestarts, TypesNext, InStepNext, WrongUnconnectedNext DEF BInv

LEMMA BInvAlways == BSpec => []BInv
  BY BInvInit, BInvNext, PTL DEF BSpec

\* The types hold through every boot and every restart.
THEOREM BTypeCorrect == BSpec => []BTypeOK
  <1>1. BInv => BTypeOK
    BY DEF BInv, IInv, Types, BTypeOK
  <1> QED  BY <1>1, BInvAlways, PTL

\* A device that is up with credentials that are not the network's, however
\* the two keys of the store came to be what they are, is an access point.
THEOREM WrongCanBeCorrected == BSpec => []WrongIsCorrectable
  <1>1. BInv => WrongIsCorrectable
    BY DEF BInv, WrongUnconnected, Unconnected, InStep, WrongIsCorrectable
  <1> QED  BY <1>1, BInvAlways, PTL

\* In the boot after any number of restarts too, the access point replaces the
\* station only when it has been given up, the station is idle only after the
\* fail bit or a refused attempt, and the address shown is the interface's until a link is lost.
THEOREM SafeAcrossRestarts ==
    BSpec => [](FallsBackOnlyAfterRetries /\ NeverIdleUnnoticed /\ ShowsAddress)
  <1>1. IInv => FallsBackOnlyAfterRetries
    BY DEF IInv, Progress, GivenUp, FallsBackOnlyAfterRetries
  <1>2. IInv => NeverIdleUnnoticed
    BY DEF IInv, TypeOK, Attended, Pending, NeverIdleUnnoticed
  <1>3. BInv => FallsBackOnlyAfterRetries /\ NeverIdleUnnoticed /\ ShowsAddress
    BY <1>1, <1>2 DEF BInv, IInv
  <1> QED  BY <1>3, BInvAlways, PTL

\* The retries of an earlier boot do not count in the next one either.
THEOREM CountsAcrossRestarts == BSpec => GivesUpOnlyAfterRetries
  <1>1. ASSUME BInv, [BNext]_bvars
        PROVE  [bits' \ bits = {"fail"} => failures' = MaximumRetry + 1]_vars
    <2>1. CASE [Next]_vars
      BY <1>1, <2>1, FailBitStep DEF BInv
    <2>2. CASE Restart
      BY <2>2 DEF Restart
    <2> QED  BY <1>1, <2>1, <2>2, BootOfWlan
  <1>2. BInv /\ [BNext]_bvars =>
            [bits' \ bits = {"fail"} => failures' = MaximumRetry + 1]_vars
    BY <1>1
  <1> QED  BY <1>2, BInvAlways, PTL DEF BSpec, GivesUpOnlyAfterRetries

=============================================================================
