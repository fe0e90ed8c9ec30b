----------------------------- MODULE WlanProofs -----------------------------
(***************************************************************************)
(* Proofs about Wlan for every number of retries and every size of the     *)
(* event queue: what wlan_start and event_handler guarantee about giving   *)
(* up the station and about the address on the display.                    *)
(***************************************************************************)
EXTENDS Wlan, TLAPS

\* The events that make event_handler try again, or give up.
Pending == {i \in 1 .. Len(events) : events[i] # "got_ip"}

Leased == \E i \in 1 .. Len(events) : events[i] = "got_ip"

\* The station waits for event_handler while one such event is on its way, which
\* is never so after the fail bit, and for nobody once it has been refused.
Attended ==
    /\ \A i, j \in Pending : i = j
    /\ Pending # {} => station = "idle" /\ "fail" \notin bits
    /\ station = "idle" /\ "fail" \notin bits => Pending # {} \/ refused

\* Once given up, the station stays so and asks for no address.
GivenUp == "fail" \in bits => station \in {"idle", "off"} /\ ~leasing

\* How far app_main has come and what it has seen.
Progress ==
    /\ task = "starting" => /\ station = "off" /\ bits = {} /\ events = << >>
                            /\ address = "none"
    /\ station = "off" => task \in {"starting", "ap"}
    /\ task \in {"failed", "ap"} => "fail" \in bits
    /\ task \in {"connected", "station"} => "connected" \in bits

\* The counter of the code is the number of failures until it gives up.
Counts == "fail" \notin bits => s_retry_num = failures

\* DHCP asks for an associated station, or for one whose loss is not handled.
Asking ==
    /\ station \in {"connecting", "off"} => ~leasing
    /\ \A i \in 1 .. Len(events) :
           events[i] = "sta_start" => ~leasing /\ address = "none"

\* While no link has been lost an address belongs to an associated station,
\* and an event or a bit that tells of an address belongs to an address.
Truthful ==
    ~lost => /\ address = "lease" => station = "associated"
             /\ Leased \/ "connected" \in bits => address = "lease"

IInv == /\ TypeOK /\ Attended /\ GivenUp /\ Progress /\ Counts
        /\ Asking /\ Truthful /\ ShowsAddress
-----------------------------------------------------------------------------
LEMMA IInvInit == Init => IInv
  <1> SUFFICES ASSUME Init PROVE IInv
    OBVIOUS
  <1>1. events \in Seq(Events) /\ Len(events) = 0
    BY DEF Init
  <1>2. TypeOK
    <2>1. s_retry_num \in 0 .. MaximumRetry /\ failures \in 0 .. MaximumRetry + 1
      BY MaximumRetryAssumption DEF Init
    <2>2. Len(events) <= QueueSize
      BY <1>1, QueueSizeAssumption
    <2> QED
      BY <1>1, <2>1, <2>2 DEF Init, TypeOK, Bits, Stations, Addresses, Tasks
  <1>3. Pending = {} /\ ~Leased
    BY <1>1 DEF Pending, Leased
  <1>4. Attended /\ GivenUp /\ Progress /\ Counts
    BY <1>3 DEF Init, Attended, GivenUp, Progress, Counts
  <1>5. Asking /\ Truthful /\ ShowsAddress
    BY <1>1, <1>3 DEF Init, Asking, Truthful, ShowsAddress
  <1> QED  BY <1>2, <1>4, <1>5 DEF IInv

\* The queue after its head has been handled.
LEMMA HeadHandled ==
    ASSUME events \in Seq(Events), events # << >>, events' = Tail(events)
    PROVE  /\ events' \in Seq(Events) /\ Len(events') = Len(events) - 1
           /\ Len(events) \in Nat \ {0}
           /\ Head(events) = events[1]
           /\ \A i \in 1 .. Len(events') : events'[i] = events[i + 1]
  OBVIOUS

\* The queue after an event has been posted.
LEMMA Posted ==
    ASSUME events \in Seq(Events), NEW e \in Events, Post(e),
           Len(events) <= QueueSize
    PROVE  /\ events' \in Seq(Events) /\ Len(events') = Len(events) + 1
           /\ Len(events) \in Nat /\ Len(events') <= QueueSize
           /\ \A i \in 1 .. Len(events) : events'[i] = events[i]
           /\ events'[Len(events')] = e
  BY QueueSizeAssumption DEF Post

\* An attended event at the head is the only one.
LEMMA OnlyPending ==
    ASSUME IInv, events # << >>, Head(events) # "got_ip",
           events' = Tail(events)
    PROVE  /\ Pending' = {} /\ station = "idle" /\ "fail" \notin bits
           /\ Leased' => Leased
           /\ \A i \in 1 .. Len(events') : events'[i] = "got_ip"
  <1>1. events \in Seq(Events)
    BY DEF IInv, TypeOK
  <1>2. /\ Len(events') = Len(events) - 1 /\ Len(events) \in Nat \ {0}
        /\ Head(events) = events[1]
        /\ \A i \in 1 .. Len(events') : events'[i] = events[i + 1]
    BY <1>1, HeadHandled
  <1>3. 1 \in Pending
    BY <1>2 DEF Pending
  <1>4. ASSUME NEW i \in 1 .. Len(events') PROVE events'[i] = "got_ip"
    <2>1. i + 1 \in 1 .. Len(events) /\ i + 1 # 1 /\ events'[i] = events[i + 1]
      BY <1>2
    <2>2. i + 1 \notin Pending
      BY <2>1, <1>3 DEF IInv, Attended
    <2> QED  BY <2>1, <2>2 DEF Pending
  <1>5. Leased' => Leased
    <2> SUFFICES ASSUME NEW i \in 1 .. Len(events'), events'[i] = "got_ip"
                 PROVE  Leased
      BY DEF Leased
    <2>1. i + 1 \in 1 .. Len(events) /\ events[i + 1] = "got_ip"
      BY <1>2
    <2> QED  BY <2>1 DEF Leased
  <1>6. Pending' = {}
    BY <1>4 DEF Pending
  <1>7. station = "idle" /\ "fail" \notin bits
    BY <1>3 DEF IInv, Attended
  <1> QED  BY <1>4, <1>5, <1>6, <1>7
-----------------------------------------------------------------------------
\* The steps of wlan_start.
LEMMA IInvStartStation == ASSUME IInv, StartStation PROVE IInv'
  <1>1. /\ events' \in Seq(Events) /\ Len(events') = 1
        /\ events'[1] = "sta_start"
    BY DEF StartStation, Events
  <1>2. Pending' = {1} /\ ~Leased'
    BY <1>1 DEF Pending, Leased
  <1>3. TypeOK'
    BY <1>1, QueueSizeAssumption DEF IInv, TypeOK, StartStation, Tasks, Stations
  <1>4. bits = {} /\ station = "off" /\ ~leasing /\ address = "none"
    BY DEF IInv, Progress, Asking, StartStation
  <1>5. Attended' /\ GivenUp' /\ Progress'
    BY <1>2, <1>4 DEF IInv, Attended, GivenUp, Progress, StartStation
  <1>7. Counts'
    BY <1>4 DEF IInv, Counts, StartStation
  <1>8. Asking' /\ Truthful' /\ ShowsAddress'
    BY <1>1, <1>2, <1>4 DEF Asking, Truthful, ShowsAddress, StartStation
  <1> QED  BY <1>3, <1>5, <1>7, <1>8 DEF IInv

\* app_main returns from its wait with a bit, or waits.
LEMMA ReturnsWithBit ==
    ASSUME NEW b
    PROVE  /\ Returned(b) \in {"connected", "failed", "waiting"}
           /\ Returned(b) = "connected" => "connected" \in b
           /\ Returned(b) = "failed" => "fail" \in b
  BY DEF Returned

LEMMA IInvWait == ASSUME IInv, Wait PROVE IInv'
  <1> DEFINE t == Returned(bits)
  <1>1. /\ task' = t /\ t \in {"connected", "failed", "waiting"}
        /\ t = "connected" => "connected" \in bits
        /\ t = "failed" => "fail" \in bits
    BY ReturnsWithBit DEF Wait
  <1> HIDE DEF t
  <1>2. station # "off"
    BY DEF IInv, Progress, Wait
  <1>3. Progress' /\ ShowsAddress'
    BY <1>1, <1>2 DEF IInv, Progress, ShowsAddress, Wait, driver
  <1>4. TypeOK'
    BY <1>1 DEF IInv, TypeOK, Wait, driver, Tasks
  <1>5. UNCHANGED <<bits, s_retry_num, station, leasing, address, refused,
                    events, failures, lost>>
    BY DEF Wait, driver
  <1> QED
    BY <1>3, <1>4, <1>5
    DEF IInv, Attended, GivenUp, Counts, Asking, Truthful, Pending, Leased

LEMMA IInvShowAddress == ASSUME IInv, ShowAddress PROVE IInv'
  <1>1. UNCHANGED <<bits, s_retry_num, station, leasing, address, refused,
                    events, failures, lost>>
    BY DEF ShowAddress, driver
  <1>2. TypeOK'
    BY <1>1 DEF IInv, TypeOK, ShowAddress, Tasks
  <1>3. Progress' /\ ShowsAddress'
    BY <1>1 DEF IInv, Progress, ShowsAddress, ShowAddress
  <1> QED
    BY <1>1, <1>2, <1>3
    DEF IInv, Attended, GivenUp, Counts, Asking, Truthful, Pending, Leased

LEMMA IInvStartAccessPoint == ASSUME IInv, StartAccessPoint PROVE IInv'
  <1>1. UNCHANGED <<bits, s_retry_num, leasing, address, refused, events,
                    failures, lost>>
        /\ station' = "off" /\ task' = "ap" /\ ip_address' = "ap"
    BY DEF StartAccessPoint
  <1>2. "fail" \in bits /\ station \in {"idle", "off"} /\ ~leasing
    BY DEF IInv, Progress, GivenUp, StartAccessPoint
  <1>3. TypeOK'
    BY <1>1 DEF IInv, TypeOK, Tasks, Stations
  <1>4. Pending' = {} /\ Pending = {} /\ Leased' = Leased
    BY <1>1, <1>2 DEF IInv, Attended, Pending, Leased
  <1>5. Attended' /\ GivenUp' /\ Progress' /\ Counts'
    BY <1>1, <1>2, <1>4 DEF IInv, Attended, GivenUp, Progress, Counts
  <1>6. Asking' /\ Truthful' /\ ShowsAddress'
    BY <1>1, <1>2, <1>4 DEF IInv, Asking, Truthful, ShowsAddress
  <1> QED  BY <1>3, <1>5, <1>6 DEF IInv
-----------------------------------------------------------------------------
\* The steps of event_handler.
LEMMA IInvOnStart == ASSUME IInv, OnStart PROVE IInv'
  <1>1. /\ UNCHANGED <<task, bits, s_retry_num, ip_address, leasing, address,
                       failures, lost>>
        /\ station' = "connecting" \/ (station' = station /\ refused')
        /\ refused' \in BOOLEAN
    BY DEF OnStart, esp_wifi_connect
  <1>2. /\ Pending' = {} /\ station = "idle" /\ "fail" \notin bits
        /\ Leased' => Leased
        /\ \A i \in 1 .. Len(events') : events'[i] = "got_ip"
    BY OnlyPending DEF OnStart, Handles
  <1>3. /\ events' \in Seq(Events) /\ Len(events') = Len(events) - 1
        /\ Len(events) \in Nat \ {0} /\ Head(events) = events[1]
    BY HeadHandled DEF IInv, TypeOK, OnStart, Handles
  <1>4. /\ station' \in {"idle", "connecting"}
        /\ station' = "idle" => refused' = TRUE
    BY <1>1, <1>2
  <1>5. ~leasing /\ address = "none"
    BY <1>3 DEF IInv, Asking, OnStart, Handles
  <1>6. TypeOK'
    BY <1>1, <1>3, <1>4, QueueSizeAssumption DEF IInv, TypeOK, Stations
  <1>7. Attended' /\ GivenUp' /\ Progress' /\ Counts'
    BY <1>1, <1>2, <1>4 DEF IInv, Attended, GivenUp, Progress, Counts
  <1>8. Asking' /\ Truthful' /\ ShowsAddress'
    BY <1>1, <1>2, <1>5, <1>4 DEF IInv, Asking, Truthful, ShowsAddress
  <1> QED  BY <1>6, <1>7, <1>8 DEF IInv

\* What Retry and GiveUp share: the interface has lost its address, and if it
\* had one a link has been lost.
LEMMA AfterLinkDown ==
    ASSUME IInv, LinkDown
    PROVE  /\ Pending' = {} /\ station = "idle" /\ "fail" \notin bits
           /\ \A i \in 1 .. Len(events') : events'[i] = "got_ip"
           /\ events' \in Seq(Events) /\ Len(events') <= QueueSize
           /\ ~lost => ~Leased' /\ "connected" \notin bits
           /\ task \notin {"starting", "failed", "ap"}
           /\ ~lost => task \notin {"connected", "station"}
           /\ s_retry_num = failures
           /\ leasing' = FALSE /\ address' = "none"
           /\ UNCHANGED <<ip_address, lost>>
  <1>1. /\ Pending' = {} /\ station = "idle" /\ "fail" \notin bits
        /\ Leased' => Leased
        /\ \A i \in 1 .. Len(events') : events'[i] = "got_ip"
    BY OnlyPending DEF LinkDown, Handles
  <1>2. /\ events' \in Seq(Events) /\ Len(events') = Len(events) - 1
        /\ Len(events) \in Nat \ {0}
    BY HeadHandled DEF IInv, TypeOK, LinkDown, Handles
  <1>3. Len(events') <= QueueSize
    BY <1>2, QueueSizeAssumption DEF IInv, TypeOK
  <1>4. ~lost => ~Leased /\ "connected" \notin bits
    BY <1>1 DEF IInv, Truthful
  <1>5. /\ task \notin {"starting", "failed", "ap"}
        /\ ~lost => task \notin {"connected", "station"}
    BY <1>1, <1>4 DEF IInv, Progress
  <1>6. s_retry_num = failures
    BY <1>1 DEF IInv, Counts
  <1> QED  BY <1>1, <1>2, <1>3, <1>4, <1>5, <1>6 DEF LinkDown

LEMMA IInvRetry == ASSUME IInv, Retry PROVE IInv'
  <1>1. LinkDown /\ s_retry_num < MaximumRetry
    BY DEF Retry
  <1>2. /\ Pending' = {} /\ station = "idle" /\ "fail" \notin bits
        /\ \A i \in 1 .. Len(events') : events'[i] = "got_ip"
        /\ events' \in Seq(Events) /\ Len(events') <= QueueSize
        /\ ~lost => ~Leased' /\ "connected" \notin bits
        /\ task \notin {"starting", "failed", "ap"}
        /\ ~lost => task \notin {"connected", "station"}
        /\ s_retry_num = failures
        /\ leasing' = FALSE /\ address' = "none"
        /\ UNCHANGED <<ip_address, lost>>
    BY <1>1, AfterLinkDown
  <1>3. /\ station' = "connecting" \/ (station' = station /\ refused')
        /\ refused' \in BOOLEAN
        /\ s_retry_num' = s_retry_num + 1
        /\ UNCHANGED <<task, bits>>
    BY DEF Retry, esp_wifi_connect
  <1>4. /\ s_retry_num \in Nat /\ s_retry_num' <= MaximumRetry
        /\ failures' = failures + 1
    BY <1>1, <1>2, <1>3, MaximumRetryAssumption DEF IInv, TypeOK, LinkDown
  <1>5. TypeOK'
    <2>1. s_retry_num' \in 0 .. MaximumRetry /\ failures' \in 0 .. MaximumRetry + 1
      BY <1>2, <1>3, <1>4, MaximumRetryAssumption DEF IInv, TypeOK
    <2> QED  BY <1>2, <1>3, <2>1 DEF IInv, TypeOK, Stations, Addresses
  <1>6. Attended' /\ GivenUp' /\ Progress' /\ Counts'
    BY <1>2, <1>3, <1>4 DEF IInv, Attended, GivenUp, Progress, Counts
  <1>7. Asking' /\ Truthful' /\ ShowsAddress'
    BY <1>2, <1>3 DEF IInv, Asking, Truthful, ShowsAddress
  <1> QED  BY <1>5, <1>6, <1>7 DEF IInv

\* What the handler's bits do to the task that waits for them.
LEMMA BitWakes ==
    ASSUME IInv, NEW b \in Bits, SetBits(b)
    PROVE  /\ bits' = bits \cup {b} /\ bits' \subseteq Bits
           /\ task' \in Tasks
           /\ task' # task => task' \in {"connected", "failed", "waiting"}
                            /\ task = "waiting"
           /\ task' = "connected" => "connected" \in bits'
           /\ task' = "failed" => "fail" \in bits'
  <1>1. bits' = bits \cup {b} /\ bits' \subseteq Bits
    BY DEF SetBits, IInv, TypeOK
  <1>2. CASE task = "waiting"
    <2>1. task' = Returned(bits')
      BY <1>2 DEF SetBits
    <2> QED  BY <1>1, <1>2, <2>1, ReturnsWithBit DEF Tasks
  <1>3. CASE task # "waiting"
    <2>1. task' = task
      BY <1>3 DEF SetBits
    <2> QED  BY <1>1, <2>1 DEF IInv, TypeOK, Progress
  <1> QED  BY <1>2, <1>3

LEMMA IInvGiveUp == ASSUME IInv, GiveUp PROVE IInv'
  <1>1. LinkDown /\ s_retry_num >= MaximumRetry /\ SetBits("fail")
        /\ UNCHANGED <<s_retry_num, station, refused>>
    BY DEF GiveUp
  <1>2. /\ Pending' = {} /\ station = "idle" /\ "fail" \notin bits
        /\ \A i \in 1 .. Len(events') : events'[i] = "got_ip"
        /\ events' \in Seq(Events) /\ Len(events') <= QueueSize
        /\ ~lost => ~Leased' /\ "connected" \notin bits
        /\ task \notin {"starting", "failed", "ap"}
        /\ ~lost => task \notin {"connected", "station"}
        /\ leasing' = FALSE /\ address' = "none"
        /\ UNCHANGED <<ip_address, lost>>
    BY <1>1, AfterLinkDown
  <1>3. /\ bits' = bits \cup {"fail"} /\ bits' \subseteq Bits
        /\ task' \in Tasks
        /\ task' # task => task' \in {"connected", "failed", "waiting"}
                         /\ task = "waiting"
        /\ task' = "connected" => "connected" \in bits'
        /\ task' = "failed" => "fail" \in bits'
    BY <1>1, BitWakes DEF Bits
  <1>4. TypeOK'
    <2>1. failures' \in 0 .. MaximumRetry + 1
      BY <1>1, MaximumRetryAssumption DEF IInv, TypeOK, LinkDown
    <2> QED  BY <1>1, <1>2, <1>3, <2>1 DEF IInv, TypeOK, Addresses
  <1>5. Attended' /\ GivenUp' /\ Counts'
    BY <1>1, <1>2, <1>3 DEF Attended, GivenUp, Counts
  <1>6. Progress'
    BY <1>1, <1>2, <1>3 DEF IInv, Progress
  <1>7. Asking' /\ Truthful'
    BY <1>1, <1>2, <1>3 DEF Asking, Truthful
  <1>8. ShowsAddress'
    BY <1>2, <1>3 DEF ShowsAddress
  <1> QED  BY <1>4, <1>5, <1>6, <1>7, <1>8 DEF IInv

\* Handling the news of an address leaves an attended event in the queue.
LEMMA PendingStays ==
    ASSUME IInv, Handles("got_ip")
    PROVE  /\ Leased
           /\ Pending' = {} <=> Pending = {}
           /\ \A i, j \in Pending' : i = j
           /\ \A i \in 1 .. Len(events') :
                  events'[i] = "sta_start" => ~leasing /\ address = "none"
           /\ events' \in Seq(Events) /\ Len(events') <= QueueSize
           /\ events # << >>
  <1>1. /\ events' \in Seq(Events) /\ Len(events') = Len(events) - 1
        /\ Len(events) \in Nat \ {0}
        /\ events[1] = "got_ip"
        /\ \A i \in 1 .. Len(events') : events'[i] = events[i + 1]
    BY HeadHandled DEF IInv, TypeOK, Handles
  <1>2. ASSUME NEW i \in Pending' PROVE i \in Nat /\ i + 1 \in Pending
    BY <1>1 DEF Pending
  <1>3. ASSUME NEW j \in Pending PROVE j - 1 \in Pending'
    <2>1. j - 1 \in 1 .. Len(events') /\ (j - 1) + 1 = j
      BY <1>1 DEF Pending
    <2> QED  BY <1>1, <2>1 DEF Pending
  <1>4. \A i, j \in Pending' : i = j
    <2> SUFFICES ASSUME NEW i \in Pending', NEW j \in Pending' PROVE i = j
      OBVIOUS
    <2>1. i + 1 = j + 1
      BY <1>2 DEF IInv, Attended
    <2> QED  BY <1>2, <2>1
  <1>5. ASSUME NEW i \in 1 .. Len(events'), events'[i] = "sta_start"
        PROVE  ~leasing /\ address = "none"
    <2>1. i + 1 \in 1 .. Len(events) /\ events[i + 1] = "sta_start"
      BY <1>1, <1>5
    <2> QED  BY <2>1 DEF IInv, Asking
  <1>6. Leased /\ Len(events') <= QueueSize
    BY <1>1, QueueSizeAssumption DEF Leased, IInv, TypeOK
  <1> QED  BY <1>1, <1>2, <1>3, <1>4, <1>5, <1>6 DEF Handles

LEMMA IInvOnGotIp == ASSUME IInv, OnGotIp PROVE IInv'
  <1>1. /\ s_retry_num' = 0 /\ failures' = 0 /\ SetBits("connected")
        /\ UNCHANGED <<ip_address, station, leasing, address, refused, lost>>
    BY DEF OnGotIp, driver
  <1>2. /\ Leased /\ (Pending' = {} <=> Pending = {})
        /\ \A i, j \in Pending' : i = j
        /\ \A i \in 1 .. Len(events') :
               events'[i] = "sta_start" => ~leasing /\ address = "none"
        /\ events' \in Seq(Events) /\ Len(events') <= QueueSize
        /\ events # << >>
    BY PendingStays DEF OnGotIp
  <1>3. /\ bits' = bits \cup {"connected"} /\ bits' \subseteq Bits
        /\ task' \in Tasks
        /\ task' # task => task' \in {"connected", "failed", "waiting"}
                         /\ task = "waiting"
        /\ task' = "connected" => "connected" \in bits'
        /\ task' = "failed" => "fail" \in bits'
    BY <1>1, BitWakes DEF Bits
  <1>4. "fail" \in bits' <=> "fail" \in bits
    BY <1>3
  <1>5. TypeOK'
    <2>1. 0 \in 0 .. MaximumRetry /\ 0 \in 0 .. MaximumRetry + 1
      BY MaximumRetryAssumption
    <2> QED  BY <1>1, <1>2, <1>3, <2>1 DEF IInv, TypeOK
  <1>6. Attended' /\ GivenUp' /\ Counts'
    BY <1>1, <1>2, <1>4 DEF IInv, Attended, GivenUp, Counts
  <1>7. Progress'
    BY <1>1, <1>2, <1>3 DEF IInv, Progress
  <1>8. Asking' /\ Truthful'
    BY <1>1, <1>2, <1>3 DEF IInv, Asking, Truthful
  <1>9. ShowsAddress'
    BY <1>1, <1>3 DEF IInv, ShowsAddress
  <1> QED  BY <1>5, <1>6, <1>7, <1>8, <1>9 DEF IInv
-----------------------------------------------------------------------------
\* The steps of the driver and of the DHCP client.
LEMMA DisconnectionPosted ==
    ASSUME IInv, station \in {"connecting", "associated"},
           Post("disconnected")
    PROVE  /\ \A i, j \in Pending' : i = j
           /\ Pending' # {} /\ Leased' = Leased
           /\ \A i \in 1 .. Len(events') : events'[i] # "sta_start"
           /\ "fail" \notin bits /\ task \notin {"starting", "failed", "ap"}
           /\ events' \in Seq(Events) /\ Len(events') <= QueueSize
  <1>1. /\ events' \in Seq(Events) /\ Len(events') = Len(events) + 1
        /\ Len(events) \in Nat /\ Len(events') <= QueueSize
        /\ \A i \in 1 .. Len(events) : events'[i] = events[i]
        /\ events'[Len(events')] = "disconnected"
    BY Posted DEF IInv, TypeOK, Events
  <1>2. Pending = {}
    BY DEF IInv, Attended
  <1>3. \A i \in 1 .. Len(events) : events[i] = "got_ip"
    BY <1>2 DEF Pending
  <1>4. Pending' = {Len(events')}
    BY <1>1, <1>3 DEF Pending
  <1>5. Leased' = Leased
    BY <1>1 DEF Leased
  <1>6. \A i \in 1 .. Len(events') : events'[i] # "sta_start"
    BY <1>1, <1>3
  <1>7. "fail" \notin bits /\ task \notin {"starting", "failed", "ap"}
    BY DEF IInv, GivenUp, Progress
  <1> QED  BY <1>1, <1>4, <1>5, <1>6, <1>7

LEMMA IInvConnectFails == ASSUME IInv, ConnectFails PROVE IInv'
  <1>1. /\ station = "connecting" /\ station' = "idle"
        /\ UNCHANGED <<task, bits, s_retry_num, ip_address, refused, failures,
                       leasing, address, lost>>
    BY DEF ConnectFails, external
  <1>2. /\ \A i, j \in Pending' : i = j
        /\ Pending' # {} /\ Leased' = Leased
        /\ \A i \in 1 .. Len(events') : events'[i] # "sta_start"
        /\ "fail" \notin bits /\ task \notin {"starting", "failed", "ap"}
        /\ events' \in Seq(Events) /\ Len(events') <= QueueSize
    BY <1>1, DisconnectionPosted DEF ConnectFails
  <1>3. TypeOK'
    BY <1>1, <1>2 DEF IInv, TypeOK, Stations
  <1>4. Attended' /\ GivenUp' /\ Progress' /\ Counts'
    BY <1>1, <1>2 DEF IInv, Attended, GivenUp, Progress, Counts
  <1>5. Asking' /\ Truthful' /\ ShowsAddress'
    BY <1>1, <1>2 DEF IInv, Asking, Truthful, ShowsAddress
  <1> QED  BY <1>3, <1>4, <1>5 DEF IInv

LEMMA IInvLosesLink == ASSUME IInv, LosesLink PROVE IInv'
  <1>1. /\ station = "associated" /\ station' = "idle"
        /\ lost' = (lost \/ address = "lease")
        /\ UNCHANGED <<task, bits, s_retry_num, ip_address, refused, failures,
                       leasing, address>>
    BY DEF LosesLink, external
  <1>2. /\ \A i, j \in Pending' : i = j
        /\ Pending' # {} /\ Leased' = Leased
        /\ \A i \in 1 .. Len(events') : events'[i] # "sta_start"
        /\ "fail" \notin bits /\ task \notin {"starting", "failed", "ap"}
        /\ events' \in Seq(Events) /\ Len(events') <= QueueSize
    BY <1>1, DisconnectionPosted DEF LosesLink
  <1>3. TypeOK'
    BY <1>1, <1>2 DEF IInv, TypeOK, Stations
  <1>4. Attended' /\ GivenUp' /\ Progress' /\ Counts'
    BY <1>1, <1>2 DEF IInv, Attended, GivenUp, Progress, Counts
  <1>5. Asking' /\ Truthful' /\ ShowsAddress'
    BY <1>1, <1>2 DEF IInv, Asking, Truthful, ShowsAddress
  <1> QED  BY <1>3, <1>4, <1>5 DEF IInv

LEMMA IInvAssociates == ASSUME IInv, Associates PROVE IInv'
  <1>1. /\ station = "connecting" /\ station' = "associated" /\ leasing'
        /\ UNCHANGED <<task, bits, s_retry_num, ip_address, refused, failures,
                       address, events, lost>>
    BY DEF Associates, external
  <1>2. /\ Pending = {} /\ Pending' = {} /\ Leased' = Leased
        /\ "fail" \notin bits /\ task \notin {"starting", "failed", "ap"}
    BY <1>1 DEF IInv, Attended, GivenUp, Progress, Pending, Leased
  <1>3. TypeOK'
    BY <1>1 DEF IInv, TypeOK, Stations, Associates
  <1>4. Attended' /\ GivenUp' /\ Progress' /\ Counts'
    BY <1>1, <1>2 DEF IInv, Attended, GivenUp, Progress, Counts
  <1>5. \A i \in 1 .. Len(events) : events[i] # "sta_start"
    BY <1>2 DEF Pending
  <1>6. Asking' /\ Truthful' /\ ShowsAddress'
    BY <1>1, <1>2, <1>5 DEF IInv, Asking, Truthful, ShowsAddress
  <1> QED  BY <1>3, <1>4, <1>6 DEF IInv

LEMMA IInvLease == ASSUME IInv, Lease PROVE IInv'
  <1>1. /\ leasing /\ leasing' = FALSE /\ address' = "lease"
        /\ lost' = (lost \/ station = "idle")
        /\ UNCHANGED <<task, bits, s_retry_num, ip_address, refused, failures,
                       station>>
    BY DEF Lease, external
  <1>2. /\ events' \in Seq(Events) /\ Len(events') = Len(events) + 1
        /\ Len(events) \in Nat /\ Len(events') <= QueueSize
        /\ \A i \in 1 .. Len(events) : events'[i] = events[i]
        /\ events'[Len(events')] = "got_ip"
    BY Posted DEF IInv, TypeOK, Events, Lease
  <1>3. Pending' = Pending
    BY <1>2 DEF Pending
  <1>4. station \in {"idle", "associated"} /\ "fail" \notin bits
        /\ task \notin {"starting", "failed", "ap"}
    BY <1>1 DEF IInv, TypeOK, Stations, Asking, GivenUp, Progress
  <1>5. \A i \in 1 .. Len(events') : events'[i] # "sta_start"
    BY <1>1, <1>2 DEF IInv, Asking
  <1>6. TypeOK'
    BY <1>1, <1>2 DEF IInv, TypeOK, Addresses
  <1>7. Attended' /\ GivenUp' /\ Progress' /\ Counts'
    BY <1>1, <1>3, <1>4 DEF IInv, Attended, GivenUp, Progress, Counts
  <1>8. Asking' /\ Truthful'
    BY <1>1, <1>4, <1>5 DEF IInv, Asking, Truthful
  <1>9. ShowsAddress'
    BY <1>1 DEF IInv, Progress, Truthful, ShowsAddress
  <1> QED  BY <1>6, <1>7, <1>8, <1>9 DEF IInv
-----------------------------------------------------------------------------
LEMMA IInvNext == IInv /\ [Next]_vars => IInv'
  <1> SUFFICES ASSUME IInv, [Next]_vars PROVE IInv'
    OBVIOUS
  <1>1. CASE StartStation
    BY <1>1, IInvStartStation
  <1>2. CASE Wait
    BY <1>2, IInvWait
  <1>3. CASE ShowAddress
    BY <1>3, IInvShowAddress
  <1>4. CASE StartAccessPoint
    BY <1>4, IInvStartAccessPoint
  <1>5. CASE OnStart
    BY <1>5, IInvOnStart
  <1>6. CASE Retry
    BY <1>6, IInvRetry
  <1>7. CASE GiveUp
    BY <1>7, IInvGiveUp
  <1>8. CASE OnGotIp
    BY <1>8, IInvOnGotIp
  <1>9. CASE ConnectFails
    BY <1>9, IInvConnectFails
  <1>10. CASE Associates
    BY <1>10, IInvAssociates
  <1>11. CASE Lease
    BY <1>11, IInvLease
  <1>12. CASE LosesLink
    BY <1>12, IInvLosesLink
  <1>13. CASE UNCHANGED vars
    BY <1>13
    DEF IInv, TypeOK, Attended, GivenUp, Progress, Counts, Asking, Truthful,
        ShowsAddress, Pending, Leased, vars, driver
  <1> QED
    BY <1>1, <1>2, <1>3, <1>4, <1>5, <1>6, <1>7, <1>8, <1>9, <1>10, <1>11,
       <1>12, <1>13
    DEF Next, Handler

LEMMA IInvAlways == Spec => []IInv
  BY IInvInit, IInvNext, PTL DEF Spec

\* The types hold in every reachable state, for every number of retries and
\* every size of the event queue.
THEOREM TypeCorrect == Spec => []TypeOK
  <1>1. IInv => TypeOK
    BY DEF IInv
  <1> QED  BY <1>1, IInvAlways, PTL

\* wlan_start replaces the station by the access point only when event_handler
\* has given the station up.
THEOREM FallsBackWhenGivenUp == Spec => []FallsBackOnlyAfterRetries
  <1>1. IInv => FallsBackOnlyAfterRetries
    BY DEF IInv, Progress, GivenUp, FallsBackOnlyAfterRetries
  <1> QED  BY <1>1, IInvAlways, PTL

\* The station is idle with nothing on its way only after the fail bit, or when
\* the driver has refused its last attempt.
THEOREM IdleIsAnnounced == Spec => []NeverIdleUnnoticed
  <1>1. IInv => NeverIdleUnnoticed
    BY DEF IInv, TypeOK, Attended, Pending, NeverIdleUnnoticed
  <1> QED  BY <1>1, IInvAlways, PTL

\* Until a link with an address is lost, the display shows the interface's.
THEOREM DisplayShowsAddress == Spec => []ShowsAddress
  <1>1. IInv => ShowsAddress
    BY DEF IInv
  <1> QED  BY <1>1, IInvAlways, PTL

\* The fail bit is set by the disconnection that follows the last retry.
LEMMA FailBitStep ==
    ASSUME IInv, [Next]_vars
    PROVE  [bits' \ bits = {"fail"} => failures' = MaximumRetry + 1]_vars
  <1>1. CASE GiveUp
    <2>1. s_retry_num = failures /\ LinkDown
      BY <1>1, AfterLinkDown DEF GiveUp
    <2>2. failures = MaximumRetry
      BY <1>1, <2>1, MaximumRetryAssumption DEF IInv, TypeOK, GiveUp
    <2> QED  BY <2>1, <2>2, MaximumRetryAssumption DEF LinkDown
  <1>2. CASE OnGotIp
    <2>1. bits' = bits \cup {"connected"}
      BY <1>2 DEF OnGotIp, SetBits
    <2> QED  BY <2>1
  <1>3. CASE ~GiveUp /\ ~OnGotIp
    <2>1. UNCHANGED bits
      BY <1>3
      DEF Next, Handler, StartStation, Wait, ShowAddress, StartAccessPoint,
          OnStart, Retry, ConnectFails, Associates, Lease, LosesLink,
          external, vars
    <2> QED  BY <2>1
  <1> QED  BY <1>1, <1>2, <1>3

\* The fail bit ends a run of exactly MaximumRetry + 1 disconnections without
\* an address: the retries of an earlier connection are never counted.
THEOREM FailBitCountsRetries == Spec => GivesUpOnlyAfterRetries
  <1>1. IInv /\ [Next]_vars =>
            [bits' \ bits = {"fail"} => failures' = MaximumRetry + 1]_vars
    BY FailBitStep
  <1> QED  BY <1>1, IInvAlways, PTL DEF Spec, GivesUpOnlyAfterRetries

=============================================================================
