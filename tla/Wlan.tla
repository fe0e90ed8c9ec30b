-------------------------------- MODULE Wlan --------------------------------
(***************************************************************************)
(* main/wlan.c, one boot of it: app_main starts the station and waits for  *)
(* an address or for the connection to fail; event_handler, in the event   *)
(* loop's task, retries and sets the bits app_main waits for.              *)
(*                                                                         *)
(* The Wi-Fi driver, the DHCP client and the event loop are ESP-IDF's.     *)
(* They post events, which the loop hands to the handlers in order: first  *)
(* to the network interface, which drops its address when the link is      *)
(* gone, then to event_handler.  DHCP runs in a task of its own, so a      *)
(* lease can arrive between the loss of the link and its event.            *)
(***************************************************************************)
EXTENDS Integers, Sequences

CONSTANTS
    MaximumRetry,    \* EXAMPLE_ESP_MAXIMUM_RETRY
    QueueSize        \* of the event loop; who posts to a full one waits

ASSUME MaximumRetryAssumption == MaximumRetry \in Nat
ASSUME QueueSizeAssumption    == QueueSize \in Nat \ {0}

VARIABLES
    task,           \* how far app_main is in wlan_start
    bits,           \* s_wifi_event_group
    s_retry_num,
    ip_address,     \* the address state.c keeps for the display
    station,        \* the driver
    leasing,        \* is the DHCP client asking?
    address,        \* of the network interface
    refused,        \* observer: did the last esp_wifi_connect start nothing?
    events,         \* posted, not handled yet
    failures,       \* observer: disconnections since an address was reported
    lost            \* observer: has a link been lost that had got an address?

driver == <<station, leasing, address, refused>>
vars   == <<task, bits, s_retry_num, ip_address, driver, events, failures, lost>>

Bits      == {"connected", "fail"}
Events    == {"sta_start", "disconnected", "got_ip"}
Stations  == {"off", "idle", "connecting", "associated"}
Addresses == {"none", "lease"}

Init ==
    /\ task = "starting" /\ bits = {} /\ s_retry_num = 0
    /\ ip_address = "none"
    /\ station = "off" /\ leasing = FALSE /\ address = "none"
    /\ refused = FALSE
    /\ events = << >>
    /\ failures = 0 /\ lost = FALSE
-----------------------------------------------------------------------------
(***************************************************************************)
(* wlan_start                                                              *)
(***************************************************************************)

\* wifi_init_sta up to esp_wifi_start.
StartStation ==
    /\ task = "starting" /\ task' = "started"
    /\ station' = "idle" /\ events' = << "sta_start" >>
    /\ UNCHANGED <<bits, s_retry_num, ip_address, leasing, address, refused,
                   failures, lost>>

\* What xEventGroupWaitBits returns decides; an address comes first.
Returned(b) == CASE "connected" \in b -> "connected"
                 [] b = {"fail"}      -> "failed"
                 [] OTHER             -> "waiting"

\* Faulty variant: goes on at once.
WaitNot ==
    /\ task = "started" /\ task' = "connected"
    /\ UNCHANGED <<bits, s_retry_num, ip_address, driver, events, failures, lost>>

Wait ==
    /\ task = "started" /\ task' = Returned(bits)
    /\ UNCHANGED <<bits, s_retry_num, ip_address, driver, events, failures, lost>>

\* set_ip_address of what the interface has by now.
ShowAddress ==
    /\ task = "connected" /\ task' = "station"
    /\ ip_address' = address
    /\ UNCHANGED <<bits, s_retry_num, driver, events, failures, lost>>

\* wifi_init_ap: the driver gives up its station.
StartAccessPoint ==
    /\ task = "failed" /\ task' = "ap"
    /\ station' = "off" /\ ip_address' = "ap"
    /\ UNCHANGED <<bits, s_retry_num, leasing, address, refused, events,
                   failures, lost>>
-----------------------------------------------------------------------------
(***************************************************************************)
(* event_handler                                                           *)
(***************************************************************************)
Handles(e) == events # << >> /\ Head(events) = e /\ events' = Tail(events)

\* It may refuse, as it does a network without a name: then there is no attempt,
\* and no event that ends one.  Nobody looks at the result.
esp_wifi_connect ==
    \/ station' = "connecting" /\ refused' = FALSE
    \/ UNCHANGED station /\ refused' = TRUE

\* The bits wake the task that waits, with the value they have now.
SetBits(b) ==
    /\ bits' = bits \cup {b}
    /\ task' = IF task = "waiting" THEN Returned(bits') ELSE task

OnStart ==
    /\ Handles("sta_start")
    /\ esp_wifi_connect
    /\ UNCHANGED <<task, bits, s_retry_num, ip_address, leasing, address,
                   failures, lost>>

\* The interface has been told first: no address, no DHCP.
LinkDown ==
    /\ Handles("disconnected")
    /\ leasing' = FALSE /\ address' = "none"
    /\ failures' = IF failures > MaximumRetry THEN failures ELSE failures + 1
    /\ UNCHANGED <<ip_address, lost>>

\* Faulty variants: one retry too many; no new attempt; the fail bit with it.
RetryOnceMore ==
    /\ LinkDown
    /\ s_retry_num <= MaximumRetry
    /\ esp_wifi_connect
    /\ s_retry_num' = s_retry_num + 1
    /\ UNCHANGED <<task, bits>>

RetryIdle ==
    /\ LinkDown
    /\ s_retry_num < MaximumRetry
    /\ s_retry_num' = s_retry_num + 1
    /\ UNCHANGED <<task, bits, station, refused>>

RetryAnnounced ==
    /\ LinkDown
    /\ s_retry_num < MaximumRetry
    /\ esp_wifi_connect
    /\ s_retry_num' = s_retry_num + 1
    /\ SetBits("fail")

Retry ==
    /\ LinkDown
    /\ s_retry_num < MaximumRetry
    /\ esp_wifi_connect
    /\ s_retry_num' = s_retry_num + 1
    /\ UNCHANGED <<task, bits>>

\* Faulty variant: nobody is told.
GiveUpSilently ==
    /\ LinkDown
    /\ s_retry_num >= MaximumRetry
    /\ UNCHANGED <<task, bits, s_retry_num, station, refused>>

GiveUp ==
    /\ LinkDown
    /\ s_retry_num >= MaximumRetry
    /\ SetBits("fail")
    /\ UNCHANGED <<s_retry_num, station, refused>>

\* Faulty variant: earlier failures are still counted.
OnGotIpKeepsCount ==
    /\ Handles("got_ip")
    /\ SetBits("connected")
    /\ failures' = 0
    /\ UNCHANGED <<s_retry_num, ip_address, driver, lost>>

OnGotIp ==
    /\ Handles("got_ip")
    /\ s_retry_num' = 0
    /\ SetBits("connected")
    /\ failures' = 0
    /\ UNCHANGED <<ip_address, driver, lost>>

Handler == OnStart \/ Retry \/ GiveUp \/ OnGotIp
-----------------------------------------------------------------------------
(***************************************************************************)
(* The driver and the DHCP client                                          *)
(***************************************************************************)
Post(e) == Len(events) < QueueSize /\ events' = Append(events, e)

external == <<task, bits, s_retry_num, ip_address, refused, failures>>

\* Not found, refused, or wrong password.
ConnectFails ==
    /\ station = "connecting" /\ station' = "idle"
    /\ Post("disconnected")
    /\ UNCHANGED <<external, leasing, address, lost>>

Associates ==
    /\ station = "connecting" /\ station' = "associated"
    /\ leasing' = TRUE
    /\ UNCHANGED <<external, address, events, lost>>

Lease ==
    /\ leasing /\ leasing' = FALSE
    /\ address' = "lease"
    /\ Post("got_ip")
    /\ lost' = (lost \/ station = "idle")
    /\ UNCHANGED <<external, station>>

LosesLink ==
    /\ station = "associated" /\ station' = "idle"
    /\ Post("disconnected")
    /\ lost' = (lost \/ address = "lease")
    /\ UNCHANGED <<external, leasing, address>>

Next == \/ StartStation \/ Wait \/ ShowAddress \/ StartAccessPoint
        \/ Handler
        \/ ConnectFails \/ Associates \/ Lease \/ LosesLink

Spec == Init /\ [][Next]_vars
-----------------------------------------------------------------------------
Tasks == {"starting", "started", "waiting", "connected", "failed",
          "station", "ap"}

TypeOK ==
    /\ task \in Tasks /\ bits \subseteq Bits
    /\ s_retry_num \in 0 .. MaximumRetry
    /\ ip_address \in Addresses \cup {"ap"}
    /\ station \in Stations /\ leasing \in BOOLEAN /\ address \in Addresses
    /\ refused \in BOOLEAN
    /\ events \in Seq(Events) /\ Len(events) <= QueueSize
    /\ failures \in 0 .. MaximumRetry + 1 /\ lost \in BOOLEAN

\* wlan_start replaces the station by the access point only when the station
\* has been given up: it is not connecting, let alone connected, while app_main
\* is about to stop it.
FallsBackOnlyAfterRetries ==
    task \in {"failed", "ap"} =>
        /\ "fail" \in bits
        /\ station \in {"idle", "off"}

\* The comment of wifi_init_sta says WIFI_FAIL_BIT is for a connection that
\* failed the maximum number of retries: it ends a run of MaximumRetry + 1
\* disconnections with no address reported between them.
GivesUpOnlyAfterRetries ==
    [][bits' \ bits = {"fail"} => failures' = MaximumRetry + 1]_vars

\* The station stops trying in two ways only: with the fail bit set, or because
\* the driver has refused the last attempt, which nobody notices.  After any
\* other disconnection an attempt is under way or its event is on its way.
NeverIdleUnnoticed ==
    station = "idle" /\ events = << >> => "fail" \in bits \/ refused

\* As long as the link has not been lost, the address on the display is the
\* interface's.
ShowsAddress == task = "station" /\ ~lost => ip_address = address

=============================================================================
