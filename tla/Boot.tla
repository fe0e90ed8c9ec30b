-------------------------------- MODULE Boot --------------------------------
(***************************************************************************)
(* app_main from reset to the end, the tasks it starts, and what can make  *)
(* it start over: main/main.c with the wlan.c of module Wlan, the UDP half *)
(* of module NetLogging, the credentials in the store and the line of the  *)
(* display that shows the address.                                         *)
(*                                                                         *)
(* The credentials decide how the boot ends.  The form for them writes two *)
(* keys of the store without looking at the results and restarts; what is  *)
(* stored can be half of one entry and half of another.                    *)
(***************************************************************************)
EXTENDS Wlan

CONSTANTS
    Names, Words,    \* what is typed into the form for credentials
    HomeName,        \* the network that is there,
    HomeWord,        \* and its password
    MaxRestarts      \* bound

ASSUME HomeAssumption        == HomeName \in Names /\ HomeWord \in Words
ASSUME MaxRestartsAssumption == MaxRestarts \in Nat

VARIABLES
    step,            \* how far app_main is
    stored,          \* the two keys in flash
    cached,          \* cached_ap_name, cached_password
    udp,             \* is a log server stored?
    caller, hook, client, notified,    \* of udp_logging_init, see NetLogging
    serving,         \* has httpd_start succeeded?
    screen,          \* what ip_address_label shows
    restarts         \* restarts so far

logging == <<caller, hook, client, notified>>
rest    == <<stored, cached, udp, serving, restarts>>
bvars   == <<vars, step, rest, logging, screen>>

\* One client of the UDP kind; what it does with lines is NetLogging's matter.
\* (TLC takes 0 = 1 in UNCHANGED, and not FALSE.)
Log == INSTANCE NetLogging WITH
           Loggers <- {}, MaxLines <- 0, Slots <- 2,
           kind <- "udp", task <- caller,
           ring <- [i \in 0 .. 1 |-> <<"none", 0>>], head <- 0, tail <- 0,
           count <- << >>, writer <- << >>, holding <- <<"none", 0>>,
           broker <- "off", bit <- 0 = 1, sent <- << >>, spoilt <- 0 = 1

Empty       == ""
Credentials == [name : Names \cup {Empty}, word : Words \cup {Empty}]
Blank       == [name |-> Empty, word |-> Empty]
Home        == [name |-> HomeName, word |-> HomeWord]

Steps == {"display", "store", "wlan", "logging", "zigbee", "web", "up"}

BInit ==
    /\ Init
    /\ step = "display" /\ screen = "none"
    /\ stored \in Credentials /\ cached = Blank
    /\ udp \in BOOLEAN /\ serving = FALSE
    /\ caller = "calling" /\ hook = FALSE /\ client = "none" /\ notified = FALSE
    /\ restarts = 0
-----------------------------------------------------------------------------
(***************************************************************************)
(* app_main                                                                *)
(***************************************************************************)
Goes(from, to) == step = from /\ step' = to

\* display_start draws what state.c has, and starts the timer.
DisplayStart ==
    /\ Goes("display", "store")
    /\ screen' = ip_address
    /\ UNCHANGED <<vars, rest, logging>>

\* A string that cannot be read is empty; if the store cannot be opened, both are.
StoreStart ==
    /\ Goes("store", "wlan")
    /\ \E n \in {stored.name, Empty}, w \in {stored.word, Empty} :
           cached' = [name |-> n, word |-> w]
    /\ UNCHANGED <<vars, stored, udp, serving, restarts, logging, screen>>

WlanStart ==
    /\ step = "wlan"
    /\ StartStation \/ Wait \/ ShowAddress \/ StartAccessPoint
    /\ UNCHANGED <<step, rest, logging, screen>>

WlanReturns ==
    /\ task \in {"station", "ap"} /\ Goes("wlan", "logging")
    /\ UNCHANGED <<vars, rest, logging, screen>>

\* logging_start: nothing without a server, else udp_logging_init.
SkipLogging ==
    /\ ~udp /\ Goes("logging", "zigbee")
    /\ UNCHANGED <<vars, rest, logging, screen>>

StartLogging ==
    /\ udp /\ step = "logging"
    /\ Log!CreateClient \/ Log!BufferFails \/ Log!Hook
    /\ step' = IF caller' = "ready" THEN "zigbee" ELSE step
    /\ UNCHANGED <<vars, rest, screen>>

ZigbeeStart ==
    /\ Goes("zigbee", "web")
    /\ UNCHANGED <<vars, rest, logging, screen>>

\* setup_server returns without a server when httpd_start fails; setOpMode and
\* ota_updater_activate_current_partition follow.
WebserverStart ==
    /\ Goes("web", "up")
    /\ serving' \in BOOLEAN
    /\ UNCHANGED <<vars, stored, cached, udp, restarts, logging, screen>>

Main == \/ DisplayStart \/ StoreStart \/ WlanStart \/ WlanReturns
        \/ SkipLogging \/ StartLogging \/ ZigbeeStart \/ WebserverStart
-----------------------------------------------------------------------------
(***************************************************************************)
(* The other tasks                                                         *)
(***************************************************************************)

\* event_handler.  esp_wifi_connect refuses an empty name, and may others.
EventLoop ==
    /\ Handler
    /\ cached.name = Empty => station' # "connecting"
    /\ UNCHANGED <<step, rest, logging, screen>>

Attempt ==
    /\ ConnectFails \/ (cached = Home /\ Associates)
    /\ UNCHANGED <<step, rest, logging, screen>>

Network == (Lease \/ LosesLink) /\ UNCHANGED <<step, rest, logging, screen>>

\* udp_client; its failed assertion restarts the system, see Abort.
LogClient ==
    /\ Log!CopyParameters \/ Log!Opens \/ Log!SocketFails
    /\ UNCHANGED <<vars, step, rest, screen>>

\* Faulty variant: the label keeps what it shows.
RedrawLabelKept ==
    /\ step # "display"
    /\ UNCHANGED <<vars, step, rest, logging, screen>>

\* periodic_timer_callback copies the address while app_main, which it
\* interrupts, may have copied half of a new one to it.
Redraw ==
    /\ step # "display"
    /\ screen' \in {ip_address} \cup
                   (IF task \in {"connected", "failed"} THEN {"torn"} ELSE {})
    /\ UNCHANGED <<vars, step, rest, logging>>
-----------------------------------------------------------------------------
(***************************************************************************)
(* Starting over                                                           *)
(***************************************************************************)

\* The globals have their initial values again; the flash keeps its own.
Restart ==
    /\ restarts < MaxRestarts /\ restarts' = restarts + 1
    /\ task' = "starting" /\ bits' = {} /\ s_retry_num' = 0
    /\ ip_address' = "none"
    /\ station' = "off" /\ leasing' = FALSE /\ address' = "none"
    /\ refused' = FALSE /\ events' = << >>
    /\ failures' = 0 /\ lost' = FALSE
    /\ step' = "display" /\ screen' = "none"
    /\ cached' = Blank /\ udp' = udp /\ serving' = FALSE
    /\ caller' = "calling" /\ hook' = FALSE /\ client' = "none" /\ notified' = FALSE

\* A failed ESP_ERROR_CHECK or LWIP_ASSERT.
Abort ==
    /\ \/ step \in {"display", "zigbee", "web"}
       \/ step = "wlan" /\ task \in {"starting", "failed"}
       \/ client = "aborted"
    /\ Restart /\ UNCHANGED stored

\* The plug is pulled and put back.
PowerCycle == Restart /\ UNCHANGED stored

\* A browser gets to the web server through the network or the access point.
Reachable == serving /\ (task = "ap" \/ address = "lease")

\* handle_credentials.  Either of the writes may fail, and power may be lost
\* between them: what is stored is any mixture.
HandleCredentials(c) ==
    /\ Reachable
    /\ Restart
    /\ \E n \in {c.name, stored.name}, w \in {c.word, stored.word} :
           stored' = [name |-> n, word |-> w]

BNext == \/ Main
         \/ EventLoop \/ Attempt \/ Network \/ LogClient \/ Redraw
         \/ Abort \/ PowerCycle
         \/ \E c \in [name : Names, word : Words] : HandleCredentials(c)

BSpec == BInit /\ [][BNext]_bvars

\* Every task runs; the driver answers an attempt; a station that asks for an
\* address gets one, or its link does not last; a failed assertion restarts.
FairBSpec ==
    /\ BSpec
    /\ WF_bvars(Main) /\ WF_bvars(EventLoop) /\ WF_bvars(Attempt)
    /\ WF_bvars(leasing /\ Network) /\ WF_bvars(LogClient) /\ WF_bvars(Redraw)
    /\ WF_bvars(client = "aborted" /\ Abort)
-----------------------------------------------------------------------------
BTypeOK ==
    /\ TypeOK
    /\ step \in Steps /\ restarts \in 0 .. MaxRestarts
    /\ stored \in Credentials /\ cached \in Credentials
    /\ udp \in BOOLEAN /\ serving \in BOOLEAN /\ hook \in BOOLEAN
    /\ notified \in BOOLEAN
    /\ caller \in {"calling", "waiting", "ready"} /\ client \in Log!Clients
    /\ screen \in Addresses \cup {"ap", "torn"}

\* Whatever mixture of two entries the store holds, a device that has come up
\* with credentials that are not the network's is an access point, on which
\* the form for new ones is served if httpd could be started.
WrongIsCorrectable == step = "up" /\ cached # Home => task = "ap"

\* app_main waits for the end of an attempt, and there is none: the driver has
\* refused it.
Stalled ==
    /\ task = "waiting" /\ refused
    /\ station = "idle" /\ ~leasing /\ events = << >>

\* app_main waits for its log client, and there is none.
Untold == caller = "waiting" /\ client = "none"

\* app_main comes to its end after every reset: it waits for the connection and
\* for the log client, and each of them tells it, whichever way it goes.  The
\* exceptions are the two results nobody looks at, of esp_wifi_connect and of
\* xTaskCreate, and an assertion of the logging that fails on the last restart
\* the bound allows.
ComesUp ==
    step # "up" ~> (step = "up" \/ Stalled \/ Untold
                    \/ (client = "aborted" /\ restarts = MaxRestarts))

\* The display shows the address wlan_start has reported, at the latest when it
\* is drawn again: half an address does not stay.
ScreenCatchesUp ==
    \A a \in Addresses \cup {"ap"} :
        (task \in {"station", "ap"} /\ ip_address = a) ~>
        (screen = a \/ task \notin {"station", "ap"})

=============================================================================
