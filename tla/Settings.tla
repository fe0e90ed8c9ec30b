------------------------------ MODULE Settings ------------------------------
(***************************************************************************)
(* The settings forms of the web page: post_handler and the three handlers *)
(* behind it in main/webserver.c, and the store they save to,              *)
(* main/nvs_store.c, key by key.  The power may go between any two writes. *)
(*                                                                         *)
(* The web server serves one request at a time.  The Zigbee task, of the   *)
(* same priority, reads the limits one by one in update_state_for_pm_25    *)
(* while set_limit changes them one by one.                                *)
(*                                                                         *)
(* Values are numbers, those of strings too.                               *)
(***************************************************************************)
EXTENDS Integers, Sequences

CONSTANTS
    Forms,         \* what users post: kinds and values
    Levels,        \* PM2.5 levels of the reports
    Ages,          \* seconds since the motor was switched on
    MaxRequests,   \* bound: forms posted
    MaxFaults      \* bound: keys that cannot be read or written

Kinds == {"limits", "credentials", "logging"}

\* The fields of index.html, in the order of the body and of the cache.
Fields == [limits      |-> << "low_limit", "high_limit", "afterrun" >>,
           credentials |-> << "username", "password" >>,
           logging     |-> << "udp_server", "udp_port" >>]

\* The order in which NVS is written.
Writes == [Fields EXCEPT !.logging = << "udp_port", "udp_server" >>]

KeysOf(kind) == {Fields[kind][i] : i \in DOMAIN Fields[kind]}
Limits       == KeysOf("limits")
Keys         == UNION {KeysOf(kind) : kind \in Kinds}

Blank   == -1    \* a field posted with nothing in it
Missing == -2    \* a key that is not in NVS
Stray   == -3    \* what an uninitialized buffer holds
Cut     == 1     \* the first digits or letters of a value
NoForm  == [kind |-> "none"]

ASSUME FormsAssumption ==
    \A f \in Forms : \E kind \in Kinds :
        f \in [kind : {kind}, value : [KeysOf(kind) -> Nat \cup {Blank}]]
ASSUME ReportsAssumption == Levels \cup Ages \subseteq Nat
ASSUME BoundsAssumption  == MaxRequests \in Nat /\ MaxFaults \in Nat

VARIABLES
    flash,       \* the keys in NVS
    cache,       \* cached_low_limit ... cached_udp_server
    mounted,     \* has nvs_open worked?
    httpd,       \* what the web server is doing
    form,        \* the request it is serving, with the values as decoded
    next,        \* the key to write or to cache next
    requests,    \* posted so far
    faults,      \* of NVS so far
    report,      \* the report the Zigbee task is evaluating
    whole,       \* observer: has the request come, and been written, whole?
    torn,        \* observer: kinds whose last save was cut short or failed
    behind,      \* observer: keys that the last save of their kind has not written
    stale,       \* observer: keys whose last write or read failed
    settled      \* observer: the limits last saved as a whole

store    == <<flash, mounted, faults>>
request  == <<httpd, form, next, requests>>
observed == <<whole, torn, behind, stale>>
vars     == <<store, cache, request, report, observed, settled>>

Default(k) == CASE k = "low_limit"  -> 50
                [] k = "high_limit" -> 100
                [] OTHER            -> 0

Stored(k) == IF flash[k] = Missing THEN Default(k) ELSE flash[k]

\* update_state_for_pm_25 with limits l.
Call(l, pm, age) == CASE pm >= l["high_limit"] -> "high"
                      [] pm < l["high_limit"] /\ pm >= l["low_limit"] -> "low"
                      [] OTHER -> IF age > l["afterrun"] THEN "off" ELSE "stay"

NoReport == [at |-> "none", calls |-> {}]

\* A report under way when new limits begin to take effect.
Meets(r, f) ==
    IF f.kind = "limits" /\ r.at \in {"high", "low", "afterrun"}
    THEN [r EXCEPT !.calls = @ \cup {Call(f.value, r.pm, r.age)}]
    ELSE r

Init ==
    /\ flash = [k \in Keys |-> Missing] /\ mounted = TRUE /\ faults = 0
    /\ cache = [k \in Keys |-> Default(k)]
    /\ httpd = "idle" /\ form = NoForm /\ next = 1 /\ requests = 0
    /\ report = NoReport
    /\ whole = TRUE /\ torn = {} /\ behind = {} /\ stale = {}
    /\ settled = [k \in Limits |-> Default(k)]
-----------------------------------------------------------------------------
(***************************************************************************)
(* store_start, after a restart                                            *)
(***************************************************************************)

\* The partition cannot be opened: no default is set either.
StaysClosed ==
    /\ faults < MaxFaults /\ faults' = faults + 1
    /\ mounted' = FALSE
    /\ cache' = [k \in Keys |-> 0]
    /\ stale' = Keys

ReadAll ==
    /\ mounted' = TRUE
    /\ cache' = [k \in Keys |-> Stored(k)] /\ stale' = {}
    /\ UNCHANGED faults

ReadAllBut(bad) ==
    /\ faults < MaxFaults /\ faults' = faults + 1
    /\ mounted' = TRUE
    /\ cache' = [k \in Keys |-> IF k = bad THEN Default(k) ELSE Stored(k)]
    /\ stale' = {bad}

Restart ==
    /\ ReadAll \/ StaysClosed \/ \E k \in Keys : ReadAllBut(k)
    /\ httpd' = "idle" /\ form' = NoForm /\ next' = 1
    /\ report' = NoReport
    /\ settled' = [k \in Limits |-> cache'[k]]
    /\ whole' = TRUE
    /\ UNCHANGED <<flash, requests, behind>>

Crash == Restart /\ UNCHANGED torn

\* Has the save under way written, or tried to write, a part of the keys?
HalfWritten(kind) == httpd = "writing" /\ form.kind = kind /\ next > 1

PowerLoss ==
    /\ torn' = torn \cup {kind \in Kinds : HalfWritten(kind)}
    /\ Restart

(***************************************************************************)
(* post_handler                                                            *)
(***************************************************************************)
Request(f) ==
    /\ httpd = "idle" /\ httpd' = "receiving"
    /\ requests < MaxRequests /\ requests' = requests + 1
    /\ form' = f
    /\ UNCHANGED <<store, cache, next, report, observed, settled>>

\* Faulty variant: it is received again, for as long as it takes.
ReceiveAgain == httpd = "receiving" /\ UNCHANGED vars

\* An error, or nothing for recv_wait_timeout: the negative result is the
\* length of a memcpy, and the system crashes.
ReceiveFails == httpd = "receiving" /\ Crash

\* A field that has not come: 0 for a limit, else what the stack holds.
Absent(kind) == IF kind = "limits" THEN 0 ELSE Stray

Position(kind, k) == CHOOSE i \in DOMAIN Fields[kind] : Fields[kind][i] = k

\* The first n fields of f have come, and of the next what c says.
Decoded(f, n, c) == [k \in KeysOf(f.kind) |->
                        CASE Position(f.kind, k) <= n    -> f.value[k]
                          [] Position(f.kind, k) = n + 1 -> c
                          [] OTHER                       -> Absent(f.kind)]

\* A field without a value is a null pointer to atoi and to strcpy, except
\* that of udp_server.
Accepted(v) == \A k \in DOMAIN v : v[k] = Blank => k = "udp_server"

\* httpd_req_recv returns 0: the whole body has come, or the client is gone.
\* What has come is decoded and saved as if it were all.
End ==
    /\ httpd = "receiving"
    /\ \E n \in 0 .. Len(Fields[form.kind]), c \in {Absent(form.kind), Cut, Blank} :
           LET v == Decoded(form, n, c)
           IN  IF Accepted(v)
               THEN /\ httpd' = "writing" /\ next' = 1
                    /\ form' = [form EXCEPT !.value = v]
                    /\ whole' = (n = Len(Fields[form.kind]))
                    /\ UNCHANGED <<store, cache, requests, report, settled>>
                    /\ UNCHANGED <<torn, behind, stale>>
               ELSE Crash
-----------------------------------------------------------------------------
(***************************************************************************)
(* set_limit, set_wlan_credentials, store_set_udp_server                   *)
(***************************************************************************)
\* Faulty variant: one key too many.
GoesTooFar(phase) == IF next > Len(Fields[form.kind])
                     THEN httpd' = phase /\ next' = 1
                     ELSE next' = next + 1 /\ UNCHANGED httpd

Goes(phase) == IF next = Len(Fields[form.kind])
               THEN httpd' = phase /\ next' = 1
               ELSE next' = next + 1 /\ UNCHANGED httpd

\* Nothing can be written through the handle of a partition not opened.
WriteFails == \/ ~mounted /\ UNCHANGED faults
              \/ mounted /\ faults < MaxFaults /\ faults' = faults + 1

\* The keys the save has still to write when it comes to its next.
Left == IF next = 1 THEN behind \cup KeysOf(form.kind) ELSE behind

\* What the observers see of a write that has taken the save on.
Observed ==
    torn' = CASE ~whole' -> torn \cup {form.kind}
              [] whole' /\ httpd' = "caching" -> torn \ {form.kind}
              [] OTHER -> torn

\* writeInt, writeString with value v for key k: an error is only logged.
Writing(k, v) ==
    /\ \/ /\ mounted
          /\ flash' = [flash EXCEPT ![k] = v]
          /\ stale' = stale \ {k} /\ behind' = Left \ {k}
          /\ UNCHANGED <<whole, faults>>
       \/ /\ WriteFails
          /\ stale' = stale \cup {k} /\ behind' = Left \cup {k}
          /\ whole' = FALSE
          /\ UNCHANGED flash
    /\ Goes("caching")
    /\ Observed
    /\ report' = IF httpd' = "caching" THEN Meets(report, form) ELSE report
    /\ UNCHANGED <<mounted, cache, form, requests, settled>>

\* Faulty variant: the values are taken in the order of the fields.
WriteInTurn ==
    /\ httpd = "writing"
    /\ Writing(Writes[form.kind][next], form.value[Fields[form.kind][next]])

Write ==
    /\ httpd = "writing"
    /\ LET k == Writes[form.kind][next] IN Writing(k, form.value[k])

\* Faulty variants: what is in NVS is read again, after the defaults have been
\* set; the cache is not changed.
CacheReloaded ==
    /\ httpd = "caching"
    /\ LET k == Fields[form.kind][next]
       IN  \/ cache' = [cache EXCEPT ![k] = Stored(k)] /\ Goes("saved")
           \/ cache' = [cache EXCEPT ![k] = Default(k)] /\ UNCHANGED <<httpd, next>>
    /\ UNCHANGED <<store, form, requests, report, observed, settled>>

CacheNot ==
    /\ httpd = "caching"
    /\ Goes("saved")
    /\ UNCHANGED <<store, cache, form, requests, report, observed, settled>>

Cache ==
    /\ httpd = "caching"
    /\ LET k == Fields[form.kind][next]
       IN  cache' = [cache EXCEPT ![k] = form.value[k]]
    /\ Goes("saved")
    /\ UNCHANGED <<store, form, requests, report, observed, settled>>

\* nvs_commit; credentials restart the system, and for the others the page is
\* sent again.
Answer ==
    /\ httpd = "saved"
    /\ form.kind # "credentials"
    /\ httpd' = "idle" /\ form' = NoForm
    /\ settled' = [k \in Limits |-> cache[k]]
    /\ whole' = TRUE
    /\ UNCHANGED <<store, cache, next, requests, report, torn, behind, stale>>

RestartWithCredentials ==
    /\ httpd = "saved" /\ form.kind = "credentials"
    /\ Crash
-----------------------------------------------------------------------------
(***************************************************************************)
(* update_state_for_pm_25: high limit, low limit, afterrun, as needed      *)
(***************************************************************************)
Reads(from, to, called, speed) ==
    /\ report.at = from
    /\ report' = IF called
                 THEN [at |-> "decided", speed |-> speed, calls |-> report.calls]
                 ELSE [report EXCEPT !.at = to]
    /\ UNCHANGED <<store, cache, request, observed, settled>>

\* A new report, in AUTO.
Report(pm, age) ==
    /\ report.at \in {"none", "decided"}
    /\ report' = LET r == [at |-> "high", pm |-> pm, age |-> age,
                            calls |-> {Call(settled, pm, age)}]
                 IN  IF httpd \in {"caching", "saved"} THEN Meets(r, form) ELSE r
    /\ UNCHANGED <<store, cache, request, observed, settled>>

ReadHigh == Reads("high", "low", report.pm >= cache["high_limit"], "high")
ReadLow  == Reads("low", "afterrun", report.pm >= cache["low_limit"], "low")
ReadAfterrun ==
    Reads("afterrun", "none", TRUE,
          IF report.age > cache["afterrun"] THEN "off" ELSE "stay")
-----------------------------------------------------------------------------
Save == Write \/ Cache \/ Answer \/ RestartWithCredentials

Next == \/ PowerLoss
        \/ \E f \in Forms : Request(f)
        \/ ReceiveFails \/ End \/ Save
        \/ \E pm \in Levels, age \in Ages : Report(pm, age)
        \/ ReadHigh \/ ReadLow \/ ReadAfterrun

Spec == Init /\ [][Next]_vars

\* A client may never send the rest of its request; the timeout comes, and the
\* web server's task runs.
FairSpec == Spec /\ WF_vars(ReceiveFails) /\ WF_vars(Save)
-----------------------------------------------------------------------------
Values == Nat \cup {Blank, Stray}

TypeOK ==
    /\ flash \in [Keys -> Values \cup {Missing}] /\ cache \in [Keys -> Values]
    /\ mounted \in BOOLEAN
    /\ httpd \in {"idle", "receiving", "writing", "caching", "saved"}
    /\ httpd # "idle" =>
           /\ form.kind \in Kinds
           /\ form.value \in [KeysOf(form.kind) -> Values]
           /\ next \in DOMAIN Fields[form.kind]
    /\ report.at \in {"none", "high", "low", "afterrun", "decided"}
    /\ requests \in 0 .. MaxRequests /\ faults \in 0 .. MaxFaults
    /\ whole \in BOOLEAN /\ torn \subseteq Kinds /\ behind \cup stale \subseteq Keys
    /\ settled \in [Limits -> Values]

FormsOf(kind) == {f \in Forms : f.kind = kind}

\* What the forms of each kind are taken for, whole and cut short.
Bodies == [kind \in Kinds |->
              {Decoded(f, n, c) : f \in FormsOf(kind),
                                  n \in 0 .. Len(Fields[kind]),
                                  c \in {Absent(kind), Cut, Blank}}]

OfOne(keys, bodies) ==
    \/ \A k \in keys : flash[k] = Missing
    \/ \E b \in bodies : \A k \in keys : flash[k] = b[k]

\* What the next boot finds of the settings of one kind, whenever the power
\* goes: no value but one that was posted for its key, the keys that the last
\* save got to all from one body, and all the keys from one form that came
\* whole.  Only a power loss between two of its writes, a write that failed or a
\* body cut short leaves the last untrue when a save is over, and the next save
\* that ends whole mends it.
SavedTogether ==
    \A kind \in Kinds :
        /\ \A k \in KeysOf(kind) : OfOne({k}, Bodies[kind])
        /\ OfOne(KeysOf(kind) \ behind, Bodies[kind])
        /\ kind \in torn \/ HalfWritten(kind) \/
             OfOne(KeysOf(kind), {f.value : f \in FormsOf(kind)})

\* The keys the save under way has still to write or to cache.
Pending ==
    IF httpd \in {"writing", "caching"}
    THEN {Fields[form.kind][i] : i \in IF httpd = "writing" THEN DOMAIN Fields[form.kind]
                                       ELSE next .. Len(Fields[form.kind])}
    ELSE {}

\* The page and the control loop go by what the next boot will find, key by
\* key, unless the last access to the key failed.
CacheIsStored == \A k \in Keys \ (stale \cup Pending) : cache[k] = Stored(k)

\* A report evaluated while the limits change: when the limits before and after
\* call for the same speed, so does what the report makes of a mixture of them.
DecisionsAgree ==
    \A s \in report.calls :
        report.at = "decided" /\ report.calls = {s} => report.speed = s

\* No client keeps the web server for ever.
NotBlocked == (httpd # "idle") ~> (httpd = "idle")

=============================================================================
