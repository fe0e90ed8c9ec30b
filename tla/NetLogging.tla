----------------------------- MODULE NetLogging -----------------------------
(***************************************************************************)
(* components/net-logging: the log lines of every task go through one      *)
(* message buffer to a client task that sends them over UDP, TCP, MQTT or  *)
(* HTTP.  The firmware uses UDP; the component offers all four.            *)
(*                                                                         *)
(* FreeRTOS's message buffer allows one writer: xMessageBufferSendFromISR  *)
(* reads the head, copies the line behind it and then moves the head, with *)
(* no lock.  Here the buffer is a ring of slots, one line each, and a line *)
(* is written in two steps.  Once two of them have been written at once,   *)
(* or one was longer than xItemSize and has overrun the array it is        *)
(* formatted into, what the buffer holds need not be a message any more.   *)
(***************************************************************************)
EXTENDS Integers, Sequences

CONSTANTS
    Loggers,     \* the tasks that log
    MaxLines,    \* bound: lines of one task
    Slots        \* size of the ring: it holds Slots - 1 lines

ASSUME SlotsAssumption    == Slots \in Nat /\ Slots > 1
ASSUME MaxLinesAssumption == MaxLines \in Nat

Kinds == {"udp", "tcp", "mqtt", "http"}

VARIABLES
    kind,        \* which ..._logging_init is called
    task,        \* how far the caller is in it
    hook,        \* has logging_vprintf replaced vprintf?
    client,      \* how far the client task is
    notified,    \* the notification the caller waits for
    ring, head, tail,
    count,       \* lines logged so far, by task
    writer,      \* the slot a task is writing, or Nowhere
    holding,     \* the line the client has received, or NoLine
    broker,      \* MQTT: is the client connected?
    bit,         \* MQTT_CONNECTED_BIT
    sent,        \* observer: the lines given to the network
    spoilt       \* observer: have two tasks been writing at once, or has a
                 \* line overrun its array?

start  == <<task, hook, notified>>
buffer == <<ring, head, tail, count, writer, spoilt>>
mqtt   == <<broker, bit>>
vars   == <<kind, start, client, buffer, holding, mqtt, sent>>

Nowhere == -1
NoLine  == <<"none", 0>>
Garbled == <<"garbled", 0>>
Line    == (Loggers \X (1 .. MaxLines)) \cup {NoLine, Garbled}
Index   == 0 .. Slots - 1

\* Faulty variant: the index runs off the end of the ring.
SuccUnwrapped(i) == i + 1

Succ(i) == (i + 1) % Slots

Init ==
    /\ kind \in Kinds
    /\ task = "calling" /\ hook = FALSE /\ notified = FALSE
    /\ client = "none"
    /\ ring = [i \in Index |-> NoLine] /\ head = 0 /\ tail = 0
    /\ count = [l \in Loggers |-> 0] /\ writer = [l \in Loggers |-> Nowhere]
    /\ holding = NoLine
    /\ broker = "off" /\ bit = FALSE
    /\ sent = << >> /\ spoilt = FALSE

\* A failed assertion restarts the system.
Running == client # "aborted"
-----------------------------------------------------------------------------
(***************************************************************************)
(* ..._logging_init                                                        *)
(***************************************************************************)

\* The buffer, the parameters on the caller's stack, and the client's task.
\* Whether the task could be created is not looked at.
CreateClient ==
    /\ task = "calling" /\ task' = "waiting" /\ Running
    /\ client' \in {"starting", "none"}
    /\ UNCHANGED <<kind, hook, notified, buffer, holding, mqtt, sent>>

\* configASSERT( xMessageBufferTrans ).
BufferFails ==
    /\ task = "calling" /\ client' = "aborted"
    /\ UNCHANGED <<kind, start, buffer, holding, mqtt, sent>>

\* Faulty variant: does not wait for the client.
HookAtOnce ==
    /\ task = "waiting" /\ Running
    /\ task' = "ready" /\ hook' = TRUE /\ notified' = FALSE
    /\ UNCHANGED <<kind, client, buffer, holding, mqtt, sent>>

\* ulTaskNotifyTake, then esp_log_set_vprintf.
Hook ==
    /\ task = "waiting" /\ notified /\ Running
    /\ task' = "ready" /\ hook' = TRUE /\ notified' = FALSE
    /\ UNCHANGED <<kind, client, buffer, holding, mqtt, sent>>

(***************************************************************************)
(* logging_vprintf                                                         *)
(***************************************************************************)
Full == Succ(head) = tail

\* A line for which there is no room is dropped: nobody looks at sended.
BeginLine(l) ==
    /\ hook /\ Running /\ writer[l] = Nowhere /\ count[l] < MaxLines
    /\ count' = [count EXCEPT ![l] = @ + 1]
    /\ writer' = IF Full THEN writer ELSE [writer EXCEPT ![l] = head]
    /\ \E overruns \in BOOLEAN :
           spoilt' = \/ spoilt \/ overruns
                     \/ ~Full /\ \E k \in Loggers \ {l} : writer[k] # Nowhere
    /\ UNCHANGED <<kind, start, client, ring, head, tail, holding, mqtt, sent>>

\* Another line may have been copied to the same slot in the meantime.
EndLine(l) ==
    /\ Running /\ writer[l] # Nowhere
    /\ \E x \in {<<l, count[l]>>} \cup (IF spoilt THEN {Garbled} ELSE {}) :
           ring' = [ring EXCEPT ![writer[l]] = x]
    /\ head' = Succ(writer[l])
    /\ writer' = [writer EXCEPT ![l] = Nowhere]
    /\ UNCHANGED <<kind, start, client, tail, count, spoilt, holding, mqtt, sent>>

\* What a line that overruns its array destroys may also stop the system.
Overruns(l) ==
    /\ hook /\ Running /\ writer[l] = Nowhere /\ count[l] < MaxLines
    /\ client' = "aborted"
    /\ UNCHANGED <<kind, start, buffer, holding, mqtt, sent>>
-----------------------------------------------------------------------------
(***************************************************************************)
(* The client tasks, until they are ready                                  *)
(***************************************************************************)
Client(from, to) ==
    /\ client = from /\ client' = to
    /\ UNCHANGED <<kind, task, hook, buffer, holding, sent>>

NotifyGive == notified' = TRUE

\* Faulty variant: the caller is told before the client is ready.
CopyParametersNotifies ==
    /\ Client("starting", "opening") /\ NotifyGive
    /\ UNCHANGED mqtt

\* The parameters are copied from the caller's stack.
CopyParameters ==
    /\ Client("starting", "opening")
    /\ UNCHANGED <<notified, mqtt>>

\* Faulty variant: the caller is not told.
OpensSilently ==
    /\ kind \in {"udp", "http"}
    /\ Client("opening", "receiving")
    /\ UNCHANGED <<notified, mqtt>>

\* udp_client's socket; http_client opens nothing before its first line.
Opens ==
    /\ kind \in {"udp", "http"}
    /\ Client("opening", "receiving") /\ NotifyGive
    /\ UNCHANGED mqtt

\* LWIP_ASSERT("fd >= 0").
SocketFails ==
    /\ kind = "udp"
    /\ Client("opening", "aborted")
    /\ UNCHANGED <<notified, mqtt>>

TcpConnects ==
    /\ kind = "tcp"
    /\ Client("opening", "receiving") /\ NotifyGive
    /\ UNCHANGED mqtt

\* No such host, no socket or no connection: the task deletes itself.
TcpGivesUp ==
    /\ kind = "tcp"
    /\ Client("opening", "deleted")
    /\ UNCHANGED <<notified, mqtt>>

MqttStart ==
    /\ kind = "mqtt"
    /\ Client("opening", "started")
    /\ broker' = "connecting" /\ UNCHANGED <<notified, bit>>

MqttClearBit ==
    /\ Client("started", "awaiting")
    /\ bit' = FALSE /\ UNCHANGED <<notified, broker>>

MqttReady ==
    /\ bit
    /\ Client("awaiting", "receiving") /\ NotifyGive
    /\ UNCHANGED mqtt

\* mqtt_event_handler, in the task of the MQTT library.
MqttEvent ==
    /\ Running
    /\ \/ broker = "connecting" /\ broker' = "connected" /\ bit' = TRUE
       \/ broker = "connected" /\ broker' = "connecting" /\ bit' = FALSE
    /\ UNCHANGED <<kind, start, client, buffer, holding, sent>>

(***************************************************************************)
(* The client tasks' loops                                                 *)
(***************************************************************************)
Receive ==
    /\ client = "receiving" /\ holding = NoLine /\ head # tail
    /\ holding' = ring[tail] /\ tail' = Succ(tail)
    /\ UNCHANGED <<kind, start, client, ring, head, count, writer, spoilt, mqtt, sent>>

\* What is at the tail is no message, or too long for the client's array: 0 is
\* returned, the message stays, and the task deletes itself.
ReceiveFails ==
    /\ client = "receiving" /\ holding = NoLine /\ head # tail /\ spoilt
    /\ client' = "deleted"
    /\ UNCHANGED <<kind, start, buffer, holding, mqtt, sent>>

\* Faulty variant: MQTT keeps the line until there is a connection.
SendsLater ==
    /\ client = "receiving" /\ holding # NoLine
    /\ kind = "mqtt" => bit
    /\ holding' = NoLine
    /\ sent' = Append(sent, holding)
    /\ UNCHANGED <<kind, start, client, buffer, mqtt>>

\* Faulty variant: a line whose sending was not confirmed is sent again.
SendsAgain ==
    /\ client = "receiving" /\ holding # NoLine /\ Len(sent) < MaxLines * 4
    /\ holding' \in {NoLine, holding}
    /\ sent' = IF kind = "mqtt" /\ ~bit THEN sent ELSE Append(sent, holding)
    /\ UNCHANGED <<kind, start, client, buffer, mqtt>>

\* Faulty variant: the client skips lines as it likes.
SendsSome ==
    /\ client = "receiving" /\ holding # NoLine
    /\ holding' = NoLine
    /\ sent' \in {sent, Append(sent, holding)}
    /\ UNCHANGED <<kind, start, client, buffer, mqtt>>

\* Out on the network, or lost there; MQTT skips a line without a connection.
Sends ==
    /\ client = "receiving" /\ holding # NoLine
    /\ holding' = NoLine
    /\ sent' = IF kind = "mqtt" /\ ~bit THEN sent ELSE Append(sent, holding)
    /\ UNCHANGED <<kind, start, client, buffer, mqtt>>

\* tcp_client's LWIP_ASSERT("ret == received").
TcpSendFails ==
    /\ kind = "tcp" /\ client = "receiving" /\ holding # NoLine
    /\ client' = "aborted"
    /\ UNCHANGED <<kind, start, buffer, holding, mqtt, sent>>

ClientStep ==
    \/ CopyParameters \/ Opens \/ SocketFails \/ TcpConnects \/ TcpGivesUp
    \/ MqttStart \/ MqttClearBit \/ MqttReady
    \/ Receive \/ ReceiveFails \/ Sends \/ TcpSendFails

Logger(l) == BeginLine(l) \/ EndLine(l) \/ Overruns(l)

Next == CreateClient \/ BufferFails \/ Hook \/ ClientStep \/ MqttEvent \/ \E l \in Loggers : Logger(l)

Spec == Init /\ [][Next]_vars

\* TCP's send() waits for its peer; every other call of a client returns.
MayBlock == kind = "tcp" /\ holding # NoLine

\* Every task gets to run; nothing is assumed of the network, of the broker or
\* of the loggers.
FairSpec ==
    /\ Spec
    /\ WF_vars(CreateClient) /\ WF_vars(Hook)
    /\ WF_vars(ClientStep /\ ~MayBlock)
-----------------------------------------------------------------------------
Clients == {"none", "starting", "opening", "started", "awaiting", "receiving",
            "deleted", "aborted"}

TypeOK ==
    /\ kind \in Kinds
    /\ task \in {"calling", "waiting", "ready"}
    /\ hook \in BOOLEAN /\ client \in Clients /\ notified \in BOOLEAN
    /\ ring \in [Index -> Line] /\ head \in Index /\ tail \in Index
    /\ count \in [Loggers -> 0 .. MaxLines]
    /\ writer \in [Loggers -> Index \cup {Nowhere}]
    /\ holding \in Line
    /\ broker \in {"off", "connecting", "connected"} /\ bit \in BOOLEAN
    /\ sent \in Seq(Line) /\ spoilt \in BOOLEAN

\* The parameters are on the caller's stack: the client copies them while the
\* caller is still in ..._logging_init.
ParametersAlive == client = "starting" => task = "waiting"

\* Log lines go to the buffer only when a client is there to take them.  One
\* thing makes it leave the buffer behind: a message it cannot take, after two
\* lines written at once or one too long.
HookedToClient ==
    hook => \/ client \in {"receiving", "aborted"}
            \/ client = "deleted" /\ spoilt

\* As long as no two tasks have been writing at once and no line was too long,
\* the network gets each task's lines whole, in order and at most once; lines may
\* be missing.
InOrder ==
    ~spoilt =>
        /\ \A i \in DOMAIN sent : sent[i] \in Loggers \X (1 .. MaxLines)
        /\ \A i, j \in DOMAIN sent :
               i < j /\ sent[i][1] = sent[j][1] => sent[i][2] < sent[j][2]

\* The lines in the ring from tail up to head, as a sequence.
Waiting == [i \in 1 .. (head - tail) % Slots |-> ring[(tail + i - 1) % Slots]]

Channel == INSTANCE LogChannel WITH
               Tasks <- Loggers, Capacity <- Slots - 1,
               logged <- count,
               writing <- {<<l, count[l]>> : l \in {k \in Loggers : writer[k] # Nowhere}},
               queue <- Waiting,
               taken <- {holding} \ {NoLine},
               connected <- (kind = "mqtt" => bit)

\* The logging does what LogChannel says: a line gets lost at a full buffer or
\* without an MQTT connection, and nowhere else between the task that logs it
\* and the network, as long as no two tasks have been writing at once and no
\* line was too long.
KeepsChannel == Channel!Spec

\* The caller gets on unless an assertion has failed, its client was never
\* created, the TCP client has given up, which nobody tells the caller, or the
\* MQTT client finds its bit clear again and again.
InitReturns ==
    \/ <>(task = "ready" \/ client = "aborted")
    \/ <>[](task = "waiting" /\ client = "none")
    \/ <>[](kind = "tcp" /\ client = "deleted")
    \/ []<>(client = "awaiting" /\ ~bit)

\* The client empties the buffer, whatever the network is like, unless it comes
\* to a message it cannot take; a TCP client may wait for its peer for ever.
Drains ==
    kind # "tcp" /\ head # tail ~>
    head = tail \/ client = "aborted" \/ (client = "deleted" /\ spoilt)

=============================================================================
