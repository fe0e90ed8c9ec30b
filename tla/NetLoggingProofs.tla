-------------------------- MODULE NetLoggingProofs --------------------------
(***************************************************************************)
(* Proofs about NetLogging for every set of loggers, every number of lines *)
(* and every size of the buffer: the types, the handshake between          *)
(* ..._logging_init and its client, the order of the lines, and the        *)
(* promise of LogChannel.                                                  *)
(***************************************************************************)
EXTENDS NetLogging, TLAPS

\* The caller is told when the client receives, and not before; until then it
\* waits.  The client ends when the buffer is spoilt.
Handshake ==
    /\ task = "calling" => client \in {"none", "aborted"}
    /\ notified \/ task = "ready" => \/ client \in {"receiving", "aborted"}
                                     \/ client = "deleted" /\ spoilt
    /\ hook => task = "ready"

\* A task that writes has counted its line.
Counted == \A l \in Loggers : writer[l] # Nowhere => count[l] > 0

IInv == TypeOK /\ Handshake /\ Counted

\* The order of the lines.  Those of the buffer are in the slots from tail up
\* to head; so many of them come before the one in slot i.
Ahead(i) == IF i < tail THEN i - tail + Slots ELSE i - tail
Queued   == {i \in Index : Ahead(i) < Ahead(head)}

Before(x, y) == x[1] = y[1] => x[2] < y[2]

\* The least number that no line of l has had yet.
Fresh(l)  == IF writer[l] = Nowhere THEN count[l] + 1 ELSE count[l]
Whole     == Loggers \X (1 .. MaxLines)
Logged(x) == x \in Whole /\ x[2] < Fresh(x[1])

\* One task at a time writes, and there is room for its line.
OneWriter ==
    /\ \A k, l \in Loggers : writer[k] # Nowhere /\ writer[l] # Nowhere => k = l
    /\ \A l \in Loggers : writer[l] # Nowhere => writer[l] = head /\ ~Full

Lines ==
    /\ \A i \in Queued : Logged(ring[i])
    /\ holding = NoLine \/ Logged(holding)
    /\ \A i \in DOMAIN sent : Logged(sent[i])

\* Lines on the network, then the one in the client's hands, then the buffer.
Ordered ==
    /\ \A i, j \in Queued : Ahead(i) < Ahead(j) => Before(ring[i], ring[j])
    /\ holding # NoLine => \A i \in Queued : Before(holding, ring[i])
    /\ \A i, j \in DOMAIN sent : i < j => Before(sent[i], sent[j])
    /\ holding # NoLine => \A i \in DOMAIN sent : Before(sent[i], holding)
    /\ \A i \in DOMAIN sent, j \in Queued : Before(sent[i], ring[j])

OrderInv == ~spoilt => OneWriter /\ Lines /\ Ordered
-----------------------------------------------------------------------------
LEMMA SuccInIndex == \A i \in Index : Succ(i) \in Index
  BY SlotsAssumption DEF Succ, Index

LEMMA IndexHasZero == 0 \in Index /\ Nowhere \notin Index
  BY SlotsAssumption DEF Index, Nowhere

LEMMA IInvInit == Init => IInv
  <1> SUFFICES ASSUME Init PROVE IInv
    OBVIOUS
  <1>1. ring \in [Index -> Line] /\ holding \in Line
    BY DEF Init, Line
  <1>2. head \in Index /\ tail \in Index
    BY IndexHasZero DEF Init
  <1>3. count \in [Loggers -> 0 .. MaxLines]
    BY MaxLinesAssumption DEF Init
  <1>4. writer \in [Loggers -> Index \cup {Nowhere}] /\ Counted
    BY DEF Init, Counted
  <1>5. sent \in Seq(Line)
    BY DEF Init
  <1>6. TypeOK
    BY <1>1, <1>2, <1>3, <1>4, <1>5 DEF Init, TypeOK, Clients
  <1> QED  BY <1>4, <1>6 DEF Init, IInv, Handshake

\* The steps of ..._logging_init and of the client until it receives, and its
\* end: they do not touch the buffer.
LEMMA IInvHandshake ==
    ASSUME IInv,
           \/ CreateClient \/ BufferFails \/ Hook
           \/ CopyParameters \/ Opens \/ SocketFails
           \/ TcpConnects \/ TcpGivesUp
           \/ MqttStart \/ MqttClearBit \/ MqttReady
           \/ TcpSendFails \/ ReceiveFails \/ MqttEvent
           \/ \E l \in Loggers : Overruns(l)
    PROVE  IInv'
  <1>1. UNCHANGED <<kind, buffer, holding, sent>>
    BY DEF CreateClient, BufferFails, ReceiveFails, Overruns, Hook,
           CopyParameters, Opens, SocketFails, TcpConnects, TcpGivesUp,
           MqttStart, MqttClearBit, MqttReady, TcpSendFails, MqttEvent, Client
  <1>2. /\ task' \in {"calling", "waiting", "ready"} /\ hook' \in BOOLEAN
        /\ client' \in Clients /\ notified' \in BOOLEAN
        /\ broker' \in {"off", "connecting", "connected"} /\ bit' \in BOOLEAN
    BY DEF IInv, TypeOK, CreateClient, BufferFails, ReceiveFails, Overruns,
           Hook, CopyParameters, Opens, SocketFails, TcpConnects, TcpGivesUp,
           MqttStart, MqttClearBit, MqttReady, TcpSendFails, MqttEvent,
           Client, Clients, NotifyGive, start, mqtt
  <1>3. TypeOK'
    BY <1>1, <1>2 DEF IInv, TypeOK, buffer
  <1>4. Counted'
    BY <1>1 DEF IInv, Counted, buffer
  <1>5. Handshake'
    <2>1. spoilt' = spoilt /\ Handshake
      BY <1>1 DEF IInv, buffer
    <2>2. CASE CreateClient
      <3>1. ~notified /\ hook' = FALSE
        BY <2>1, <2>2 DEF IInv, TypeOK, Handshake, CreateClient, Running
      <3> QED  BY <2>1, <2>2, <3>1 DEF Handshake, CreateClient
    <2>3. CASE BufferFails
      BY <2>1, <2>3 DEF Handshake, BufferFails, start
    <2>4. CASE Hook
      BY <2>1, <2>4 DEF Handshake, Hook
    <2>5. CASE CopyParameters \/ Opens \/ SocketFails \/ TcpConnects \/ TcpGivesUp
      <3>1. client \in {"starting", "opening"} /\ task' = task /\ hook' = hook
        BY <2>5
        DEF CopyParameters, Opens, SocketFails, TcpConnects, TcpGivesUp, Client
      <3>2. ~notified /\ task' # "ready" /\ task' # "calling" /\ ~hook'
        BY <2>1, <3>1 DEF Handshake
      <3>3. notified' => client' = "receiving"
        BY <2>5, <3>2
        DEF CopyParameters, Opens, SocketFails, TcpConnects, TcpGivesUp,
            Client, NotifyGive
      <3> QED  BY <3>1, <3>2, <3>3 DEF Handshake
    <2>6. CASE MqttStart \/ MqttClearBit \/ MqttReady
      <3>1. /\ client \in {"opening", "started", "awaiting"}
            /\ task' = task /\ hook' = hook
        BY <2>6 DEF MqttStart, MqttClearBit, MqttReady, Client
      <3>2. ~notified /\ task' # "ready" /\ task' # "calling" /\ ~hook'
        BY <2>1, <3>1 DEF Handshake
      <3>3. notified' => client' = "receiving"
        BY <2>6, <3>2 DEF MqttStart, MqttClearBit, MqttReady, Client, NotifyGive
      <3> QED  BY <3>1, <3>2, <3>3 DEF Handshake
    <2>7. CASE MqttEvent
      BY <2>1, <2>7 DEF Handshake, MqttEvent, start
    <2>8. CASE ReceiveFails
      <3>1. spoilt = TRUE
        BY <2>8 DEF IInv, TypeOK, ReceiveFails
      <3> QED  BY <2>1, <2>8, <3>1 DEF Handshake, ReceiveFails, start
    <2>9. CASE TcpSendFails
      BY <2>1, <2>9 DEF Handshake, TcpSendFails, start
    <2>10. CASE \E l \in Loggers : Overruns(l)
      BY <2>1, <2>10 DEF Handshake, Overruns, start
    <2> QED  BY <2>2, <2>3, <2>4, <2>5, <2>6, <2>7, <2>8, <2>9, <2>10
  <1> QED  BY <1>3, <1>4, <1>5 DEF IInv

LEMMA IInvBeginLine ==
    ASSUME IInv, NEW l \in Loggers, BeginLine(l)
    PROVE  IInv'
  <1>1. UNCHANGED <<kind, start, client, ring, head, tail, holding, mqtt, sent>>
    BY DEF BeginLine
  <1>2. count' \in [Loggers -> 0 .. MaxLines] /\ count'[l] > 0
        /\ \A k \in Loggers \ {l} : count'[k] = count[k]
    <2>1. count \in [Loggers -> 0 .. MaxLines] /\ count[l] < MaxLines
          /\ count' = [count EXCEPT ![l] = @ + 1]
      BY DEF IInv, TypeOK, BeginLine
    <2> QED  BY <2>1, MaxLinesAssumption
  <1>3. writer' \in [Loggers -> Index \cup {Nowhere}]
        /\ \A k \in Loggers \ {l} : writer'[k] = writer[k]
    BY DEF IInv, TypeOK, BeginLine
  <1>4. spoilt' \in BOOLEAN
    BY DEF IInv, TypeOK, BeginLine
  <1>5. TypeOK'
    BY <1>1, <1>2, <1>3, <1>4 DEF IInv, TypeOK, start, mqtt
  <1>6. Counted'
    BY <1>2, <1>3 DEF IInv, Counted
  <1>7. Handshake'
    <2>1. spoilt => spoilt'
      BY DEF BeginLine
    <2> QED  BY <1>1, <2>1 DEF IInv, Handshake, start
  <1> QED  BY <1>5, <1>6, <1>7 DEF IInv

LEMMA IInvEndLine ==
    ASSUME IInv, NEW l \in Loggers, EndLine(l)
    PROVE  IInv'
  <1>1. UNCHANGED <<kind, start, client, tail, count, spoilt, holding, mqtt, sent>>
    BY DEF EndLine
  <1>2. PICK x \in {<<l, count[l]>>} \cup (IF spoilt THEN {Garbled} ELSE {}) :
            ring' = [ring EXCEPT ![writer[l]] = x]
    BY DEF EndLine
  <1>3. x \in Line
    <2>1. count[l] \in 1 .. MaxLines
      BY MaxLinesAssumption DEF IInv, TypeOK, Counted, EndLine
    <2> QED  BY <1>2, <2>1 DEF Line
  <1>4. ring' \in [Index -> Line]
    BY <1>2, <1>3 DEF IInv, TypeOK
  <1>5. head' \in Index
    BY SuccInIndex DEF IInv, TypeOK, EndLine
  <1>6. writer' \in [Loggers -> Index \cup {Nowhere}] /\ writer'[l] = Nowhere
        /\ \A k \in Loggers \ {l} : writer'[k] = writer[k]
    BY DEF IInv, TypeOK, EndLine
  <1>7. TypeOK'
    BY <1>1, <1>4, <1>5, <1>6 DEF IInv, TypeOK, start, mqtt
  <1>8. Counted'
    BY <1>1, <1>6 DEF IInv, Counted
  <1>9. Handshake'
    BY <1>1 DEF IInv, Handshake, start
  <1> QED  BY <1>7, <1>8, <1>9 DEF IInv

LEMMA IInvReceive == ASSUME IInv, Receive PROVE IInv'
  <1>1. UNCHANGED <<kind, start, client, ring, head, count, writer, spoilt, mqtt,
                    sent>>
    BY DEF Receive
  <1>2. holding' \in Line /\ tail' \in Index
    BY SuccInIndex DEF IInv, TypeOK, Receive
  <1>3. TypeOK'
    BY <1>1, <1>2 DEF IInv, TypeOK, start, mqtt
  <1> QED  BY <1>1, <1>3 DEF IInv, Handshake, Counted, start

LEMMA IInvSends == ASSUME IInv, Sends PROVE IInv'
  <1>1. UNCHANGED <<kind, start, client, buffer, mqtt>>
    BY DEF Sends
  <1>2. holding' \in Line /\ sent' \in Seq(Line)
    BY DEF IInv, TypeOK, Sends, Line
  <1>3. TypeOK'
    BY <1>1, <1>2 DEF IInv, TypeOK, start, buffer, mqtt
  <1> QED  BY <1>1, <1>3 DEF IInv, Handshake, Counted, start, buffer

LEMMA IInvNext == IInv /\ [Next]_vars => IInv'
  <1> SUFFICES ASSUME IInv, [Next]_vars PROVE IInv'
    OBVIOUS
  <1>1. CASE UNCHANGED vars
    BY <1>1
    DEF IInv, TypeOK, Handshake, Counted, vars, start, buffer, mqtt
  <1>2. ASSUME NEW l \in Loggers, Logger(l) PROVE IInv'
    <2>1. CASE Overruns(l)
      BY <2>1, IInvHandshake
    <2> QED  BY <1>2, <2>1, IInvBeginLine, IInvEndLine DEF Logger
  <1> QED
    BY <1>1, <1>2, IInvHandshake, IInvReceive, IInvSends DEF Next, ClientStep

LEMMA IInvAlways == Spec => []IInv
  BY IInvInit, IInvNext, PTL DEF Spec

\* The types hold in every reachable state: no index leaves the ring.
THEOREM TypeCorrect == Spec => []TypeOK
  <1>1. IInv => TypeOK
    BY DEF IInv
  <1> QED  BY <1>1, IInvAlways, PTL

\* The caller of ..._logging_init is still in it when its client copies the
\* parameters from its stack, whichever of the four clients it is.
THEOREM ParametersOutliveCopy == Spec => []ParametersAlive
  <1>1. IInv => ParametersAlive
    BY DEF IInv, TypeOK, Handshake, ParametersAlive
  <1> QED  BY <1>1, IInvAlways, PTL

\* No log line goes to the buffer before a client is there to take it, nor after
\* that client has ended, unless the buffer has been spoilt.
THEOREM HookedWhenReceiving == Spec => []HookedToClient
  <1>1. IInv => HookedToClient
    BY DEF IInv, Handshake, HookedToClient
  <1> QED  BY <1>1, IInvAlways, PTL

-----------------------------------------------------------------------------
(***************************************************************************)
(* The order of the lines                                                  *)
(***************************************************************************)
LEMMA SuccIs == \A i \in Index : Succ(i) = IF i = Slots - 1 THEN 0 ELSE i + 1
  <1> SUFFICES ASSUME NEW i \in Index
               PROVE  Succ(i) = IF i = Slots - 1 THEN 0 ELSE i + 1
    OBVIOUS
  <1>1. i \in Int /\ 0 <= i /\ i < Slots /\ Slots \in Int /\ Slots > 1
    BY SlotsAssumption DEF Index
  <1>2. CASE i = Slots - 1
    BY <1>1, <1>2 DEF Succ
  <1>3. CASE i # Slots - 1
    <2>1. 0 <= i + 1 /\ i + 1 < Slots
      BY <1>1, <1>3
    <2> QED  BY <1>1, <1>3, <2>1 DEF Succ
  <1> QED  BY <1>2, <1>3

\* A line that is written joins the others behind the last of them.
LEMMA QueueGrows ==
    ASSUME TypeOK, ~Full, head' = Succ(head), tail' = tail
    PROVE  /\ Queued' = Queued \cup {head} /\ head \in Index /\ head \notin Queued
           /\ \A i \in Index : Ahead(i)' = Ahead(i)
           /\ \A i \in Queued : Ahead(i) < Ahead(head)
  <1>1. head \in Index /\ tail \in Index /\ Slots \in Nat /\ Slots > 1
    BY SlotsAssumption DEF TypeOK
  <1>2. \A i \in Index : Ahead(i)' = Ahead(i)
    BY DEF Ahead
  <1>3. head' = IF head = Slots - 1 THEN 0 ELSE head + 1
    BY <1>1, SuccIs
  <1>4. head' \in Index /\ head' # tail
    BY <1>1, SuccInIndex DEF Full
  <1>5. Ahead(head)' = Ahead(head) + 1
    BY <1>1, <1>3, <1>4 DEF Ahead, Index
  <1>6. \A i \in Index : Ahead(i) < Ahead(head) + 1 <=> Ahead(i) < Ahead(head) \/ i = head
    BY <1>1 DEF Ahead, Index
  <1>7. Queued' = {i \in Index : Ahead(i)' < Ahead(head)'}
    BY DEF Queued
  <1>8. \A i : i \in Queued' <=> i \in Index /\ (Ahead(i) < Ahead(head) \/ i = head)
    BY <1>2, <1>5, <1>6, <1>7
  <1>9. ~(Ahead(head) < Ahead(head))
    BY <1>1 DEF Ahead, Index
  <1> QED  BY <1>1, <1>2, <1>8, <1>9 DEF Queued

\* A line that is received is the first of them.
LEMMA QueueShrinks ==
    ASSUME TypeOK, head # tail, tail' = Succ(tail), head' = head
    PROVE  /\ Queued' = Queued \ {tail} /\ tail \in Queued
           /\ \A i \in Queued \ {tail} : Ahead(tail) < Ahead(i)
           /\ \A i, j \in Queued \ {tail} : Ahead(i)' < Ahead(j)' => Ahead(i) < Ahead(j)
           /\ head \in Index /\ head \notin Queued
  <1>1. head \in Index /\ tail \in Index /\ Slots \in Nat /\ Slots > 1
    BY SlotsAssumption DEF TypeOK
  <1>2. tail' = IF tail = Slots - 1 THEN 0 ELSE tail + 1
    BY <1>1, SuccIs
  <1>3. tail' \in Index
    BY <1>1, SuccInIndex
  <1>4. \A i \in Index \ {tail} : Ahead(i)' = Ahead(i) - 1 /\ Ahead(i) > 0
    BY <1>1, <1>2, <1>3 DEF Ahead, Index
  <1>5. Ahead(tail) = 0 /\ \A i \in Index : i = tail => Ahead(i)' = Slots - 1
    BY <1>1, <1>2, <1>3 DEF Ahead, Index
  <1>6. \A i \in Index : Ahead(i) \in Nat /\ Ahead(i) < Slots
    BY <1>1 DEF Ahead, Index
  <1>7. Queued' = {i \in Index : Ahead(i)' < Ahead(head)'}
    BY DEF Queued
  <1>8. Ahead(head)' = Ahead(head) - 1 /\ Ahead(head) > 0 /\ Ahead(head) < Slots
    BY <1>1, <1>4, <1>6
  <1>9. ASSUME NEW i \in Index
        PROVE  Ahead(i)' < Ahead(head)' <=> i # tail /\ Ahead(i) < Ahead(head)
    <2>1. CASE i = tail
      BY <1>1, <1>5, <1>6, <1>8, <2>1
    <2>2. CASE i # tail
      BY <1>1, <1>4, <1>6, <1>8, <2>2
    <2> QED  BY <2>1, <2>2
  <1>10. Queued' = Queued \ {tail} /\ tail \in Queued
    BY <1>1, <1>5, <1>7, <1>8, <1>9 DEF Queued
  <1>11. \A i \in Queued \ {tail} : Ahead(tail) < Ahead(i)
    BY <1>4, <1>5 DEF Queued
  <1>12. \A i, j \in Queued \ {tail} : Ahead(i)' < Ahead(j)' => Ahead(i) < Ahead(j)
    BY <1>4, <1>6 DEF Queued
  <1>13. head \notin Queued
    BY <1>1, <1>6 DEF Queued
  <1> QED  BY <1>1, <1>10, <1>11, <1>12, <1>13

LEMMA OrderInit == Init => OrderInv
  <1> SUFFICES ASSUME Init PROVE OrderInv
    OBVIOUS
  <1>1. Queued = {}
    BY IndexHasZero, SlotsAssumption DEF Init, Queued, Ahead, Index
  <1>2. DOMAIN sent = {}
    BY DEF Init
  <1>3. OneWriter
    BY DEF Init, OneWriter
  <1> QED  BY <1>1, <1>2, <1>3 DEF Init, OrderInv, Lines, Ordered

\* A step that leaves the buffer and the lines alone.
LEMMA OrderKept ==
    ASSUME OrderInv, UNCHANGED <<buffer, holding, sent>>
    PROVE  OrderInv'
  <1>1. Queued' = Queued /\ \A i : Ahead(i)' = Ahead(i)
    BY DEF buffer, Queued, Ahead
  <1>2. \A x : Logged(x)' = Logged(x)
    BY DEF buffer, Logged, Fresh
  <1>3. spoilt' = spoilt /\ OneWriter' = OneWriter
    BY DEF buffer, OneWriter, Full
  <1>4. Lines' = Lines
    BY <1>1, <1>2 DEF Lines, buffer
  <1>5. Ordered' = Ordered
    BY <1>1 DEF Ordered, buffer
  <1> QED  BY <1>3, <1>4, <1>5 DEF OrderInv

LEMMA OrderBeginLine ==
    ASSUME IInv, OrderInv, NEW l \in Loggers, BeginLine(l)
    PROVE  OrderInv'
  <1> SUFFICES ASSUME ~spoilt' PROVE OneWriter' /\ Lines' /\ Ordered'
    BY DEF OrderInv
  <1>1. ~spoilt /\ (Full \/ \A k \in Loggers \ {l} : writer[k] = Nowhere)
    BY DEF BeginLine
  <1>2. OneWriter /\ Lines /\ Ordered
    BY <1>1 DEF OrderInv
  <1>3. UNCHANGED <<ring, head, tail, holding, sent>>
    BY DEF BeginLine
  <1>4. /\ Queued' = Queued /\ Full' = Full
        /\ \A i : Ahead(i)' = Ahead(i)
    BY <1>3 DEF Queued, Ahead, Full
  <1>5. /\ writer[l] = Nowhere
        /\ writer' = IF Full THEN writer ELSE [writer EXCEPT ![l] = head]
        /\ writer \in [Loggers -> Index \cup {Nowhere}]
        /\ count \in [Loggers -> 0 .. MaxLines]
        /\ count' = [count EXCEPT ![l] = @ + 1]
    BY DEF BeginLine, IInv, TypeOK
  <1>6. OneWriter'
    BY <1>1, <1>2, <1>3, <1>4, <1>5 DEF OneWriter
  <1>7. \A k \in Loggers : Fresh(k) \in Int /\ Fresh(k)' \in Int /\ Fresh(k) <= Fresh(k)'
    <2> SUFFICES ASSUME NEW k \in Loggers
                 PROVE  Fresh(k) \in Int /\ Fresh(k)' \in Int /\ Fresh(k) <= Fresh(k)'
      OBVIOUS
    <2>1. count[k] \in Int /\ count[l] \in Int
      BY <1>5
    <2>2. CASE k = l
      <3>1. count'[k] = count[k] + 1 /\ writer[k] = Nowhere
        BY <1>5, <2>2
      <3> QED  BY <2>1, <3>1 DEF Fresh
    <2>3. CASE k # l
      <3>1. count'[k] = count[k] /\ writer'[k] = writer[k]
        BY <1>5, <2>3
      <3> QED  BY <2>1, <3>1 DEF Fresh
    <2> QED  BY <2>2, <2>3
  <1>8. \A x : Logged(x) => Logged(x)'
    <2> SUFFICES ASSUME NEW x, Logged(x) PROVE Logged(x)'
      OBVIOUS
    <2>1. x \in Whole /\ x[1] \in Loggers /\ x[2] \in Int /\ x[2] < Fresh(x[1])
      BY DEF Logged, Whole
    <2> QED  BY <1>7, <2>1 DEF Logged
  <1>9. Lines'
    BY <1>2, <1>3, <1>4, <1>8 DEF Lines
  <1>10. Ordered'
    BY <1>2, <1>3, <1>4 DEF Ordered
  <1> QED  BY <1>6, <1>9, <1>10

LEMMA OrderEndLine ==
    ASSUME IInv, OrderInv, NEW l \in Loggers, EndLine(l)
    PROVE  OrderInv'
  <1> SUFFICES ASSUME ~spoilt' PROVE OneWriter' /\ Lines' /\ Ordered'
    BY DEF OrderInv
  <1>0. PICK new : new = << l, count[l] >>
    OBVIOUS
  <1>1. /\ ~spoilt /\ writer[l] # Nowhere
        /\ UNCHANGED <<tail, count, holding, sent>>
    BY DEF EndLine
  <1>2. OneWriter /\ Lines /\ Ordered
    BY <1>1 DEF OrderInv
  <1>3. writer[l] = head /\ ~Full /\ \A k \in Loggers \ {l} : writer[k] = Nowhere
    BY <1>1, <1>2 DEF OneWriter
  <1>4. ring' = [ring EXCEPT ![head] = new] /\ head' = Succ(head)
    BY <1>0, <1>1, <1>3 DEF EndLine
  <1>5. /\ Queued' = Queued \cup {head} /\ head \in Index /\ head \notin Queued
        /\ \A i \in Index : Ahead(i)' = Ahead(i)
        /\ \A i \in Queued : Ahead(i) < Ahead(head)
    BY <1>1, <1>3, <1>4, QueueGrows DEF IInv
  <1>6. ring \in [Index -> Line] /\ Queued \subseteq Index
    BY DEF IInv, TypeOK, Queued
  <1>7. ring'[head] = new /\ \A i \in Queued : ring'[i] = ring[i]
    BY <1>4, <1>5, <1>6
  <1>8. /\ writer \in [Loggers -> Index \cup {Nowhere}]
        /\ writer' = [writer EXCEPT ![l] = Nowhere]
    BY DEF EndLine, IInv, TypeOK
  <1>9. OneWriter'
    BY <1>3, <1>8 DEF OneWriter
  <1>10. count[l] \in 1 .. MaxLines /\ \A k \in Loggers : count[k] \in Int
    BY <1>1, MaxLinesAssumption DEF IInv, TypeOK, Counted
  <1>11. /\ \A k \in Loggers : Fresh(k) \in Int /\ Fresh(k)' \in Int /\ Fresh(k) <= Fresh(k)'
         /\ Fresh(l) = count[l] /\ Fresh(l)' = count[l] + 1
    <2>1. Fresh(l) = count[l] /\ Fresh(l)' = count[l] + 1
      BY <1>1, <1>8 DEF Fresh
    <2>2. \A k \in Loggers \ {l} : Fresh(k) = count[k] + 1 /\ Fresh(k)' = count[k] + 1
      BY <1>1, <1>3, <1>8 DEF Fresh
    <2>3. \A k \in Loggers \ {l} : Fresh(k) \in Int /\ Fresh(k)' \in Int /\ Fresh(k) <= Fresh(k)'
      BY <1>10, <2>2
    <2>4. Fresh(l) \in Int /\ Fresh(l)' \in Int /\ Fresh(l) <= Fresh(l)'
      BY <1>10, <2>1
    <2> QED  BY <2>1, <2>3, <2>4
  <1>12. \A x : Logged(x) => Logged(x)' /\ Before(x, new)
    <2> SUFFICES ASSUME NEW x, Logged(x) PROVE Logged(x)' /\ Before(x, new)
      OBVIOUS
    <2>1. x \in Whole /\ x[1] \in Loggers /\ x[2] \in Int /\ x[2] < Fresh(x[1])
      BY DEF Logged, Whole
    <2>2. Logged(x)'
      BY <1>11, <2>1 DEF Logged
    <2>3. Before(x, new)
      BY <1>0, <1>11, <2>1 DEF Before
    <2> QED  BY <2>2, <2>3
  <1>13. Logged(new)'
    <2>1. new \in Whole /\ new[1] = l /\ new[2] = count[l]
      BY <1>0, <1>10 DEF Whole
    <2> QED  BY <1>10, <1>11, <2>1 DEF Logged
  <1>14. Lines'
    BY <1>1, <1>2, <1>5, <1>7, <1>12, <1>13 DEF Lines
  <1>15. Ordered'
    <2>1. \A i, j \in Queued' : Ahead(i)' < Ahead(j)' => Before(ring'[i], ring'[j])
      <3> SUFFICES ASSUME NEW i \in Queued', NEW j \in Queued', Ahead(i)' < Ahead(j)'
                   PROVE  Before(ring'[i], ring'[j])
        OBVIOUS
      <3>1. i \in Index /\ j \in Index /\ Ahead(i) < Ahead(j)
        BY <1>5, <1>6
      <3>2. CASE i \in Queued /\ j \in Queued
        BY <1>2, <1>7, <3>1, <3>2 DEF Ordered
      <3>3. CASE i \in Queued /\ j = head
        BY <1>2, <1>7, <1>12, <3>3 DEF Lines
      <3>4. CASE i = head
        <4>1. j = head \/ Ahead(j) < Ahead(head)
          BY <1>5
        <4>2. Ahead(j) \in Int /\ Ahead(head) \in Int
          BY <1>5, <3>1, SlotsAssumption DEF IInv, TypeOK, Index, Ahead
        <4> QED  BY <3>1, <3>4, <4>1, <4>2
      <3> QED  BY <1>5, <3>2, <3>3, <3>4
    <2>2. holding # NoLine => \A i \in Queued' : Before(holding, ring'[i])
      BY <1>2, <1>5, <1>7, <1>12 DEF Ordered, Lines
    <2>3. \A i \in DOMAIN sent, j \in Queued' : Before(sent[i], ring'[j])
      BY <1>2, <1>5, <1>7, <1>12 DEF Ordered, Lines
    <2> QED  BY <1>1, <1>2, <2>1, <2>2, <2>3 DEF Ordered
  <1> QED  BY <1>9, <1>14, <1>15

LEMMA OrderReceive == ASSUME IInv, OrderInv, Receive PROVE OrderInv'
  <1> SUFFICES ASSUME ~spoilt' PROVE OneWriter' /\ Lines' /\ Ordered'
    BY DEF OrderInv
  <1>1. /\ ~spoilt /\ holding = NoLine /\ head # tail
        /\ holding' = ring[tail] /\ tail' = Succ(tail)
        /\ UNCHANGED <<ring, head, count, writer, sent>>
    BY DEF Receive
  <1>2. OneWriter /\ Lines /\ Ordered
    BY <1>1 DEF OrderInv
  <1>3. /\ Queued' = Queued \ {tail} /\ tail \in Queued
        /\ \A i \in Queued \ {tail} : Ahead(tail) < Ahead(i)
        /\ \A i, j \in Queued \ {tail} : Ahead(i)' < Ahead(j)' => Ahead(i) < Ahead(j)
    BY <1>1, QueueShrinks DEF IInv
  <1>4. ~Full'
    <2>1. head \in Index /\ tail \in Index
      BY DEF IInv, TypeOK
    <2>2. /\ Succ(head) = IF head = Slots - 1 THEN 0 ELSE head + 1
          /\ Succ(tail) = IF tail = Slots - 1 THEN 0 ELSE tail + 1
      BY <2>1, SuccIs
    <2>3. Succ(head) # Succ(tail)
      BY <1>1, <2>1, <2>2, SlotsAssumption DEF Index
    <2> QED  BY <1>1, <2>3 DEF Full, Succ
  <1>5. OneWriter'
    BY <1>1, <1>2, <1>4 DEF OneWriter
  <1>6. \A x : Logged(x)' = Logged(x)
    BY <1>1 DEF Logged, Fresh
  <1>7. Lines'
    BY <1>1, <1>2, <1>3, <1>6 DEF Lines
  <1>8. Ordered'
    BY <1>1, <1>2, <1>3 DEF Ordered
  <1> QED  BY <1>5, <1>7, <1>8

LEMMA OrderSends == ASSUME IInv, OrderInv, Sends PROVE OrderInv'
  <1> SUFFICES ASSUME ~spoilt' PROVE OneWriter' /\ Lines' /\ Ordered'
    BY DEF OrderInv
  <1>1. /\ ~spoilt /\ holding # NoLine /\ holding' = NoLine
        /\ sent' = sent \/ sent' = Append(sent, holding)
        /\ UNCHANGED <<ring, head, tail, count, writer>>
    BY DEF Sends, buffer
  <1>2. OneWriter /\ Lines /\ Ordered
    BY <1>1 DEF OrderInv
  <1>3. /\ Queued' = Queued /\ \A i : Ahead(i)' = Ahead(i)
        /\ \A x : Logged(x)' = Logged(x)
    BY <1>1 DEF Queued, Ahead, Logged, Fresh
  <1>4. OneWriter'
    BY <1>1, <1>2 DEF OneWriter, Full
  <1>5. CASE sent' = sent
    BY <1>1, <1>2, <1>3, <1>4, <1>5 DEF Lines, Ordered
  <1>6. CASE sent' = Append(sent, holding)
    <2>1. PICK n \in Nat : n = Len(sent) /\ DOMAIN sent = 1 .. n
      BY DEF IInv, TypeOK
    <2>2. /\ DOMAIN sent' = 1 .. n + 1
          /\ \A i \in 1 .. n : sent'[i] = sent[i]
          /\ sent'[n + 1] = holding
      BY <1>6, <2>1 DEF IInv, TypeOK
    <2>3. \A i \in 1 .. n + 1 : i \in 1 .. n \/ i = n + 1
      OBVIOUS
    <2>4. Lines'
      <3>1. \A i \in DOMAIN sent' : Logged(sent'[i])
        BY <1>1, <1>2, <2>1, <2>2, <2>3 DEF Lines
      <3> QED  BY <1>1, <1>2, <1>3, <3>1 DEF Lines
    <2>5. \A i, j \in DOMAIN sent' : i < j => Before(sent'[i], sent'[j])
      <3> SUFFICES ASSUME NEW i \in 1 .. n + 1, NEW j \in 1 .. n + 1, i < j
                   PROVE  Before(sent'[i], sent'[j])
        BY <2>2
      <3>1. i \in 1 .. n
        OBVIOUS
      <3>2. CASE j \in 1 .. n
        BY <1>2, <2>1, <2>2, <3>1, <3>2 DEF Ordered
      <3>3. CASE j = n + 1
        BY <1>1, <1>2, <2>1, <2>2, <3>1, <3>3 DEF Ordered
      <3> QED  BY <2>3, <3>2, <3>3
    <2>6. \A i \in DOMAIN sent', j \in Queued : Before(sent'[i], ring[j])
      BY <1>1, <1>2, <2>1, <2>2, <2>3 DEF Ordered
    <2> QED  BY <1>1, <1>2, <1>3, <1>4, <2>4, <2>5, <2>6 DEF Ordered
  <1> QED  BY <1>1, <1>5, <1>6

LEMMA OrderNext == IInv /\ OrderInv /\ [Next]_vars => OrderInv'
  <1> SUFFICES ASSUME IInv, OrderInv, [Next]_vars PROVE OrderInv'
    OBVIOUS
  <1>1. CASE UNCHANGED vars
    BY <1>1, OrderKept DEF vars
  <1>2. ASSUME NEW l \in Loggers, BeginLine(l) \/ EndLine(l) PROVE OrderInv'
    BY <1>2, OrderBeginLine, OrderEndLine
  <1>3. ASSUME \/ CreateClient \/ BufferFails \/ Hook
               \/ CopyParameters \/ Opens \/ SocketFails
               \/ TcpConnects \/ TcpGivesUp
               \/ MqttStart \/ MqttClearBit \/ MqttReady
               \/ TcpSendFails \/ ReceiveFails \/ MqttEvent
               \/ \E l \in Loggers : Overruns(l)
        PROVE  OrderInv'
    <2>1. UNCHANGED <<buffer, holding, sent>>
      BY <1>3
      DEF CreateClient, BufferFails, ReceiveFails, Overruns, Hook,
          CopyParameters, Opens, SocketFails, TcpConnects, TcpGivesUp,
          MqttStart, MqttClearBit, MqttReady, TcpSendFails, MqttEvent, Client
    <2> QED  BY <2>1, OrderKept
  <1> QED
    BY <1>1, <1>2, <1>3, OrderReceive, OrderSends DEF Next, ClientStep, Logger

\* As long as no two tasks have been writing to the buffer at once and no line has
\* overrun its array, the network gets each task's lines whole, in order and at
\* most once, for any number of tasks and lines, any size of the buffer and each
\* of the four clients.
THEOREM LinesInOrder == Spec => []InOrder
  <1>1. IInv /\ OrderInv => InOrder
    BY DEF OrderInv, Lines, Ordered, Logged, Whole, Before, InOrder
  <1>2. Init => OrderInv
    BY OrderInit
  <1>3. IInv /\ OrderInv /\ [Next]_vars => OrderInv'
    BY OrderNext
  <1> QED  BY <1>1, <1>2, <1>3, IInvAlways, PTL DEF Spec
-----------------------------------------------------------------------------
(***************************************************************************)
(* The promise of LogChannel                                               *)
(***************************************************************************)
\* The remainders that Waiting takes.
LEMMA DistanceIs ==
    ASSUME NEW h \in Index, NEW t \in Index
    PROVE  (h - t) % Slots = IF h < t THEN h - t + Slots ELSE h - t
  <1> DEFINE a == h - t
  <1>1. Slots \in Nat /\ Slots > 1 /\ a \in Int /\ - Slots < a /\ a < Slots
    BY SlotsAssumption DEF Index
  <1>2. a < 0 <=> h < t
    BY <1>1 DEF Index
  <1> HIDE DEF a
  <1>3. a % Slots = IF a < 0 THEN a + Slots ELSE a
    <2>1. CASE a < 0
      BY <1>1, <2>1
    <2>2. CASE ~(a < 0)
      BY <1>1, <2>2
    <2> QED  BY <2>1, <2>2
  <1> QED  BY <1>2, <1>3 DEF a

LEMMA PlaceIs ==
    ASSUME NEW t \in Index, NEW i \in 1 .. Slots
    PROVE  (t + i - 1) % Slots = IF t + i - 1 < Slots THEN t + i - 1 ELSE t + i - 1 - Slots
  <1>1. Slots \in Nat /\ Slots > 1 /\ t \in Int /\ i \in Int
    BY SlotsAssumption DEF Index
  <1>2. PICK a \in Int : a = t + i - 1
    BY <1>1
  <1>3. 0 <= a /\ a < 2 * Slots
    BY <1>1, <1>2 DEF Index
  <1>4. CASE a < Slots
    <2>1. a % Slots = a
      BY <1>1, <1>3, <1>4
    <2> QED  BY <1>1, <1>2, <1>4, <2>1
  <1>5. CASE ~(a < Slots)
    <2>1. a % Slots = a - Slots
      BY <1>1, <1>3, <1>5
    <2> QED  BY <1>1, <1>2, <1>5, <2>1
  <1> QED  BY <1>4, <1>5

\* The i-th line waiting is in this slot.
Slot(i) == (tail + i - 1) % Slots

LEMMA WaitingIs ==
    ASSUME TypeOK
    PROVE  /\ Ahead(head) \in 0 .. Slots - 1
           /\ Waiting = [i \in 1 .. Ahead(head) |-> ring[Slot(i)]]
           /\ Waiting \in Seq(Line) /\ Len(Waiting) = Ahead(head)
           /\ \A i \in 1 .. Slots : Slot(i) \in Index /\ Ahead(Slot(i)) = i - 1
           /\ Full <=> Ahead(head) = Slots - 1
  <1>1. /\ head \in Index /\ tail \in Index /\ ring \in [Index -> Line]
        /\ Slots \in Nat /\ Slots > 1
    BY SlotsAssumption DEF TypeOK
  <1>2. (head - tail) % Slots = Ahead(head)
    BY <1>1, DistanceIs DEF Ahead
  <1>3. Ahead(head) \in 0 .. Slots - 1
    BY <1>1 DEF Ahead, Index
  <1>4. Waiting = [i \in 1 .. Ahead(head) |-> ring[Slot(i)]]
    BY <1>2 DEF Waiting, Slot
  <1>5. \A i \in 1 .. Slots : Slot(i) \in Index /\ Ahead(Slot(i)) = i - 1
    <2> SUFFICES ASSUME NEW i \in 1 .. Slots
                 PROVE  Slot(i) \in Index /\ Ahead(Slot(i)) = i - 1
      OBVIOUS
    <2>1. Slot(i) = IF tail + i - 1 < Slots THEN tail + i - 1 ELSE tail + i - 1 - Slots
      BY <1>1, PlaceIs DEF Slot
    <2> QED  BY <1>1, <2>1 DEF Ahead, Index
  <1>6. Waiting \in Seq(Line) /\ Len(Waiting) = Ahead(head)
    <2>1. PICK n \in 0 .. Slots - 1 : n = Ahead(head)
      BY <1>3
    <2>2. Waiting = [i \in 1 .. n |-> ring[Slot(i)]] /\ n \in Nat
      BY <1>1, <1>4, <2>1
    <2>3. \A i \in 1 .. n : ring[Slot(i)] \in Line
      BY <1>1, <1>5, <2>1
    <2> HIDE DEF Slot, Line
    <2> QED  BY <2>1, <2>2, <2>3
  <1>7. Full <=> Ahead(head) = Slots - 1
    <2>1. Succ(head) = IF head = Slots - 1 THEN 0 ELSE head + 1
      BY <1>1, SuccIs
    <2> QED  BY <1>1, <2>1 DEF Full, Ahead, Index
  <1> QED  BY <1>3, <1>4, <1>5, <1>6, <1>7

\* Different slots, different distances from tail.
LEMMA AheadTells ==
    ASSUME TypeOK, NEW i \in Index, NEW j \in Index, Ahead(i) = Ahead(j)
    PROVE  i = j
  BY SlotsAssumption DEF TypeOK, Ahead, Index

LEMMA WaitingGrows ==
    ASSUME TypeOK, TypeOK', ~Full, NEW x \in Line,
           ring' = [ring EXCEPT ![head] = x], head' = Succ(head), tail' = tail
    PROVE  Waiting' = Append(Waiting, x)
  <1>1. PICK n \in 0 .. Slots - 1 : n = Ahead(head)
    BY WaitingIs
  <1>2. /\ Waiting = [i \in 1 .. n |-> ring[Slot(i)]]
        /\ Waiting \in Seq(Line) /\ Len(Waiting) = n
        /\ \A i \in 1 .. Slots : Slot(i) \in Index /\ Ahead(Slot(i)) = i - 1
        /\ n # Slots - 1 /\ n \in Nat /\ Slots \in Nat
    BY <1>1, WaitingIs, SlotsAssumption
  <1>3. head \in Index /\ ring \in [Index -> Line]
    BY DEF TypeOK
  <1>4. Slot(n + 1) = head
    BY <1>1, <1>2, <1>3, AheadTells
  <1>5. \A i \in 1 .. n : Slot(i) # head
    <2>1. \A i \in 1 .. n : Ahead(Slot(i)) = i - 1 /\ i - 1 # n
      BY <1>2
    <2> QED  BY <1>1, <2>1
  <1>6. \A i : Slot(i)' = Slot(i)
    BY DEF Slot
  <1>7. (head - tail)' % Slots = n + 1
    <2>1. Ahead(head)' = n + 1
      <3>1. Succ(head) = IF head = Slots - 1 THEN 0 ELSE head + 1
        BY <1>3, SuccIs
      <3>2. head' # tail /\ tail \in Index
        BY DEF Full, TypeOK
      <3> QED  BY <1>1, <1>2, <1>3, <3>1, <3>2 DEF Ahead, Index
    <2>2. head' \in Index /\ tail' \in Index
      BY DEF TypeOK
    <2>3. (head' - tail') % Slots = Ahead(head)'
      BY <2>2, DistanceIs DEF Ahead
    <2> QED  BY <2>1, <2>3
  <1>8. Waiting' = [i \in 1 .. n + 1 |-> ring'[Slot(i)]]
    BY <1>6, <1>7 DEF Waiting, Slot
  <1>9. \A i \in 1 .. n + 1 : ring'[Slot(i)] = IF i = n + 1 THEN x ELSE ring[Slot(i)]
    BY <1>2, <1>3, <1>4, <1>5
  <1>10. Append(Waiting, x) = [i \in 1 .. n + 1 |-> IF i = n + 1 THEN x ELSE ring[Slot(i)]]
    <2> HIDE DEF Slot
    <2> QED  BY <1>2
  <1> QED  BY <1>8, <1>9, <1>10

LEMMA WaitingShrinks ==
    ASSUME TypeOK, TypeOK', head # tail, tail' = Succ(tail), head' = head, ring' = ring
    PROVE  Waiting # << >> /\ Head(Waiting) = ring[tail] /\ Waiting' = Tail(Waiting)
  <1>1. PICK n \in 0 .. Slots - 1 : n = Ahead(head)
    BY WaitingIs
  <1>2. /\ Waiting = [i \in 1 .. n |-> ring[Slot(i)]]
        /\ Waiting \in Seq(Line) /\ Len(Waiting) = n
        /\ \A i \in 1 .. Slots : Slot(i) \in Index /\ Ahead(Slot(i)) = i - 1
        /\ n \in Nat /\ Slots \in Nat /\ Slots > 1
    BY <1>1, WaitingIs, SlotsAssumption
  <1>3. head \in Index /\ tail \in Index /\ head' \in Index /\ tail' \in Index
    BY DEF TypeOK
  <1>4. tail' = IF tail = Slots - 1 THEN 0 ELSE tail + 1
    BY <1>3, SuccIs
  <1>5. n > 0 /\ Ahead(head)' = n - 1
    BY <1>1, <1>2, <1>3, <1>4 DEF Ahead, Index
  <1>6. Slot(1) = tail
    <2>1. Ahead(tail) = 0
      BY <1>2, <1>3 DEF Ahead, Index
    <2> QED  BY <1>2, <1>3, <2>1, AheadTells
  <1>7. ASSUME NEW i \in 1 .. n - 1 PROVE (tail' + i - 1) % Slots = Slot(i + 1)
    <2>1. i \in 1 .. Slots /\ i + 1 \in 1 .. Slots
      BY <1>2
    <2>2. (tail' + i - 1) % Slots = IF tail' + i - 1 < Slots THEN tail' + i - 1
                                    ELSE tail' + i - 1 - Slots
      BY <1>3, <2>1, PlaceIs
    <2>3. Slot(i + 1) = IF tail + (i + 1) - 1 < Slots THEN tail + (i + 1) - 1
                        ELSE tail + (i + 1) - 1 - Slots
      BY <1>3, <2>1, PlaceIs DEF Slot
    <2>4. tail \in Int /\ 0 <= tail /\ tail < Slots /\ i \in Int /\ i < Slots
          /\ i > 0 /\ Slots \in Int
      BY <1>2, <1>3 DEF Index
    <2>5. CASE tail = Slots - 1
      <3>1. tail' + i - 1 = i - 1 /\ i - 1 < Slots
        BY <1>4, <2>4, <2>5
      <3>2. ~(tail + (i + 1) - 1 < Slots) /\ tail + (i + 1) - 1 - Slots = i - 1
        BY <2>4, <2>5
      <3>3. (tail' + i - 1) % Slots = i - 1
        BY <2>2, <3>1
      <3> QED  BY <2>3, <3>2, <3>3
    <2>6. CASE tail # Slots - 1 /\ tail + i < Slots
      <3>1. tail' + i - 1 = tail + i /\ tail' + i - 1 < Slots
        BY <1>4, <2>4, <2>6
      <3>2. tail + (i + 1) - 1 = tail + i /\ tail + (i + 1) - 1 < Slots
        BY <2>4, <2>6
      <3>3. (tail' + i - 1) % Slots = tail + i
        BY <2>2, <3>1
      <3>4. Slot(i + 1) = tail + i
        BY <2>3, <3>2
      <3> QED  BY <3>3, <3>4
    <2>7. CASE tail # Slots - 1 /\ ~(tail + i < Slots)
      <3>1. tail' + i - 1 - Slots = tail + i - Slots /\ ~(tail' + i - 1 < Slots)
        BY <1>4, <2>4, <2>7
      <3>2. tail + (i + 1) - 1 - Slots = tail + i - Slots /\ ~(tail + (i + 1) - 1 < Slots)
        BY <2>4, <2>7
      <3>3. (tail' + i - 1) % Slots = tail + i - Slots
        BY <2>2, <3>1
      <3>4. Slot(i + 1) = tail + i - Slots
        BY <2>3, <3>2
      <3> QED  BY <3>3, <3>4
    <2> QED  BY <2>5, <2>6, <2>7
  <1>8. (head' - tail') % Slots = n - 1
    <2>1. (head' - tail') % Slots = Ahead(head)'
      BY <1>3, DistanceIs DEF Ahead
    <2> QED  BY <1>5, <2>1
  <1>9. Waiting' = [i \in 1 .. n - 1 |-> ring[Slot(i + 1)]]
    BY <1>7, <1>8 DEF Waiting
  <1>10. Tail(Waiting) = [i \in 1 .. n - 1 |-> ring[Slot(i + 1)]]
    <2> HIDE DEF Slot
    <2> QED  BY <1>2, <1>5
  <1>11. Head(Waiting) = ring[tail]
    <2> HIDE DEF Slot
    <2> QED  BY <1>2, <1>5, <1>6
  <1>12. Waiting # << >>
    BY <1>2, <1>5
  <1> QED  BY <1>9, <1>10, <1>11, <1>12

\* The line being written, as Channel has it.
Writing == {<<l, count[l]>> : l \in {k \in Loggers : writer[k] # Nowhere}}
Online  == kind = "mqtt" => bit

LEMMA ChannelInit == Init => Channel!Init
  <1> SUFFICES ASSUME Init PROVE Channel!Init
    OBVIOUS
  <1>1. 1 .. (head - tail) % Slots = {}
    <2>1. Ahead(0) = 0 /\ head = 0 /\ tail = 0
      BY DEF Init, Ahead
    <2>2. (head - tail) % Slots = 0
      BY <2>1, IndexHasZero, DistanceIs
    <2> QED  BY <2>2
  <1>2. Waiting = << >>
    BY <1>1 DEF Waiting
  <1>3. {<<l, count[l]>> : l \in {k \in Loggers : writer[k] # Nowhere}} = {}
    BY DEF Init
  <1>4. (kind = "mqtt" => bit) \in BOOLEAN /\ {holding} \ {NoLine} = {}
    BY DEF Init
  <1> QED  BY <1>2, <1>3, <1>4 DEF Init, Channel!Init

\* Once the buffer is spoilt, it stays so.
LEMMA SpoiltStays == ASSUME spoilt, Next PROVE spoilt'
  BY DEF Next, ClientStep, Logger, BeginLine, EndLine, CreateClient,
         BufferFails, ReceiveFails, Overruns, Hook, CopyParameters, Opens,
         SocketFails, TcpConnects, TcpGivesUp, MqttStart, MqttClearBit,
         MqttReady, MqttEvent, Receive, Sends, TcpSendFails, Client, buffer

\* A step that leaves the buffer and the lines alone: at most a connection is
\* made or lost.
LEMMA ChannelKept ==
    ASSUME UNCHANGED <<buffer, holding, sent>>
    PROVE  [Channel!Next]_Channel!vars
  <1>1. UNCHANGED <<count, Waiting, holding, sent, spoilt>>
    BY DEF buffer, Waiting
  <1>2. UNCHANGED Writing
    BY DEF buffer, Writing
  <1>3. CASE Online' = Online
    BY <1>1, <1>2, <1>3 DEF Channel!vars, Writing, Online
  <1>4. CASE Online' # Online
    <2>1. Online' = ~Online
      BY <1>4 DEF Online
    <2>2. Channel!Link
      BY <1>1, <1>2, <2>1 DEF Channel!Link, Writing, Online
    <2> QED  BY <2>2 DEF Channel!Next
  <1> QED  BY <1>3, <1>4

LEMMA ChannelBeginLine ==
    ASSUME IInv, OrderInv, ~spoilt, NEW l \in Loggers, BeginLine(l)
    PROVE  Channel!Next
  <1>1. /\ UNCHANGED <<kind, bit, ring, head, tail, holding, sent>>
        /\ writer[l] = Nowhere /\ count' = [count EXCEPT ![l] = @ + 1]
        /\ writer' = IF Full THEN writer ELSE [writer EXCEPT ![l] = head]
    BY DEF BeginLine, mqtt
  <1>2. UNCHANGED <<Waiting, holding, sent, Online>>
    BY <1>1 DEF Waiting, Online
  <1>3. Full <=> ~Channel!HasRoom
    <2>1. PICK n \in 0 .. Slots - 1 : n = Ahead(head) /\ n = Len(Waiting)
      BY WaitingIs DEF IInv
    <2>2. Full <=> n = Slots - 1
      BY <2>1, WaitingIs DEF IInv
    <2>3. Channel!HasRoom <=> n < Slots - 1
      BY <2>1 DEF Channel!HasRoom
    <2> QED  BY <2>1, <2>2, <2>3, SlotsAssumption
  <1>4. count \in [Loggers -> 0 .. MaxLines] /\ writer \in [Loggers -> Index \cup {Nowhere}]
        /\ head # Nowhere /\ OneWriter /\ spoilt = FALSE
    BY IndexHasZero DEF IInv, TypeOK, OrderInv
  <1>5. spoilt' \in BOOLEAN
    BY DEF IInv, TypeOK, BeginLine
  <1>6. CASE spoilt' = TRUE
    <2>1. Channel!Spoil(l)
      BY <1>1, <1>6 DEF Channel!Spoil, Channel!Count
    <2> QED  BY <2>1 DEF Channel!Next
  <1>7. CASE spoilt' = FALSE /\ Full
    <2>1. spoilt' = spoilt /\ writer' = writer
      BY <1>1, <1>4, <1>7
    <2>2. \A k \in Loggers : writer[k] = Nowhere
      BY <1>4, <1>7 DEF OneWriter
    <2>3. Writing = {} /\ Writing' = {}
      BY <2>1, <2>2 DEF Writing
    <2>4. Channel!Drop(l)
      BY <1>1, <1>2, <1>3, <1>7, <2>1, <2>3
      DEF Channel!Drop, Channel!Count, Writing, Online
    <2> QED  BY <2>4 DEF Channel!Next
  <1>8. CASE spoilt' = FALSE /\ ~Full
    <2>1. spoilt' = spoilt /\ \A k \in Loggers \ {l} : writer[k] = Nowhere
      BY <1>4, <1>8 DEF BeginLine
    <2>2. Writing = {}
      BY <1>1, <2>1 DEF Writing
    <2>3. writer'[l] = head /\ \A k \in Loggers \ {l} : writer'[k] = Nowhere
      BY <1>1, <1>4, <1>8, <2>1
    <2>4. Writing' = {<<l, count'[l]>>}
      BY <1>4, <2>3 DEF Writing
    <2>5. Channel!Begin(l)
      BY <1>1, <1>2, <1>3, <1>8, <2>1, <2>2, <2>4
      DEF Channel!Begin, Channel!Count, Writing, Online
    <2> QED  BY <2>5 DEF Channel!Next
  <1> QED  BY <1>5, <1>6, <1>7, <1>8

LEMMA ChannelEndLine ==
    ASSUME IInv, IInv', OrderInv, ~spoilt, NEW l \in Loggers, EndLine(l)
    PROVE  Channel!Next
  <1>1. /\ UNCHANGED <<kind, bit, tail, count, spoilt, holding, sent>>
        /\ writer[l] # Nowhere /\ writer' = [writer EXCEPT ![l] = Nowhere]
        /\ ring' = [ring EXCEPT ![writer[l]] = <<l, count[l]>>]
        /\ head' = Succ(writer[l])
    BY DEF EndLine, mqtt
  <1>2. writer \in [Loggers -> Index \cup {Nowhere}] /\ OneWriter /\ TypeOK /\ TypeOK'
    BY DEF IInv, TypeOK, OrderInv
  <1>3. writer[l] = head /\ ~Full /\ \A k \in Loggers \ {l} : writer[k] = Nowhere
    BY <1>1, <1>2 DEF OneWriter
  <1>4. <<l, count[l]>> \in Line
    <2>1. count[l] \in 1 .. MaxLines
      BY <1>1, MaxLinesAssumption DEF IInv, TypeOK, Counted
    <2> QED  BY <2>1 DEF Line
  <1>5. Waiting' = Append(Waiting, <<l, count[l]>>)
    BY <1>1, <1>2, <1>3, <1>4, WaitingGrows
  <1>6. Writing = {<<l, count[l]>>} /\ Writing' = {}
    <2>1. \A k \in Loggers : writer'[k] = Nowhere
      BY <1>1, <1>2, <1>3
    <2> QED  BY <1>1, <1>3, <2>1 DEF Writing
  <1>7. Channel!End
    BY <1>1, <1>5, <1>6 DEF Channel!End, Writing
  <1> QED  BY <1>7 DEF Channel!Next

LEMMA ChannelReceive ==
    ASSUME IInv, IInv', OrderInv, ~spoilt, Receive
    PROVE  Channel!Next
  <1>1. /\ UNCHANGED <<kind, bit, ring, head, count, writer, spoilt, sent>>
        /\ holding = NoLine /\ head # tail
        /\ holding' = ring[tail] /\ tail' = Succ(tail)
    BY DEF Receive, mqtt
  <1>2. Waiting # << >> /\ Head(Waiting) = ring[tail] /\ Waiting' = Tail(Waiting)
    BY <1>1, WaitingShrinks DEF IInv
  <1>3. ring[tail] # NoLine
    <2>1. tail \in Queued
      BY <1>1, QueueShrinks DEF IInv
    <2>2. ring[tail] \in Whole
      BY <2>1 DEF OrderInv, Lines, Logged
    <2>3. NoLine \notin Whole
      BY DEF Whole, NoLine
    <2> QED  BY <2>2, <2>3
  <1>4. {holding} \ {NoLine} = {} /\ {holding'} \ {NoLine} = {ring[tail]}
    BY <1>1, <1>3
  <1>5. Writing' = Writing /\ Online' = Online
    BY <1>1 DEF Writing, Online
  <1>6. Channel!Take
    BY <1>1, <1>2, <1>4, <1>5 DEF Channel!Take, Writing, Online
  <1> QED  BY <1>6 DEF Channel!Next

LEMMA ChannelSends ==
    ASSUME ~spoilt, Sends
    PROVE  Channel!Next
  <1>1. /\ UNCHANGED <<kind, bit, ring, head, tail, count, writer, spoilt>>
        /\ holding # NoLine /\ holding' = NoLine
        /\ sent' = IF kind = "mqtt" /\ ~bit THEN sent ELSE Append(sent, holding)
    BY DEF Sends, buffer, mqtt
  <1>2. Writing' = Writing /\ Online' = Online /\ Waiting' = Waiting
    BY <1>1 DEF Writing, Online, Waiting
  <1>3. {holding} \ {NoLine} = {holding} /\ {holding'} \ {NoLine} = {}
    BY <1>1
  <1>4. CASE Online
    <2>1. sent' = Append(sent, holding)
      BY <1>1, <1>4 DEF Online
    <2>2. Channel!Send
      BY <1>1, <1>2, <1>3, <2>1 DEF Channel!Send, Writing, Online
    <2> QED  BY <2>2 DEF Channel!Next
  <1>5. CASE ~Online
    <2>1. sent' = sent
      BY <1>1, <1>5 DEF Online
    <2>2. Channel!Skip
      BY <1>1, <1>2, <1>3, <1>5, <2>1 DEF Channel!Skip, Writing, Online
    <2> QED  BY <2>2 DEF Channel!Next
  <1> QED  BY <1>4, <1>5

LEMMA ChannelNext ==
    ASSUME IInv, IInv', OrderInv, [Next]_vars
    PROVE  [Channel!Next]_Channel!vars
  <1>1. CASE UNCHANGED vars
    BY <1>1, ChannelKept DEF vars
  <1>2. CASE spoilt /\ Next
    <2>1. spoilt' = TRUE
      BY <1>2, SpoiltStays DEF IInv, TypeOK
    <2>2. Channel!Spoilt
      BY <1>2, <2>1 DEF Channel!Spoilt
    <2> QED  BY <2>2 DEF Channel!Next
  <1>3. CASE ~spoilt /\ Next
    <2>1. ASSUME NEW l \in Loggers, BeginLine(l) \/ EndLine(l) PROVE Channel!Next
      BY <1>3, <2>1, ChannelBeginLine, ChannelEndLine
    <2>2. ASSUME \/ CreateClient \/ BufferFails \/ Hook
                 \/ CopyParameters \/ Opens \/ SocketFails
                 \/ TcpConnects \/ TcpGivesUp
                 \/ MqttStart \/ MqttClearBit \/ MqttReady
                 \/ TcpSendFails \/ ReceiveFails \/ MqttEvent
                 \/ \E l \in Loggers : Overruns(l)
          PROVE  [Channel!Next]_Channel!vars
      <3>1. UNCHANGED <<buffer, holding, sent>>
        BY <2>2
        DEF CreateClient, BufferFails, ReceiveFails, Overruns, Hook,
            CopyParameters, Opens, SocketFails, TcpConnects, TcpGivesUp,
            MqttStart, MqttClearBit, MqttReady, TcpSendFails, MqttEvent,
            Client
      <3> QED  BY <3>1, ChannelKept
    <2>3. CASE Receive
      BY <1>3, <2>3, ChannelReceive
    <2>4. CASE Sends
      BY <1>3, <2>4, ChannelSends
    <2> QED  BY <1>3, <2>1, <2>2, <2>3, <2>4 DEF Next, ClientStep, Logger
  <1> QED  BY <1>1, <1>2, <1>3

\* NetLogging implements LogChannel: for any tasks and lines, any size of the
\* buffer and each of the four clients, a logged line that does not reach the
\* network in its turn met a full buffer, or an MQTT client without a
\* connection, as long as no two tasks have been writing at once and no line has
\* overrun its array.
THEOREM ImplementsChannel == Spec => KeepsChannel
  <1>1. Init => Channel!Init
    BY ChannelInit
  <1>2. IInv /\ IInv' /\ OrderInv /\ [Next]_vars => [Channel!Next]_Channel!vars
    BY ChannelNext
  <1>3. Init => OrderInv
    BY OrderInit
  <1>4. IInv /\ OrderInv /\ [Next]_vars => OrderInv'
    BY OrderNext
  <1> QED  BY <1>1, <1>2, <1>3, <1>4, IInvAlways, PTL DEF Spec, KeepsChannel, Channel!Spec

=============================================================================
