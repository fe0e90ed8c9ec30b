---------------------------- MODULE ZigbeeProofs ----------------------------
(***************************************************************************)
(* Proofs about ZigbeeGateway for every set of sensors and every number of *)
(* announcements.                                                          *)
(***************************************************************************)
EXTENDS ZigbeeGateway, FiniteSetTheorems, TLAPS

\* bind_cb's counter is never behind the successes of any one sensor.
Counted == \A d \in Devices : Cardinality(confirmed[d]) <= endpointsBound

IInv == TypeOK /\ Counted /\ ConfirmedSensorsReport

LEMMA ThreeClusters == IsFiniteSet(Clusters) /\ Cardinality(Clusters) = 3
  <1>1. IsFiniteSet({}) /\ Cardinality({}) = 0
    BY FS_EmptySet
  <1>2. IsFiniteSet({"temp"}) /\ Cardinality({"temp"}) = 1
    BY <1>1, FS_AddElement, {"temp"} = {} \cup {"temp"}
  <1>3. IsFiniteSet({"temp", "hum"}) /\ Cardinality({"temp", "hum"}) = 2
    BY <1>2, FS_AddElement, {"temp", "hum"} = {"temp"} \cup {"hum"}
  <1>4. Clusters = {"temp", "hum"} \cup {"pm25"}
    BY DEF Clusters
  <1> QED  BY <1>3, <1>4, FS_AddElement

\* One more binding adds at most one to the size of a sensor's table.
LEMMA OneMore ==
    ASSUME NEW S \in SUBSET Clusters, NEW c \in Clusters
    PROVE  /\ Cardinality(S) \in Nat
           /\ Cardinality(S \cup {c}) <= Cardinality(S) + 1
  <1>1. IsFiniteSet(S)
    BY ThreeClusters, FS_Subset
  <1>2. Cardinality(S) \in Nat
    BY <1>1, FS_CardinalityType
  <1>3. Cardinality(S \cup {c}) = IF c \in S THEN Cardinality(S)
                                             ELSE Cardinality(S) + 1
    BY <1>1, FS_AddElement
  <1> QED  BY <1>2, <1>3

\* Three of the three clusters are all of them.
LEMMA AllThree ==
    ASSUME NEW S \in SUBSET Clusters, Cardinality(S) >= 3
    PROVE  S = Clusters
  <1>1. /\ IsFiniteSet(S) /\ Cardinality(S) <= 3
        /\ Cardinality(S) = Cardinality(Clusters) => S = Clusters
    BY ThreeClusters, FS_Subset
  <1>2. Cardinality(S) \in Nat
    BY <1>1, FS_CardinalityType
  <1> QED  BY <1>1, <1>2, ThreeClusters

LEMMA IInvInit == Init => IInv
  <1>1. Cardinality({}) = 0
    BY FS_EmptySet
  <1> QED
    BY <1>1, MaxAnnounceAssumption
    DEF Init, NoRequest, NoCluster, IInv, TypeOK, Counted,
        ConfirmedSensorsReport, Networks, Clusters

LEMMA IInvAnnounce ==
    ASSUME IInv, NEW d \in Devices, DeviceAnnounce(d)
    PROVE  IInv'
  <1> USE DEF IInv, DeviceAnnounce
  <1>1. TypeOK'
    <2>1. announced' \in [Devices -> Nat]
      BY MaxAnnounceAssumption DEF TypeOK
    <2>2. pending' \in [Devices -> [Clusters -> Nat]]
      BY DEF TypeOK
    <2>3. bound' \in [Devices -> SUBSET Clusters]
          /\ asked' \in [Devices -> SUBSET Clusters]
          /\ confirmed' \in [Devices -> SUBSET Clusters]
      BY DEF TypeOK
    <2> QED  BY <2>1, <2>2, <2>3 DEF TypeOK
  <1>2. Counted'
    <2> SUFFICES ASSUME NEW e \in Devices
                 PROVE  Cardinality(confirmed'[e]) <= endpointsBound'
      BY DEF Counted
    <2>1. confirmed'[e] = confirmed[e] \/ confirmed'[e] = {}
      BY DEF TypeOK
    <2>2. Cardinality({}) = 0 /\ endpointsBound' = endpointsBound
          /\ endpointsBound \in Nat
      BY FS_EmptySet DEF TypeOK
    <2>3. CASE confirmed'[e] = confirmed[e]
      BY <2>2, <2>3 DEF Counted
    <2>4. CASE confirmed'[e] = {}
      <3>1. Cardinality(confirmed'[e]) = 0
        BY <2>2, <2>4
      <3> QED  BY <2>2, <3>1
    <2> QED  BY <2>1, <2>3, <2>4
  <1>3. ConfirmedSensorsReport'
    BY DEF ConfirmedSensorsReport, TypeOK, Clusters
  <1> QED  BY <1>1, <1>2, <1>3

LEMMA IInvBind ==
    ASSUME IInv, NEW d \in Devices, NEW c \in Clusters, BindSucceeded(d, c)
    PROVE  IInv'
  <1> USE DEF IInv, BindSucceeded, ConfigureReports
  <1>1. TypeOK'
    BY DEF TypeOK
  <1>2. \A e \in Devices :
            confirmed'[e] = IF e = d THEN confirmed[d] \cup {c} ELSE confirmed[e]
    BY DEF TypeOK
  <1>3. Counted'
    <2>1. ASSUME NEW e \in Devices
          PROVE  Cardinality(confirmed'[e]) <= endpointsBound + 1
      <3>1. Cardinality(confirmed[e]) \in Nat
            /\ Cardinality(confirmed[e]) <= endpointsBound
            /\ Cardinality(confirmed[e] \cup {c}) <= Cardinality(confirmed[e]) + 1
        BY OneMore DEF TypeOK, Counted
      <3>2. Cardinality(confirmed[e] \cup {c}) \in Nat
        BY OneMore DEF TypeOK
      <3>3. confirmed'[e] = confirmed[e] \/ confirmed'[e] = confirmed[e] \cup {c}
        BY <1>2
      <3>4. endpointsBound \in Nat
        BY DEF TypeOK
      <3>5. CASE confirmed'[e] = confirmed[e]
        <4>1. Cardinality(confirmed'[e]) = Cardinality(confirmed[e])
          BY <3>5
        <4> QED  BY <3>1, <3>4, <4>1
      <3>6. CASE confirmed'[e] = confirmed[e] \cup {c}
        <4>1. Cardinality(confirmed'[e]) = Cardinality(confirmed[e] \cup {c})
          BY <3>6
        <4> QED  BY <3>1, <3>2, <3>4, <4>1
      <3> QED  BY <3>3, <3>5, <3>6
    <2> QED  BY <2>1 DEF Counted
  <1>4. ConfirmedSensorsReport'
    <2> SUFFICES ASSUME NEW e \in Devices, confirmed'[e] = Clusters
                 PROVE  asked'[e] = Clusters
      BY DEF ConfirmedSensorsReport
    <2>1. CASE e # d
      BY <1>2, <2>1 DEF ConfirmedSensorsReport, TypeOK
    <2>2. CASE e = d
      <3>1. endpointsBound' >= 3
        <4>1. Cardinality(confirmed'[e]) = 3
          BY ThreeClusters
        <4>2. Cardinality(confirmed'[e]) <= endpointsBound'
          BY <1>3 DEF Counted
        <4> QED  BY <1>1, <4>1, <4>2 DEF TypeOK
      <3> QED  BY <2>2, <3>1 DEF TypeOK
    <2> QED  BY <2>1, <2>2
  <1> QED  BY <1>1, <1>3, <1>4

LEMMA IInvFailed ==
    ASSUME IInv, NEW d \in Devices, NEW c \in Clusters, BindFailed(d, c)
    PROVE  IInv'
  <1>1. bound' \in [Devices -> SUBSET Clusters]
    BY DEF IInv, BindFailed, TypeOK
  <1>2. pending' \in [Devices -> [Clusters -> Nat]]
    BY DEF IInv, BindFailed, TypeOK
  <1> QED
    BY <1>1, <1>2
    DEF IInv, BindFailed, TypeOK, Counted, ConfirmedSensorsReport

LEMMA IInvAborts == IInv /\ RetryAborts => IInv'
  <1>1. Cardinality({}) = 0
    BY FS_EmptySet
  <1> QED
    BY <1>1 DEF RetryAborts, IInv, TypeOK, Counted, ConfirmedSensorsReport,
                NoRequest, NoCluster, Networks, Clusters

LEMMA IInvNetwork ==
    ASSUME IInv, (Commissioning /\ ~RetryAborts) \/ UNCHANGED vars
    PROVE  IInv'
  BY DEF IInv, TypeOK, Counted, ConfirmedSensorsReport, Commissioning, Commission,
         SkipStartup, Started, StartFailed, Formed, FormationFailed,
         RetryFormation, SteeringStarted, SteeringFailed, sensors, vars, Networks

LEMMA IInvStep == IInv /\ [Next]_vars => IInv'
  BY IInvAnnounce, IInvBind, IInvFailed, IInvAborts, IInvNetwork DEF Next

\* A sensor all of whose binds bind_cb has seen succeed has been told to report,
\* however many sensors there are and however often they rejoin: the counter
\* that is never reset only ever errs on the early side.
THEOREM ConfirmedSensorsAlwaysReport == Spec => []ConfirmedSensorsReport
  <1>1. IInv => ConfirmedSensorsReport
    BY DEF IInv
  <1> QED  BY IInvInit, IInvStep, <1>1, PTL DEF Spec

\* The gateway's counters and tables keep their types.
THEOREM TypeCorrect == Spec => []TypeOK
  <1>1. IInv => TypeOK
    BY DEF IInv
  <1> QED  BY IInvInit, IInvStep, <1>1, PTL DEF Spec

-----------------------------------------------------------------------------
(***************************************************************************)
(* The first sensor                                                        *)
(***************************************************************************)

\* A sensor that has not announced itself has left no trace.
Untouched ==
    /\ \A d \in Devices : announced[d] = 0 =>
           /\ bound[d] = {} /\ asked[d] = {} /\ confirmed[d] = {}
           /\ \A c \in Clusters : pending[d][c] = 0
    /\ (\A d \in Devices : announced[d] = 0) => endpointsBound = 0

OnlyOnce(d) == announced[d] = 1 /\ \A e \in Devices \ {d} : announced[e] = 0

\* While there has been one announcement the counter is the number of that
\* sensor's successes: no cluster is answered twice, and those answered are
\* bound.
FirstCounted ==
    \A d \in Devices : OnlyOnce(d) =>
        /\ endpointsBound = Cardinality(confirmed[d])
        /\ confirmed[d] \subseteq bound[d]
        /\ \A c \in Clusters : pending[d][c] = 0
                               \/ (pending[d][c] = 1 /\ c \notin confirmed[d])
        /\ asked[d] # {} => bound[d] = Clusters

FInv == TypeOK /\ Untouched /\ FirstCounted

LEMMA FInvInit == Init => FInv
  <1> SUFFICES ASSUME Init PROVE FInv
    OBVIOUS
  <1>1. TypeOK
    BY IInvInit DEF IInv
  <1> QED
    BY <1>1 DEF FInv, Init, NoRequest, NoCluster, Untouched, FirstCounted, OnlyOnce

LEMMA FInvAnnounce ==
    ASSUME FInv, NEW d \in Devices, DeviceAnnounce(d), TypeOK'
    PROVE  FInv'
  <1>1. /\ announced'[d] = announced[d] + 1 /\ announced[d] \in Nat
        /\ \A e \in Devices \ {d} :
               announced'[e] = announced[e] /\ pending'[e] = pending[e]
        /\ \A c \in Clusters : pending'[d][c] = pending[d][c] + 1
        /\ endpointsBound' = endpointsBound
    BY DEF FInv, TypeOK, DeviceAnnounce
  <1>2. \A e \in Devices : /\ bound'[e] \in {bound[e], {}}
                            /\ asked'[e] \in {asked[e], {}}
                            /\ confirmed'[e] \in {confirmed[e], {}}
    BY DEF FInv, TypeOK, DeviceAnnounce
  <1>3. Untouched'
    <2>1. announced'[d] # 0
      BY <1>1
    <2>2. ASSUME NEW e \in Devices, announced'[e] = 0
          PROVE  bound'[e] = {} /\ asked'[e] = {} /\ confirmed'[e] = {}
                 /\ \A c \in Clusters : pending'[e][c] = 0
      <3>1. e # d /\ announced[e] = 0
        BY <1>1, <2>1, <2>2
      <3> QED  BY <1>1, <1>2, <3>1 DEF FInv, Untouched
    <2> QED  BY <2>1, <2>2 DEF Untouched
  <1>4. ASSUME NEW e \in Devices, OnlyOnce(e)'
        PROVE  /\ endpointsBound' = Cardinality(confirmed'[e])
               /\ confirmed'[e] \subseteq bound'[e]
               /\ \A c \in Clusters : pending'[e][c] = 0
                                      \/ (pending'[e][c] = 1 /\ c \notin confirmed'[e])
               /\ asked'[e] # {} => bound'[e] = Clusters
    <2>1. e = d
      <3>1. announced'[d] # 0
        BY <1>1
      <3> QED  BY <1>4, <3>1 DEF OnlyOnce
    <2>2. \A x \in Devices : announced[x] = 0
      BY <1>1, <1>4, <2>1 DEF OnlyOnce
    <2>3. endpointsBound = 0 /\ bound[d] = {} /\ asked[d] = {} /\ confirmed[d] = {}
          /\ \A c \in Clusters : pending[d][c] = 0
      BY <2>2 DEF FInv, Untouched
    <2>4. bound'[d] = {} /\ asked'[d] = {} /\ confirmed'[d] = {}
      BY <1>2, <2>3
    <2>5. Cardinality(confirmed'[d]) = 0
      BY <2>4, FS_EmptySet
    <2> QED  BY <1>1, <2>1, <2>3, <2>4, <2>5
  <1> QED  BY <1>3, <1>4 DEF FInv, FirstCounted

LEMMA FInvBind ==
    ASSUME FInv, NEW d \in Devices, NEW c \in Clusters, BindSucceeded(d, c),
           TypeOK'
    PROVE  FInv'
  <1>1. /\ pending[d][c] > 0 /\ announced' = announced
        /\ endpointsBound' = endpointsBound + 1
        /\ pending'[d][c] = pending[d][c] - 1 /\ pending[d][c] \in Nat
        /\ \A x \in Clusters \ {c} : pending'[d][x] = pending[d][x]
        /\ announced[d] > 1 \/ bound'[d] = bound[d] \cup {c}
        /\ confirmed'[d] = confirmed[d] \cup {c}
        /\ \A e \in Devices \ {d} : /\ pending'[e] = pending[e]
                                    /\ bound'[e] = bound[e]
                                    /\ confirmed'[e] = confirmed[e]
                                    /\ asked'[e] = asked[e]
    BY DEF FInv, TypeOK, BindSucceeded, ConfigureReports
  <1>2. endpointsBound' < 3 => asked' = asked
    BY DEF BindSucceeded, ConfigureReports
  <1>3. announced[d] # 0
    BY <1>1 DEF FInv, Untouched
  <1>4. Untouched'
    BY <1>1, <1>3 DEF FInv, Untouched
  <1>5. ASSUME NEW e \in Devices, OnlyOnce(e)'
        PROVE  /\ endpointsBound' = Cardinality(confirmed'[e])
               /\ confirmed'[e] \subseteq bound'[e]
               /\ \A x \in Clusters : pending'[e][x] = 0
                                      \/ (pending'[e][x] = 1 /\ x \notin confirmed'[e])
               /\ asked'[e] # {} => bound'[e] = Clusters
    <2>1. OnlyOnce(e) /\ e = d
      BY <1>1, <1>3, <1>5 DEF OnlyOnce
    <2>2. /\ endpointsBound = Cardinality(confirmed[d])
          /\ confirmed[d] \subseteq bound[d]
          /\ \A x \in Clusters : pending[d][x] = 0
                                 \/ (pending[d][x] = 1 /\ x \notin confirmed[d])
          /\ asked[d] # {} => bound[d] = Clusters
      BY <2>1 DEF FInv, FirstCounted
    <2>3. c \notin confirmed[d] /\ pending[d][c] = 1
      BY <1>1, <2>2
    <2>4. bound'[d] = bound[d] \cup {c}
      BY <1>1, <2>1 DEF OnlyOnce
    <2>5. endpointsBound' = Cardinality(confirmed'[d])
      <3>1. IsFiniteSet(confirmed[d])
        BY ThreeClusters, FS_Subset DEF FInv, TypeOK
      <3>2. Cardinality(confirmed[d] \cup {c}) = Cardinality(confirmed[d]) + 1
        BY <2>3, <3>1, FS_AddElement
      <3> QED  BY <1>1, <2>2, <3>2
    <2>6. ASSUME NEW x \in Clusters
          PROVE  pending'[d][x] = 0 \/ (pending'[d][x] = 1 /\ x \notin confirmed'[d])
      <3>1. CASE x = c
        BY <1>1, <2>3, <3>1
      <3>2. CASE x # c
        BY <1>1, <2>2, <3>2
      <3> QED  BY <3>1, <3>2
    <2>7. confirmed'[d] \subseteq bound'[d]
      BY <1>1, <2>2, <2>4
    <2>8. ASSUME asked'[d] # {} PROVE bound'[d] = Clusters
      <3>1. bound'[d] \subseteq Clusters /\ confirmed'[d] \subseteq Clusters
        BY DEF TypeOK
      <3>2. CASE asked' = asked
        BY <2>2, <2>4, <2>8, <3>1, <3>2
      <3>3. CASE asked' # asked
        <4>1. Cardinality(confirmed'[d]) >= 3
          BY <1>2, <2>5, <3>3 DEF FInv, TypeOK, BindSucceeded
        <4>2. confirmed'[d] = Clusters
          BY <3>1, <4>1, AllThree
        <4> QED  BY <2>7, <3>1, <4>2
      <3> QED  BY <3>2, <3>3
    <2> QED  BY <2>1, <2>5, <2>6, <2>7, <2>8
  <1> QED  BY <1>4, <1>5 DEF FInv, FirstCounted

LEMMA FInvFailed ==
    ASSUME FInv, NEW d \in Devices, NEW c \in Clusters, BindFailed(d, c),
           TypeOK'
    PROVE  FInv'
  <1>1. /\ pending[d][c] > 0
        /\ UNCHANGED <<endpointsBound, announced, asked, confirmed>>
        /\ pending'[d][c] = pending[d][c] - 1 /\ pending[d][c] \in Nat
        /\ \A x \in Clusters \ {c} : pending'[d][x] = pending[d][x]
        /\ bound[d] \subseteq bound'[d]
        /\ \A e \in Devices \ {d} : pending'[e] = pending[e] /\ bound'[e] = bound[e]
    BY DEF FInv, TypeOK, BindFailed
  <1>2. announced[d] # 0
    BY <1>1 DEF FInv, Untouched
  <1>3. Untouched'
    BY <1>1, <1>2 DEF FInv, Untouched
  <1>4. \A e \in Devices : bound[e] \subseteq bound'[e] /\ bound'[e] \subseteq Clusters
    BY <1>1 DEF TypeOK
  <1>5. ASSUME NEW e \in Devices, OnlyOnce(e)'
        PROVE  /\ endpointsBound' = Cardinality(confirmed'[e])
               /\ confirmed'[e] \subseteq bound'[e]
               /\ \A x \in Clusters : pending'[e][x] = 0
                                      \/ (pending'[e][x] = 1 /\ x \notin confirmed'[e])
               /\ asked'[e] # {} => bound'[e] = Clusters
    <2>1. OnlyOnce(e)
      BY <1>1, <1>5 DEF OnlyOnce
    <2>2. /\ endpointsBound = Cardinality(confirmed[e])
          /\ confirmed[e] \subseteq bound[e]
          /\ \A x \in Clusters : pending[e][x] = 0
                                 \/ (pending[e][x] = 1 /\ x \notin confirmed[e])
          /\ asked[e] # {} => bound[e] = Clusters
      BY <2>1 DEF FInv, FirstCounted
    <2>3. bound[e] \subseteq bound'[e] /\ bound'[e] \subseteq Clusters
      BY <1>4
    <2>4. endpointsBound' = Cardinality(confirmed'[e])
      BY <1>1, <2>2
    <2>5. confirmed'[e] \subseteq bound'[e]
      BY <1>1, <2>2, <2>3
    <2>6. ASSUME NEW x \in Clusters
          PROVE  pending'[e][x] = 0 \/ (pending'[e][x] = 1 /\ x \notin confirmed'[e])
      <3>1. CASE e = d /\ x = c
        BY <1>1, <2>2, <3>1
      <3>2. CASE e # d \/ x # c
        <4>1. pending'[e][x] = pending[e][x]
          BY <1>1, <3>2
        <4> QED  BY <1>1, <2>2, <4>1
      <3> QED  BY <3>1, <3>2
    <2>7. asked'[e] # {} => bound'[e] = Clusters
      BY <1>1, <2>2, <2>3
    <2> QED  BY <2>4, <2>5, <2>6, <2>7
  <1> QED  BY <1>3, <1>5 DEF FInv, FirstCounted

\* The restart forgets the successes and the counter alike.
LEMMA FInvAborts ==
    ASSUME FInv, RetryAborts, TypeOK'
    PROVE  FInv'
  <1>1. Cardinality({}) = 0
    BY FS_EmptySet
  <1>2. Untouched'
    BY DEF FInv, RetryAborts, Untouched, NoRequest, NoCluster
  <1>3. FirstCounted'
    BY <1>1 DEF FInv, RetryAborts, FirstCounted, OnlyOnce, NoRequest, NoCluster
  <1> QED  BY <1>2, <1>3 DEF FInv

LEMMA FInvNetwork ==
    ASSUME FInv, (Commissioning /\ ~RetryAborts) \/ UNCHANGED vars, TypeOK'
    PROVE  FInv'
  <1>1. UNCHANGED sensors
    BY DEF Commissioning, Commission, SkipStartup, Started, StartFailed, Formed,
           FormationFailed, RetryFormation, SteeringStarted, SteeringFailed,
           sensors, vars
  <1> QED  BY <1>1 DEF FInv, Untouched, FirstCounted, OnlyOnce, sensors

LEMMA FInvStep == FInv /\ IInv /\ [Next]_vars => FInv'
  <1> SUFFICES ASSUME FInv, IInv, [Next]_vars PROVE FInv'
    OBVIOUS
  <1>1. TypeOK'
    BY IInvStep DEF IInv
  <1> QED
    BY <1>1, FInvAnnounce, FInvBind, FInvFailed, FInvAborts, FInvNetwork DEF Next

\* As long as a single sensor has announced itself, once, it is asked for its
\* reports only when all its endpoints are bound, though answers may be lost
\* and the gateway restart.
THEOREM FirstSensorAlwaysInOrder == Spec => []FirstSensorInOrder
  <1>1. FInv => FirstSensorInOrder
    BY DEF FInv, FirstCounted, FirstSensorInOrder, FirstAndOnce, OnlyOnce
  <1> QED  BY IInvInit, IInvStep, FInvInit, FInvStep, <1>1, PTL DEF Spec

============================================================================
