--------------------------- MODULE SettingsProofs ---------------------------
(***************************************************************************)
(* Proofs about Settings for every set of forms and reports and any number *)
(* of requests, faults and power losses: the cache is what is stored, the  *)
(* keys of a form are found together, and a report evaluated while the     *)
(* limits change is decided as by the old limits or as by the new.         *)
(***************************************************************************)
EXTENDS Settings, TLAPS

Speeds == {"high", "low", "off", "stay"}

\* The request being served, as received or as decoded.
FormType ==
    /\ httpd \in {"idle", "receiving", "saved"} => next = 1
    /\ httpd # "idle" =>
           \E kind \in Kinds : form \in [kind : {kind}, value : [KeysOf(kind) -> Values]]
    /\ httpd = "receiving" => form \in Forms

Evaluating == report.at \in {"high", "low", "afterrun"}

ReportType ==
    \/ report = NoReport
    \/ report \in [at : {"high", "low", "afterrun"}, pm : Levels, age : Ages,
                    calls : SUBSET Speeds]
    \/ report \in [at : {"decided"}, speed : Speeds, calls : SUBSET Speeds]

\* The keys of the form that have been written, and those that have been cached.
WrittenKeys ==
    CASE httpd = "writing" -> {Writes[form.kind][i] : i \in 1 .. next - 1}
      [] httpd \in {"caching", "saved"} -> KeysOf(form.kind)
      [] OTHER -> {}

CachedKeys ==
    CASE httpd = "caching" -> {Fields[form.kind][i] : i \in 1 .. next - 1}
      [] httpd = "saved"   -> KeysOf(form.kind)
      [] OTHER -> {}

\* A key written is in flash, or its write has failed and is remembered.
WrittenOK ==
    \A k \in WrittenKeys :
        (k \in stale \cap behind /\ ~whole) \/ flash[k] = form.value[k]

\* A save that is under way, and one that has gone well so far.
SaveOK ==
    /\ httpd \in {"writing", "caching", "saved"} =>
           form.value \in Bodies[form.kind] /\ (whole => form \in Forms)
    /\ httpd = "writing" /\ next > 1 => KeysOf(form.kind) \ behind \subseteq WrittenKeys

\* The limits in effect are those of the form as far as they have been cached.
CachedOK ==
    /\ \A k \in CachedKeys : cache[k] = form.value[k]
    /\ \A k \in Limits \ CachedKeys : cache[k] = settled[k]

\* A report knows the limits it meets, and has passed a limit only if they do
\* not all call for the speed of that limit.
CallsOK ==
    /\ Evaluating =>
           /\ Call(settled, report.pm, report.age) \in report.calls
           /\ httpd \in {"caching", "saved"} /\ form.kind = "limits" =>
                  Call(form.value, report.pm, report.age) \in report.calls
    /\ report.at \in {"low", "afterrun"} => report.calls # {"high"}
    /\ report.at = "afterrun" => report.calls # {"low"}

IInv ==
    /\ TypeOK /\ FormType /\ ReportType
    /\ WrittenOK /\ SaveOK /\ SavedTogether
    /\ CachedOK /\ CacheIsStored
    /\ CallsOK /\ DecisionsAgree
-----------------------------------------------------------------------------
\* What the cases of the three kinds come to.
LEMMA KindFacts ==
    ASSUME NEW kind \in Kinds
    PROVE  /\ Len(Fields[kind]) \in Nat \ {0}
           /\ DOMAIN Fields[kind] = 1 .. Len(Fields[kind])
           /\ DOMAIN Writes[kind] = DOMAIN Fields[kind]
           /\ \A i \in DOMAIN Fields[kind] : /\ Fields[kind][i] \in KeysOf(kind)
                                             /\ Writes[kind][i] \in KeysOf(kind)
           /\ \A k \in KeysOf(kind) : \E i \in DOMAIN Fields[kind] : Fields[kind][i] = k
           /\ \A k \in KeysOf(kind) : \E i \in DOMAIN Fields[kind] : Writes[kind][i] = k
           /\ KeysOf(kind) \subseteq Keys
  <1>1. CASE kind = "limits"
    BY <1>1 DEF Kinds, Fields, Writes, KeysOf, Keys
  <1>2. CASE kind = "credentials"
    BY <1>2 DEF Kinds, Fields, Writes, KeysOf, Keys
  <1>3. CASE kind = "logging"
    BY <1>3 DEF Kinds, Fields, Writes, KeysOf, Keys
  <1> QED  BY <1>1, <1>2, <1>3 DEF Kinds

LEMMA KindsApart ==
    ASSUME NEW kind \in Kinds, NEW other \in Kinds, kind # other
    PROVE  KeysOf(kind) \cap KeysOf(other) = {}
  <1>1. KeysOf("limits") = {"low_limit", "high_limit", "afterrun"}
    BY DEF KeysOf, Fields
  <1>2. KeysOf("credentials") = {"username", "password"}
    BY DEF KeysOf, Fields
  <1>3. KeysOf("logging") = {"udp_server", "udp_port"}
    BY DEF KeysOf, Fields
  <1> QED  BY <1>1, <1>2, <1>3 DEF Kinds

\* Facts about the values of keys.
LEMMA ValueFacts ==
    /\ Missing \notin Values /\ Values \subseteq Int
    /\ Nat \cup {Blank} \subseteq Values /\ {0, Cut, Stray, Blank} \subseteq Values
  BY DEF Missing, Values, Blank, Stray, Cut

LEMMA DefaultType == \A k \in Keys : Default(k) \in Values /\ Default(k) \in Nat
  BY DEF Default, Values

LEMMA StoredType ==
    ASSUME TypeOK, NEW k \in Keys
    PROVE  Stored(k) \in Values
  BY DefaultType DEF TypeOK, Stored

LEMMA LimitsFacts ==
    /\ Limits \subseteq Keys
    /\ Limits = {"low_limit", "high_limit", "afterrun"}
    /\ "limits" \in Kinds
  BY DEF Limits, Keys, Kinds, KeysOf, Fields

\* What the types say of a form, and of a report.
LEMMA FormFacts ==
    ASSUME FormType, httpd # "idle"
    PROVE  /\ form.kind \in Kinds
           /\ form.value \in [KeysOf(form.kind) -> Values]
           /\ form = [kind |-> form.kind, value |-> form.value]
  BY DEF FormType

LEMMA IntsOfLimits ==
    ASSUME NEW l \in [Limits -> Values]
    PROVE  l["low_limit"] \in Int /\ l["high_limit"] \in Int /\ l["afterrun"] \in Int
  BY LimitsFacts, ValueFacts

LEMMA CallType ==
    ASSUME NEW l, NEW pm, NEW age
    PROVE  Call(l, pm, age) \in Speeds
  BY DEF Call, Speeds

\* The keys of one kind, as the next boot finds them.
Posted(kind)    == \A k \in KeysOf(kind) : OfOne({k}, Bodies[kind])
Reached(kind)   == OfOne(KeysOf(kind) \ behind, Bodies[kind])
Together(kind)  == OfOne(KeysOf(kind), {f.value : f \in FormsOf(kind)})
Excused(kind)   == kind \in torn \/ HalfWritten(kind)
KindSaved(kind) == Posted(kind) /\ Reached(kind) /\ (Excused(kind) \/ Together(kind))

LEMMA SavedIs == SavedTogether <=> \A kind \in Kinds : KindSaved(kind)
  BY DEF SavedTogether, KindSaved, Posted, Reached, Together, Excused

\* Steps that write nothing keep what the next boot finds, as long as they take
\* no excuse away.
LEMMA SavedKept ==
    ASSUME IInv, flash' = flash, behind' = behind,
           \A kind \in Kinds : Excused(kind) => Excused(kind)'
    PROVE  SavedTogether'
  <1> SUFFICES ASSUME NEW kind \in Kinds PROVE KindSaved(kind)'
    BY DEF SavedTogether, KindSaved, Posted, Reached, Together, Excused
  <1>1. KindSaved(kind)
    BY SavedIs DEF IInv
  <1>2. Posted(kind)' /\ Reached(kind)' /\ (Together(kind) => Together(kind)')
    BY <1>1 DEF KindSaved, Posted, Reached, Together, OfOne
  <1> QED  BY <1>1, <1>2 DEF KindSaved

LEMMA IInvInit == Init => IInv
  <1> SUFFICES ASSUME Init PROVE IInv
    OBVIOUS
  <1> USE DEF Init
  <1>1. /\ \A k \in Keys : flash[k] = Missing /\ cache[k] = Default(k)
        /\ \A k \in Limits : settled[k] = Default(k) /\ cache[k] = Default(k)
        /\ report.at = "none" /\ report.calls = {}
    BY LimitsFacts DEF NoReport
  <1>2. TypeOK
    BY <1>1, DefaultType, LimitsFacts, BoundsAssumption DEF TypeOK, NoReport
  <1>3. FormType /\ ReportType
    BY DEF FormType, ReportType
  <1>4. WrittenKeys = {} /\ CachedKeys = {} /\ Pending = {}
    BY DEF WrittenKeys, CachedKeys, Pending
  <1>5. WrittenOK /\ SaveOK /\ CachedOK
    BY <1>1, <1>4 DEF WrittenOK, SaveOK, CachedOK
  <1>6. SavedTogether
    <2>1. ASSUME NEW kind \in Kinds, NEW keys \in SUBSET KeysOf(kind), NEW bodies
          PROVE  OfOne(keys, bodies)
      BY <1>1, KindFacts DEF OfOne
    <2> QED  BY <2>1, SavedIs DEF KindSaved, Posted, Reached, Together
  <1>7. CacheIsStored
    BY <1>1 DEF CacheIsStored, Stored
  <1>8. CallsOK /\ DecisionsAgree
    BY <1>1 DEF CallsOK, DecisionsAgree, Evaluating
  <1> QED  BY <1>2, <1>3, <1>5, <1>6, <1>7, <1>8 DEF IInv
-----------------------------------------------------------------------------
(***************************************************************************)
(* A restart                                                               *)
(***************************************************************************)
LEMMA RestartKeeps ==
    ASSUME IInv, Restart, torn' \subseteq Kinds,
           \A kind \in Kinds : Excused(kind) => kind \in torn'
    PROVE  IInv'
  <1>1. /\ httpd' = "idle" /\ form' = NoForm /\ next' = 1 /\ report' = NoReport
        /\ settled' = [k \in Limits |-> cache'[k]] /\ whole' = TRUE
        /\ flash' = flash /\ requests' = requests /\ behind' = behind
    BY DEF Restart
  <1>2. /\ cache' \in [Keys -> Values] /\ stale' \subseteq Keys
        /\ mounted' \in BOOLEAN /\ faults' \in 0 .. MaxFaults
        /\ \A k \in Keys \ stale' : cache'[k] = Stored(k)
    <2>1. CASE ReadAll
      BY <2>1, StoredType DEF ReadAll, IInv, TypeOK
    <2>2. CASE StaysClosed
      <3>1. faults + 1 \in 0 .. MaxFaults
        BY <2>2, BoundsAssumption DEF StaysClosed, IInv, TypeOK
      <3>2. cache' \in [Keys -> Values]
        BY <2>2, ValueFacts DEF StaysClosed
      <3> QED  BY <2>2, <3>1, <3>2 DEF StaysClosed
    <2>3. ASSUME NEW bad \in Keys, ReadAllBut(bad)
          PROVE  /\ cache' \in [Keys -> Values] /\ stale' \subseteq Keys
                /\ mounted' \in BOOLEAN /\ faults' \in 0 .. MaxFaults
                /\ \A k \in Keys \ stale' : cache'[k] = Stored(k)
      <3>1. faults + 1 \in 0 .. MaxFaults
        BY <2>3, BoundsAssumption DEF ReadAllBut, IInv, TypeOK
      <3>2. \A k \in Keys : Stored(k) \in Values /\ Default(k) \in Values
        BY StoredType, DefaultType DEF IInv
      <3> QED  BY <2>3, <3>1, <3>2 DEF ReadAllBut
    <2> QED  BY <2>1, <2>2, <2>3 DEF Restart
  <1>3. settled' \in [Limits -> Values] /\ \A k \in Limits : settled'[k] = cache'[k]
    BY <1>1, <1>2, LimitsFacts
  <1>4. TypeOK'
    BY <1>1, <1>2, <1>3 DEF IInv, TypeOK, NoReport
  <1>5. FormType' /\ ReportType'
    BY <1>1 DEF FormType, ReportType
  <1>6. WrittenKeys' = {} /\ CachedKeys' = {} /\ Pending' = {}
    BY <1>1 DEF WrittenKeys, CachedKeys, Pending
  <1>7. WrittenOK' /\ SaveOK' /\ CachedOK'
    BY <1>1, <1>3, <1>6 DEF WrittenOK, SaveOK, CachedOK
  <1>8. SavedTogether'
    BY <1>1, SavedKept DEF Excused
  <1>9. CacheIsStored'
    BY <1>1, <1>2 DEF CacheIsStored, Stored
  <1>10. CallsOK' /\ DecisionsAgree'
    BY <1>1 DEF CallsOK, DecisionsAgree, Evaluating, NoReport
  <1> QED  BY <1>4, <1>5, <1>7, <1>8, <1>9, <1>10 DEF IInv

LEMMA CrashKeeps ==
    ASSUME IInv, Crash, httpd # "writing"
    PROVE  IInv'
  BY RestartKeeps DEF Crash, IInv, TypeOK, Excused, HalfWritten

LEMMA PowerLossKeeps == ASSUME IInv, PowerLoss PROVE IInv'
  <1>1. Restart /\ torn' = torn \cup {kind \in Kinds : HalfWritten(kind)}
    BY DEF PowerLoss
  <1>2. torn' \subseteq Kinds /\ \A kind \in Kinds : Excused(kind) => kind \in torn'
    BY <1>1 DEF Excused, IInv, TypeOK
  <1> QED  BY <1>1, <1>2, RestartKeeps
-----------------------------------------------------------------------------
(***************************************************************************)
(* post_handler                                                            *)
(***************************************************************************)
LEMMA RequestKeeps == ASSUME IInv, NEW f \in Forms, Request(f) PROVE IInv'
  <1>1. /\ httpd = "idle" /\ httpd' = "receiving" /\ form' = f /\ next' = 1
        /\ requests' \in 0 .. MaxRequests
        /\ UNCHANGED <<store, cache, report, observed, settled>>
    BY BoundsAssumption DEF Request, IInv, TypeOK, FormType
  <1>2. PICK kind \in Kinds : f \in [kind : {kind}, value : [KeysOf(kind) -> Nat \cup {Blank}]]
    BY FormsAssumption
  <1>3. f \in [kind : {kind}, value : [KeysOf(kind) -> Values]]
    BY <1>2, ValueFacts
  <1>4. FormType'
    BY <1>1, <1>3 DEF FormType
  <1>5. 1 \in DOMAIN Fields[kind] /\ f.kind = kind
    BY <1>3, KindFacts
  <1>6. TypeOK'
    BY <1>1, <1>3, <1>5 DEF IInv, TypeOK, store, observed
  <1>7. /\ WrittenKeys' = {} /\ CachedKeys' = {} /\ Pending' = {}
        /\ CachedKeys = {} /\ Pending = {}
    BY <1>1 DEF WrittenKeys, CachedKeys, Pending
  <1>a. SavedTogether'
    BY <1>1, SavedKept DEF Excused, HalfWritten, store, observed
  <1>8. ReportType' /\ WrittenOK' /\ SaveOK' /\ SavedTogether'
    BY <1>1, <1>7, <1>a
    DEF IInv, ReportType, WrittenOK, SaveOK, store, observed
  <1>9. CachedOK' /\ CacheIsStored'
    BY <1>1, <1>7
    DEF IInv, CachedOK, CacheIsStored, Stored, store, observed
  <1>10. CallsOK' /\ DecisionsAgree'
    BY <1>1 DEF IInv, CallsOK, Evaluating, DecisionsAgree
  <1> QED  BY <1>4, <1>6, <1>8, <1>9, <1>10 DEF IInv

\* What has come is a body; all that has come is the form posted.
LEMMA DecodedFacts ==
    ASSUME IInv, httpd = "receiving",
           NEW n \in 0 .. Len(Fields[form.kind]), NEW c \in {Absent(form.kind), Cut, Blank}
    PROVE  /\ Decoded(form, n, c) \in [KeysOf(form.kind) -> Values]
           /\ Decoded(form, n, c) \in Bodies[form.kind]
           /\ n = Len(Fields[form.kind]) => Decoded(form, n, c) = form.value
  <1>1. /\ form.kind \in Kinds /\ form \in FormsOf(form.kind)
        /\ form.value \in [KeysOf(form.kind) -> Values]
    BY FormFacts DEF IInv, FormType, FormsOf
  <1>2. Absent(form.kind) \in Values /\ c \in Values
    BY ValueFacts DEF Absent
  <1>3. Decoded(form, n, c) \in [KeysOf(form.kind) -> Values]
    BY <1>1, <1>2 DEF Decoded
  <1>4. ASSUME n = Len(Fields[form.kind]) PROVE Decoded(form, n, c) = form.value
    <2>1. \A k \in KeysOf(form.kind) : Position(form.kind, k) <= n
      BY <1>1, <1>4, KindFacts DEF Position
    <2>2. \A k \in KeysOf(form.kind) : Decoded(form, n, c)[k] = form.value[k]
      BY <2>1 DEF Decoded
    <2> QED  BY <1>1, <1>3, <2>2
  <1>5. Decoded(form, n, c) \in Bodies[form.kind]
    BY <1>1 DEF Bodies
  <1> QED  BY <1>3, <1>4, <1>5

LEMMA EndKeeps == ASSUME IInv, End PROVE IInv'
  <1>1. PICK n \in 0 .. Len(Fields[form.kind]), c \in {Absent(form.kind), Cut, Blank} :
            IF Accepted(Decoded(form, n, c))
            THEN /\ httpd' = "writing" /\ next' = 1
                 /\ form' = [form EXCEPT !.value = Decoded(form, n, c)]
                 /\ whole' = (n = Len(Fields[form.kind]))
                 /\ UNCHANGED <<store, cache, requests, report, settled>>
                 /\ UNCHANGED <<torn, behind, stale>>
            ELSE Crash
    BY DEF End
  <1> DEFINE v == Decoded(form, n, c)
  <1>2. CASE ~Accepted(v)
    BY <1>1, <1>2, CrashKeeps DEF End
  <1>3. CASE Accepted(v)
    <2>1. /\ httpd' = "writing" /\ next' = 1 /\ httpd = "receiving"
          /\ form' = [form EXCEPT !.value = v]
          /\ whole' = (n = Len(Fields[form.kind]))
          /\ UNCHANGED <<store, cache, requests, report, settled>>
          /\ UNCHANGED <<torn, behind, stale>>
      BY <1>1, <1>3 DEF End
    <2>2. /\ form.kind \in Kinds
          /\ form = [kind |-> form.kind, value |-> form.value]
          /\ v \in [KeysOf(form.kind) -> Values] /\ v \in Bodies[form.kind]
          /\ n = Len(Fields[form.kind]) => v = form.value
      BY <2>1, FormFacts, DecodedFacts DEF IInv
    <2>3. form' = [kind |-> form.kind, value |-> v]
      BY <2>1, <2>2
    <2> HIDE DEF v
    <2>4. FormType'
      BY <2>1, <2>2, <2>3 DEF FormType
    <2>5. 1 \in DOMAIN Fields[form.kind]
      BY <2>2, KindFacts
    <2>6. TypeOK'
      BY <2>1, <2>2, <2>3, <2>5 DEF IInv, TypeOK, store
    <2>7. WrittenKeys' = {} /\ CachedKeys' = {} /\ CachedKeys = {} /\ Pending = {}
      BY <2>1 DEF WrittenKeys, CachedKeys, Pending
    <2>8. SaveOK'
      <3>1. form'.kind = form.kind /\ form'.value = v
        BY <2>3
      <3>2. ASSUME whole' PROVE form' \in Forms
        BY <2>1, <2>2, <2>3, <3>2 DEF IInv, FormType
      <3>3. next' = 1 /\ ~(next' > 1)
        BY <2>1
      <3> QED  BY <2>2, <3>1, <3>2, <3>3 DEF SaveOK
    <2>a. SavedTogether'
      BY <2>1, SavedKept DEF Excused, HalfWritten, store
    <2>9. ReportType' /\ WrittenOK' /\ SavedTogether'
      BY <2>1, <2>7, <2>a DEF IInv, ReportType, WrittenOK, store
    <2>10. CachedOK' /\ CacheIsStored'
      BY <2>1, <2>7 DEF IInv, CachedOK, CacheIsStored, Stored, store
    <2>11. CallsOK' /\ DecisionsAgree'
      BY <2>1 DEF IInv, CallsOK, Evaluating, DecisionsAgree
    <2> QED  BY <2>4, <2>6, <2>8, <2>9, <2>10, <2>11 DEF IInv
  <1> QED  BY <1>2, <1>3
-----------------------------------------------------------------------------
(***************************************************************************)
(* set_limit, set_wlan_credentials, store_set_udp_server                   *)
(***************************************************************************)
LEMMA MeetsFacts ==
    ASSUME IInv, NEW f
    PROVE  /\ Meets(report, f).at = report.at
           /\ ~Evaluating => Meets(report, f) = report
           /\ Evaluating =>
                  /\ Meets(report, f) \in
                         [at : {"high", "low", "afterrun"}, pm : Levels, age : Ages,
                          calls : SUBSET Speeds]
                  /\ Meets(report, f).pm = report.pm
                  /\ Meets(report, f).age = report.age
                  /\ report.calls \subseteq Meets(report, f).calls
                  /\ f.kind = "limits" =>
                         Call(f.value, report.pm, report.age) \in Meets(report, f).calls
  <1>1. CASE ~Evaluating
    BY <1>1 DEF Meets, Evaluating
  <1>2. CASE Evaluating
    <2>1. report \in [at : {"high", "low", "afterrun"}, pm : Levels, age : Ages,
                      calls : SUBSET Speeds]
      BY <1>2 DEF IInv, ReportType, Evaluating, NoReport
    <2>2. CASE f.kind = "limits"
      <3> DEFINE s == Call(f.value, report.pm, report.age)
      <3>1. Meets(report, f) = [report EXCEPT !.calls = @ \cup {s}]
        BY <1>2, <2>2 DEF Meets, Evaluating
      <3>2. s \in Speeds
        BY CallType
      <3> HIDE DEF s
      <3>3. Meets(report, f) = [at |-> report.at, pm |-> report.pm,
                                age |-> report.age, calls |-> report.calls \cup {s}]
        BY <2>1, <3>1
      <3>4. report.calls \subseteq Speeds /\ s \in report.calls \cup {s}
        BY <2>1
      <3>5. /\ Meets(report, f).at = report.at
            /\ Meets(report, f).pm = report.pm
            /\ Meets(report, f).age = report.age
            /\ Meets(report, f).calls = report.calls \cup {s}
        BY <3>3
      <3>6. Meets(report, f) \in
                [at : {"high", "low", "afterrun"}, pm : Levels, age : Ages,
                 calls : SUBSET Speeds]
        BY <2>1, <3>2, <3>3, <3>4
      <3> QED  BY <1>2, <3>4, <3>5, <3>6 DEF s
    <2>3. CASE f.kind # "limits"
      BY <2>1, <2>3 DEF Meets
    <2> QED  BY <2>2, <2>3
  <1> QED  BY <1>1, <1>2

\* A report that meets a form, or not, keeps what is said of reports as long as
\* it meets those that take effect.
LEMMA MeetsKeeps ==
    ASSUME IInv, NEW f, report' \in {report, Meets(report, f)}, settled' = settled,
           httpd' \in {"caching", "saved"} =>
               \/ httpd \in {"caching", "saved"} /\ form' = form
               \/ report' = Meets(report, f) /\ form' = f
    PROVE  ReportType' /\ CallsOK' /\ DecisionsAgree' /\ report'.at = report.at
  <1>1. CASE ~Evaluating
    <2>1. report' = report
      BY <1>1, MeetsFacts
    <2> QED  BY <1>1, <2>1 DEF IInv, ReportType, CallsOK, DecisionsAgree, Evaluating
  <1>2. CASE Evaluating
    <2>1. /\ report'.at = report.at /\ Evaluating'
          /\ report' \in [at : {"high", "low", "afterrun"}, pm : Levels, age : Ages,
                           calls : SUBSET Speeds]
          /\ report'.pm = report.pm /\ report'.age = report.age
          /\ report.calls \subseteq report'.calls
      BY <1>2, MeetsFacts DEF IInv, ReportType, Evaluating, NoReport
    <2>2. Call(settled, report.pm, report.age) \in report.calls
      BY <1>2 DEF IInv, CallsOK
    <2>3. ASSUME httpd' \in {"caching", "saved"}, form'.kind = "limits"
          PROVE  Call(form'.value, report.pm, report.age) \in report'.calls
      <3>1. CASE httpd \in {"caching", "saved"} /\ form' = form
        BY <1>2, <2>1, <2>3, <3>1 DEF IInv, CallsOK
      <3>2. CASE report' = Meets(report, f) /\ form' = f
        BY <1>2, <2>3, <3>2, MeetsFacts
      <3> QED  BY <2>3, <3>1, <3>2
    <2>4. ASSUME NEW s, report.calls # {s} PROVE report'.calls # {s}
      BY <2>1, <2>2, <2>4
    <2>5. CallsOK'
      BY <1>2, <2>1, <2>2, <2>3, <2>4 DEF IInv, CallsOK
    <2> QED  BY <2>1, <2>5 DEF ReportType, DecisionsAgree
  <1> QED  BY <1>1, <1>2

\* One step on in the keys of a form.
LEMMA GoesFacts ==
    ASSUME IInv, httpd # "idle", NEW phase, phase # "idle", Goes(phase)
    PROVE  /\ form.kind \in Kinds /\ next \in 1 .. Len(Fields[form.kind])
           /\ next' \in DOMAIN Fields[form.kind]
           /\ \/ next = Len(Fields[form.kind]) /\ httpd' = phase /\ next' = 1
              \/ httpd' = httpd /\ next' = next + 1
  <1>1. form.kind \in Kinds /\ next \in 1 .. Len(Fields[form.kind])
    BY FormFacts, KindFacts DEF IInv, TypeOK
  <1> QED  BY <1>1, KindFacts DEF Goes

LEMMA PendingFacts ==
    ASSUME form.kind \in Kinds
    PROVE  /\ httpd = "writing" => Pending = KeysOf(form.kind)
           /\ httpd = "caching" =>
                  Pending = {Fields[form.kind][i] : i \in next .. Len(Fields[form.kind])}
           /\ httpd \in {"idle", "receiving", "saved"} => Pending = {}
  BY DEF Pending, KeysOf

LEMMA WriteKeeps == ASSUME IInv, Write PROVE IInv'
  <1> DEFINE kind == form.kind
             k == Writes[kind][next]
  <1>1. /\ httpd = "writing" /\ Goes("caching")
        /\ report' = IF httpd' = "caching" THEN Meets(report, form) ELSE report
        /\ UNCHANGED <<mounted, cache, form, requests, settled>>
        /\ Observed
    BY DEF Write, Writing
  <1>2. \/ /\ flash' = [flash EXCEPT ![k] = form.value[k]]
           /\ stale' = stale \ {k} /\ behind' = Left \ {k}
           /\ UNCHANGED <<whole, faults>>
        \/ /\ WriteFails
           /\ stale' = stale \cup {k} /\ behind' = Left \cup {k}
           /\ whole' = FALSE
           /\ UNCHANGED flash
    BY DEF Write, Writing
  <1>3. /\ kind \in Kinds /\ next \in 1 .. Len(Fields[kind])
        /\ next' \in DOMAIN Fields[kind]
        /\ \/ next = Len(Fields[kind]) /\ httpd' = "caching" /\ next' = 1
           \/ httpd' = "writing" /\ next' = next + 1
    BY <1>1, GoesFacts
  <1>a. /\ DOMAIN Fields[kind] = 1 .. Len(Fields[kind]) /\ Len(Fields[kind]) \in Nat
        /\ \A i \in 1 .. Len(Fields[kind]) :
               Fields[kind][i] \in KeysOf(kind) /\ Writes[kind][i] \in KeysOf(kind)
        /\ \A x \in KeysOf(kind) : \E i \in 1 .. Len(Fields[kind]) : Writes[kind][i] = x
        /\ KeysOf(kind) \subseteq Keys
    BY <1>3, KindFacts
  <1>4. k \in KeysOf(kind) /\ k \in Keys /\ KeysOf(kind) \subseteq Keys
    BY <1>3, KindFacts
  <1>5. /\ form.value \in [KeysOf(kind) -> Values] /\ form.value[k] \in Values
        /\ form = [kind |-> kind, value |-> form.value]
    BY <1>1, <1>4, FormFacts DEF IInv
  <1>6. /\ flash' \in [Keys -> Values \cup {Missing}]
        /\ \A x \in Keys \ {k} : flash'[x] = flash[x] /\ (x \in stale' <=> x \in stale)
        /\ (k \in stale' \cap behind' /\ ~whole') \/ flash'[k] = form.value[k]
        /\ \A x : x # k => (x \in behind' <=> x \in Left)
        /\ behind' \subseteq Keys
        /\ whole' => whole
        /\ faults' \in 0 .. MaxFaults /\ whole' \in BOOLEAN /\ stale' \subseteq Keys
    <2>1. flash \in [Keys -> Values \cup {Missing}] /\ whole \in BOOLEAN
          /\ stale \subseteq Keys /\ faults \in 0 .. MaxFaults
      BY DEF IInv, TypeOK
    <2>2. WriteFails => faults' \in 0 .. MaxFaults
      BY <2>1, BoundsAssumption DEF WriteFails
    <2>b. Left \subseteq Keys
      BY <1>4 DEF Left, IInv, TypeOK
    <2> HIDE DEF k
    <2>3. CASE /\ flash' = [flash EXCEPT ![k] = form.value[k]]
               /\ stale' = stale \ {k} /\ behind' = Left \ {k}
               /\ UNCHANGED <<whole, faults>>
      <3>1. flash'[k] = form.value[k] /\ stale' \subseteq Keys
        BY <1>4, <2>1, <2>3
      <3>2. flash' \in [Keys -> Values \cup {Missing}]
        BY <1>4, <1>5, <2>1, <2>3
      <3>3. \A x \in Keys \ {k} : flash'[x] = flash[x] /\ (x \in stale' <=> x \in stale)
        BY <2>1, <2>3
      <3>4. /\ whole' = whole /\ faults' = faults /\ behind' \subseteq Keys
            /\ \A x : x # k => (x \in behind' <=> x \in Left)
        BY <2>b, <2>3
      <3> QED  BY <2>1, <3>1, <3>2, <3>3, <3>4
    <2>4. CASE /\ WriteFails
               /\ stale' = stale \cup {k} /\ behind' = Left \cup {k}
               /\ whole' = FALSE
               /\ UNCHANGED flash
      <3>a. behind' \subseteq Keys /\ \A x : x # k => (x \in behind' <=> x \in Left)
        BY <1>4, <2>b, <2>4
      <3>1. k \in stale' \cap behind' /\ ~whole' /\ whole' \in BOOLEAN /\ stale' \subseteq Keys
        BY <1>4, <2>1, <2>4
      <3>2. \A x \in Keys \ {k} : flash'[x] = flash[x] /\ (x \in stale' <=> x \in stale)
        BY <2>1, <2>4
      <3> QED  BY <2>1, <2>2, <2>4, <3>a, <3>1, <3>2
    <2> QED  BY <1>2, <2>3, <2>4
  <1> HIDE DEF k
  <1>7. TypeOK'
    <2>1. report'.at = report.at
      BY <1>1, MeetsFacts
    <2>2. torn' \subseteq Kinds
      BY <1>1, <1>3 DEF Observed, IInv, TypeOK
    <2> QED  BY <1>1, <1>3, <1>5, <1>6, <2>1, <2>2 DEF IInv, TypeOK
  <1>8. FormType'
    BY <1>1, <1>3 DEF IInv, FormType
  <1>9. WrittenKeys' \subseteq WrittenKeys \cup {k} /\ WrittenKeys' \subseteq Keys
    <2>1. WrittenKeys = {Writes[kind][i] : i \in 1 .. next - 1}
      BY <1>1 DEF WrittenKeys
    <2>2. ASSUME NEW x \in KeysOf(kind), next = Len(Fields[kind])
          PROVE  x \in WrittenKeys \cup {k}
      <3>1. PICK i \in 1 .. next : Writes[kind][i] = x
        BY <1>a, <1>3, <2>2
      <3>2. i \in 1 .. next - 1 \/ i = next
        BY <1>3
      <3> QED  BY <2>1, <3>1, <3>2 DEF k
    <2>3. CASE httpd' = "caching"
      BY <1>1, <1>3, <1>4, <2>2, <2>3 DEF WrittenKeys
    <2>4. CASE httpd' = "writing" /\ next' = next + 1
      <3>1. WrittenKeys' = {Writes[kind][i] : i \in 1 .. next}
        BY <1>1, <1>3, <2>4 DEF WrittenKeys
      <3>2. ASSUME NEW i \in 1 .. next
            PROVE  Writes[kind][i] \in (WrittenKeys \cup {k}) \cap Keys
        <4>1. Writes[kind][i] \in Keys
          <5>1. i \in 1 .. Len(Fields[kind])
            BY <1>a, <1>3
          <5>2. Writes[kind][i] \in KeysOf(kind)
            BY <1>a, <5>1
          <5> QED  BY <1>a, <5>2
        <4>2. i \in 1 .. next - 1 \/ i = next
          BY <1>3
        <4> QED  BY <2>1, <4>1, <4>2 DEF k
      <3> QED  BY <3>1, <3>2
    <2> QED  BY <1>3, <2>3, <2>4
  <1>10. WrittenOK'
    <2> SUFFICES ASSUME NEW x \in WrittenKeys'
                 PROVE  \/ x \in stale' \cap behind' /\ ~whole'
                        \/ flash'[x] = form.value[x]
      BY <1>1 DEF WrittenOK
    <2>1. CASE x = k
      BY <1>6, <2>1
    <2>2. CASE x # k
      <3>1. x \in WrittenKeys /\ x \in Keys /\ behind \subseteq Left
        BY <1>9, <2>2 DEF Left
      <3> QED  BY <1>6, <2>2, <3>1 DEF IInv, WrittenOK
    <2> QED  BY <2>1, <2>2
  <1>b. k \in WrittenKeys' /\ WrittenKeys \subseteq WrittenKeys'
    <2>1. WrittenKeys = {Writes[kind][i] : i \in 1 .. next - 1}
      BY <1>1 DEF WrittenKeys
    <2>2. CASE httpd' = "caching"
      <3>1. WrittenKeys' = KeysOf(kind)
        BY <1>1, <2>2 DEF WrittenKeys
      <3>2. \A i \in 1 .. next - 1 : i \in 1 .. Len(Fields[kind])
        BY <1>a, <1>3
      <3> QED  BY <1>a, <1>4, <2>1, <3>1, <3>2
    <2>3. CASE httpd' = "writing" /\ next' = next + 1
      <3>1. WrittenKeys' = {Writes[kind][i] : i \in 1 .. next}
        BY <1>1, <1>3, <2>3 DEF WrittenKeys
      <3>2. next \in 1 .. next /\ \A i \in 1 .. next - 1 : i \in 1 .. next
        BY <1>3
      <3> QED  BY <2>1, <3>1, <3>2 DEF k
    <2> QED  BY <1>3, <2>2, <2>3
  <1>c. KeysOf(kind) \ behind' \subseteq WrittenKeys'
    <2> SUFFICES ASSUME NEW x \in KeysOf(kind) \ behind', x # k
                 PROVE  x \in WrittenKeys'
      BY <1>b
    <2>1. x \notin Left
      BY <1>6
    <2>2. next > 1 /\ x \notin behind
      BY <1>3, <2>1 DEF Left
    <2>3. x \in WrittenKeys
      BY <1>1, <2>2 DEF IInv, SaveOK
    <2> QED  BY <1>b, <2>3
  <1>11. SaveOK'
    <2>1. form.value \in Bodies[kind] /\ (whole => form \in Forms)
      BY <1>1 DEF IInv, SaveOK
    <2> QED  BY <1>1, <1>6, <1>c, <2>1 DEF SaveOK
  <1>12. SavedTogether'
    <2> SUFFICES ASSUME NEW other \in Kinds PROVE KindSaved(other)'
      BY DEF SavedTogether, KindSaved, Posted, Reached, Together, Excused
    <2>1. KindSaved(other)
      BY SavedIs DEF IInv
    <2>2. CASE other # kind
      <3>1. \A x \in KeysOf(other) : flash'[x] = flash[x] /\ (x \in behind' <=> x \in behind)
        <4>1. KeysOf(other) \subseteq Keys /\ KeysOf(kind) \cap KeysOf(other) = {}
          BY <1>3, <2>2, KindsApart, KindFacts
        <4> QED  BY <1>4, <1>6, <4>1 DEF Left
      <3>2. Posted(other)' /\ Reached(other)' /\ (Together(other) => Together(other)')
        BY <2>1, <3>1 DEF KindSaved, Posted, Reached, Together, OfOne
      <3>3. Excused(other) => Excused(other)'
        BY <1>1, <2>2 DEF Excused, HalfWritten, Observed
      <3> QED  BY <2>1, <3>2, <3>3 DEF KindSaved
    <2>3. CASE other = kind
      <3>1. form.value \in Bodies[other]
        BY <1>1, <2>3 DEF IInv, SaveOK
      <3>2. Posted(other)'
        <4> SUFFICES ASSUME NEW x \in KeysOf(other)
                     PROVE  OfOne({x}, Bodies[other])'
          BY DEF Posted
        <4>1. flash'[x] = flash[x] \/ flash'[x] = form.value[x]
          <5>1. CASE x = k
            BY <1>2, <1>4, <5>1 DEF IInv, TypeOK
          <5>2. CASE x # k
            BY <1>4, <1>6, <2>3, <5>2
          <5> QED  BY <5>1, <5>2
        <4>2. OfOne({x}, Bodies[other])
          BY <2>1 DEF KindSaved, Posted
        <4> QED  BY <3>1, <4>1, <4>2 DEF OfOne
      <3>3. Reached(other)'
        <4>1. \A x \in KeysOf(other) \ behind' : flash'[x] = form.value[x]
          BY <1>1, <1>c, <1>10, <2>3 DEF WrittenOK
        <4> QED  BY <3>1, <4>1 DEF Reached, OfOne
      <3>4. Excused(other)' \/ Together(other)'
        <4>1. CASE ~whole'
          BY <1>1, <2>3, <4>1 DEF Observed, Excused
        <4>2. CASE httpd' = "writing"
          BY <1>1, <1>3, <2>3, <4>2 DEF Excused, HalfWritten
        <4>3. CASE whole' /\ httpd' = "caching"
          <5>1. form \in FormsOf(other)
            BY <1>1, <1>6, <2>3, <4>3 DEF IInv, SaveOK, FormsOf
          <5>2. WrittenKeys' = KeysOf(other)
            BY <1>1, <2>3, <4>3 DEF WrittenKeys
          <5>3. \A x \in KeysOf(other) : flash'[x] = form.value[x]
            BY <1>1, <1>10, <4>3, <5>2 DEF WrittenOK
          <5> QED  BY <5>1, <5>3 DEF Together, OfOne
        <4> QED  BY <1>3, <4>1, <4>2, <4>3
      <3> QED  BY <3>2, <3>3, <3>4 DEF KindSaved
    <2> QED  BY <2>2, <2>3
  <1>13. CachedKeys' = {} /\ CachedKeys = {}
    BY <1>1, <1>3 DEF CachedKeys
  <1>14. CachedOK'
    BY <1>1, <1>13 DEF IInv, CachedOK
  <1>15. Pending = KeysOf(kind) /\ Pending' = KeysOf(kind)
    <2>1. Pending = KeysOf(kind)
      BY <1>1, <1>3, PendingFacts
    <2>2. CASE httpd' = "writing"
      BY <1>1, <2>2 DEF Pending, KeysOf
    <2>3. CASE httpd' = "caching" /\ next' = 1
      <3>1. Pending' = {Fields[kind][i] : i \in 1 .. Len(Fields[kind])}
        BY <1>1, <2>3 DEF Pending
      <3>2. KeysOf(kind) = {Fields[kind][i] : i \in 1 .. Len(Fields[kind])}
        BY <1>a DEF KeysOf
      <3> QED  BY <2>1, <3>1, <3>2
    <2> QED  BY <1>3, <2>1, <2>2, <2>3
  <1>16. CacheIsStored'
    BY <1>1, <1>4, <1>6, <1>15 DEF IInv, CacheIsStored, Stored
  <1>17. ReportType' /\ CallsOK' /\ DecisionsAgree'
    BY <1>1, <1>3, MeetsKeeps
  <1> QED
    BY <1>7, <1>8, <1>10, <1>11, <1>12, <1>14, <1>16, <1>17 DEF IInv

LEMMA CacheKeeps == ASSUME IInv, Cache PROVE IInv'
  <1> DEFINE kind == form.kind
             k == Fields[kind][next]
  <1>1. /\ httpd = "caching" /\ Goes("saved")
        /\ cache' = [cache EXCEPT ![k] = form.value[k]]
        /\ UNCHANGED <<store, form, requests, report, observed, settled>>
    BY DEF Cache
  <1>2. /\ kind \in Kinds /\ next \in 1 .. Len(Fields[kind])
        /\ next' \in DOMAIN Fields[kind]
        /\ \/ next = Len(Fields[kind]) /\ httpd' = "saved" /\ next' = 1
           \/ httpd' = "caching" /\ next' = next + 1
    BY <1>1, GoesFacts
  <1>a. /\ DOMAIN Fields[kind] = 1 .. Len(Fields[kind]) /\ Len(Fields[kind]) \in Nat
        /\ \A i \in 1 .. Len(Fields[kind]) :
               Fields[kind][i] \in KeysOf(kind) /\ Writes[kind][i] \in KeysOf(kind)
        /\ \A x \in KeysOf(kind) : \E i \in 1 .. Len(Fields[kind]) : Writes[kind][i] = x
        /\ KeysOf(kind) \subseteq Keys
    BY <1>2, KindFacts
  <1>3. k \in KeysOf(kind) /\ k \in Keys /\ KeysOf(kind) \subseteq Keys
    BY <1>2, KindFacts
  <1>4. /\ form.value \in [KeysOf(kind) -> Values] /\ form.value[k] \in Values
    BY <1>1, <1>3, FormFacts DEF IInv
  <1>5. /\ cache' \in [Keys -> Values] /\ cache'[k] = form.value[k]
        /\ \A x \in Keys \ {k} : cache'[x] = cache[x]
    BY <1>1, <1>3, <1>4 DEF IInv, TypeOK
  <1> HIDE DEF k
  <1>6. TypeOK'
    BY <1>1, <1>2, <1>5 DEF IInv, TypeOK, store, observed
  <1>b. SavedTogether'
    BY <1>1, SavedKept DEF Excused, HalfWritten, store, observed
  <1>7. FormType' /\ ReportType' /\ SaveOK' /\ SavedTogether'
    BY <1>1, <1>2, <1>b
    DEF IInv, FormType, ReportType, SaveOK, store, observed
  <1>8. WrittenKeys = KeysOf(kind) /\ WrittenKeys' = KeysOf(kind)
    BY <1>1, <1>2 DEF WrittenKeys
  <1>9. WrittenOK'
    BY <1>1, <1>8 DEF IInv, WrittenOK, store, observed
  <1>10. /\ CachedKeys' = CachedKeys \cup {k}
         /\ CachedKeys \subseteq KeysOf(kind)
    <2>1. CachedKeys = {Fields[kind][i] : i \in 1 .. next - 1}
      BY <1>1 DEF CachedKeys
    <2>2. {Fields[kind][i] : i \in 1 .. next} = CachedKeys \cup {k}
      <3>1. \A i \in 1 .. next : i \in 1 .. next - 1 \/ i = next
        BY <1>2
      <3>2. next \in 1 .. next /\ \A i \in 1 .. next - 1 : i \in 1 .. next
        BY <1>2
      <3> QED  BY <2>1, <3>1, <3>2 DEF k
    <2>3. CachedKeys' = {Fields[kind][i] : i \in 1 .. next}
      <3>1. CASE httpd' = "caching" /\ next' = next + 1
        BY <1>1, <1>2, <3>1 DEF CachedKeys
      <3>2. CASE httpd' = "saved" /\ next = Len(Fields[kind])
        <4>1. CachedKeys' = KeysOf(kind)
          BY <1>1, <3>2 DEF CachedKeys
        <4> QED  BY <1>a, <1>2, <3>2, <4>1 DEF KeysOf
      <3> QED  BY <1>2, <3>1, <3>2
    <2>4. CachedKeys \subseteq KeysOf(kind)
      <3>1. \A i \in 1 .. next - 1 : i \in 1 .. Len(Fields[kind])
        BY <1>a, <1>2
      <3>2. \A i \in 1 .. next - 1 : Fields[kind][i] \in KeysOf(kind)
        BY <1>a, <3>1
      <3> QED  BY <2>1, <3>2
    <2> QED  BY <2>2, <2>3, <2>4
  <1>11. CachedOK'
    <2>1. ASSUME NEW x \in CachedKeys' PROVE cache'[x] = form.value[x]
      <3>1. CASE x = k
        BY <1>5, <3>1
      <3>2. CASE x # k
        BY <1>3, <1>5, <1>10, <2>1, <3>2 DEF IInv, CachedOK
      <3> QED  BY <3>1, <3>2
    <2>2. ASSUME NEW x \in Limits \ CachedKeys' PROVE cache'[x] = settled[x]
      BY <1>5, <1>10, <2>2, LimitsFacts DEF IInv, CachedOK
    <2> QED  BY <1>1, <2>1, <2>2 DEF CachedOK
  <1>12. Pending \subseteq Pending' \cup {k}
    <2>1. Pending = {Fields[kind][i] : i \in next .. Len(Fields[kind])}
      BY <1>1, <1>2, PendingFacts
    <2>2. CASE httpd' = "caching" /\ next' = next + 1
      <3>1. Pending' = {Fields[kind][i] : i \in next + 1 .. Len(Fields[kind])}
        BY <1>1, <2>2 DEF Pending
      <3>2. \A i \in next .. Len(Fields[kind]) :
                i = next \/ i \in next + 1 .. Len(Fields[kind])
        BY <1>a, <1>2
      <3> QED  BY <2>1, <3>1, <3>2 DEF k
    <2>3. CASE next = Len(Fields[kind])
      <3>1. \A i \in next .. Len(Fields[kind]) : i = next
        BY <1>2, <2>3
      <3> QED  BY <2>1, <3>1 DEF k
    <2> QED  BY <1>2, <2>2, <2>3
  <1>13. CacheIsStored'
    <2> SUFFICES ASSUME NEW x \in Keys \ (stale \cup Pending')
                 PROVE  cache'[x] = Stored(x)
      BY <1>1 DEF CacheIsStored, Stored, store, observed
    <2>1. CASE x = k
      <3>1. flash[k] = form.value[k]
        BY <1>3, <1>8, <2>1 DEF IInv, WrittenOK
      <3> QED  BY <1>4, <1>5, <2>1, <3>1, ValueFacts DEF Stored
    <2>2. CASE x # k
      BY <1>5, <1>12, <2>2 DEF IInv, CacheIsStored
    <2> QED  BY <2>1, <2>2
  <1>14. CallsOK' /\ DecisionsAgree'
    BY <1>1, <1>2 DEF IInv, CallsOK, DecisionsAgree, Evaluating
  <1> QED  BY <1>6, <1>7, <1>9, <1>11, <1>13, <1>14 DEF IInv

\* Limits that are the same call for the same.
LEMMA CallSame ==
    ASSUME NEW l, NEW m, NEW pm, NEW age, \A k \in Limits : l[k] = m[k]
    PROVE  Call(l, pm, age) = Call(m, pm, age)
  <1>1. /\ l["low_limit"] = m["low_limit"] /\ l["high_limit"] = m["high_limit"]
        /\ l["afterrun"] = m["afterrun"]
    BY LimitsFacts
  <1> QED  BY <1>1 DEF Call

LEMMA AnswerKeeps == ASSUME IInv, Answer PROVE IInv'
  <1>1. /\ httpd = "saved" /\ httpd' = "idle" /\ form' = NoForm
        /\ settled' = [k \in Limits |-> cache[k]] /\ whole' = TRUE
        /\ UNCHANGED <<store, cache, next, requests, report, torn, behind, stale>>
    BY DEF Answer
  <1>2. /\ settled' \in [Limits -> Values]
        /\ \A k \in Limits : settled'[k] = cache[k]
    BY <1>1, LimitsFacts DEF IInv, TypeOK
  <1>4. TypeOK'
    BY <1>1, <1>2 DEF IInv, TypeOK, store
  <1>5. FormType' /\ ReportType' /\ SaveOK'
    BY <1>1 DEF IInv, FormType, ReportType, SaveOK
  <1>6. WrittenKeys' = {} /\ CachedKeys' = {} /\ Pending = {}
        /\ CachedKeys = KeysOf(form.kind)
    BY <1>1 DEF WrittenKeys, CachedKeys, Pending
  <1>7. SavedTogether'
    BY <1>1, SavedKept DEF Excused, HalfWritten, store
  <1>8. WrittenOK' /\ CachedOK' /\ CacheIsStored'
    BY <1>1, <1>2, <1>6
    DEF IInv, WrittenOK, CachedOK, CacheIsStored, Stored, store
  <1>9. ASSUME Evaluating
        PROVE  Call(settled', report.pm, report.age) \in report.calls
    <2>1. form.kind \in Kinds
      BY <1>1, FormFacts DEF IInv
    <2>2. CASE form.kind = "limits"
      <3>1. \A k \in Limits : settled'[k] = form.value[k]
        BY <1>2, <1>6, <2>2 DEF IInv, CachedOK, Limits
      <3>2. Call(settled', report.pm, report.age) = Call(form.value, report.pm, report.age)
        BY <3>1, CallSame
      <3> QED  BY <1>1, <1>9, <2>2, <3>2 DEF IInv, CallsOK
    <2>3. CASE form.kind # "limits"
      <3>1. \A k \in Limits : settled'[k] = settled[k]
        BY <1>2, <1>6, <2>1, <2>3, KindsApart, LimitsFacts DEF IInv, CachedOK, Limits
      <3>2. Call(settled', report.pm, report.age) = Call(settled, report.pm, report.age)
        BY <3>1, CallSame
      <3> QED  BY <1>9, <3>2 DEF IInv, CallsOK
    <2> QED  BY <2>2, <2>3
  <1>10. CallsOK' /\ DecisionsAgree'
    BY <1>1, <1>9 DEF IInv, CallsOK, DecisionsAgree, Evaluating
  <1> QED  BY <1>4, <1>5, <1>7, <1>8, <1>10 DEF IInv

LEMMA RestartWithCredentialsKeeps ==
    ASSUME IInv, RestartWithCredentials PROVE IInv'
  BY CrashKeeps DEF RestartWithCredentials
-----------------------------------------------------------------------------
(***************************************************************************)
(* update_state_for_pm_25                                                  *)
(***************************************************************************)

\* Every limit a report can read is one of limits whose call it knows.
LEMMA LimitsMet ==
    ASSUME IInv, Evaluating, NEW k \in Limits
    PROVE  \E l \in [Limits -> Values] :
               /\ l[k] = cache[k]
               /\ Call(l, report.pm, report.age) \in report.calls
  <1>1. CASE k \notin CachedKeys
    BY <1>1 DEF IInv, TypeOK, CachedOK, CallsOK
  <1>2. CASE k \in CachedKeys
    <2>1. httpd \in {"caching", "saved"} /\ httpd # "idle"
      BY <1>2 DEF CachedKeys
    <2>2. form.kind \in Kinds /\ form.value \in [KeysOf(form.kind) -> Values]
      BY <2>1, FormFacts DEF IInv
    <2>3. k \in KeysOf(form.kind)
      <3>1. CASE httpd = "saved"
        BY <1>2, <3>1 DEF CachedKeys
      <3>2. CASE httpd = "caching"
        <4>1. PICK i \in 1 .. next - 1 : k = Fields[form.kind][i]
          BY <1>2, <3>2 DEF CachedKeys
        <4>2. next \in 1 .. Len(Fields[form.kind]) /\ Len(Fields[form.kind]) \in Nat
          BY <2>1, <2>2, KindFacts DEF IInv, TypeOK
        <4>3. i \in DOMAIN Fields[form.kind]
          BY <2>2, <4>2, KindFacts
        <4> QED  BY <2>2, <4>1, <4>3, KindFacts
      <3> QED  BY <2>1, <3>1, <3>2
    <2>4. form.kind = "limits"
      BY <2>2, <2>3, KindsApart, LimitsFacts DEF Limits
    <2>5. form.value \in [Limits -> Values] /\ form.value[k] = cache[k]
      BY <1>2, <2>2, <2>4 DEF IInv, CachedOK, Limits
    <2>6. Call(form.value, report.pm, report.age) \in report.calls
      BY <2>1, <2>4 DEF IInv, CallsOK
    <2> QED  BY <2>5, <2>6
  <1> QED  BY <1>1, <1>2

LEMMA ReportKeeps ==
    ASSUME IInv, NEW pm \in Levels, NEW age \in Ages, Report(pm, age)
    PROVE  IInv'
  <1> DEFINE s == Call(settled, pm, age)
             t == Call(form.value, pm, age)
             Taking == httpd \in {"caching", "saved"} /\ form.kind = "limits"
  <1>1. UNCHANGED <<store, cache, request, observed, settled>>
    BY DEF Report
  <1>2. report' = [at |-> "high", pm |-> pm, age |-> age,
                   calls |-> {s} \cup (IF Taking THEN {t} ELSE {})]
    <2> DEFINE r == [at |-> "high", pm |-> pm, age |-> age, calls |-> {s}]
    <2>1. report' = IF httpd \in {"caching", "saved"} THEN Meets(r, form) ELSE r
      BY DEF Report
    <2>2. CASE Taking
      <3>1. Meets(r, form) = [r EXCEPT !.calls = @ \cup {t}]
        BY <2>2 DEF Meets
      <3> HIDE DEF s, t
      <3> QED  BY <2>1, <2>2, <3>1
    <2>3. CASE ~Taking
      <3>1. report' = r
        BY <2>1, <2>3 DEF Meets
      <3> HIDE DEF s, t
      <3> QED  BY <2>3, <3>1
    <2> QED  BY <2>2, <2>3
  <1>3. s \in Speeds /\ t \in Speeds
    BY CallType
  <1>4. ReportType' /\ report'.at = "high"
    <2> HIDE DEF s, t, Taking
    <2> QED  BY <1>2, <1>3 DEF ReportType
  <1>5. CallsOK'
    <2>1. /\ report'.pm = pm /\ report'.age = age /\ s \in report'.calls
          /\ Taking => t \in report'.calls
      <3> HIDE DEF s, t, Taking
      <3> QED  BY <1>2
    <2> QED  BY <1>1, <1>4, <2>1 DEF CallsOK, Evaluating, request
  <1>6. DecisionsAgree'
    BY <1>4 DEF DecisionsAgree
  <1>7. TypeOK'
    BY <1>1, <1>4 DEF IInv, TypeOK, store, request, observed
  <1>a. SavedTogether'
    BY <1>1, SavedKept DEF Excused, HalfWritten, store, request, observed
  <1>8. /\ FormType' /\ WrittenOK' /\ SaveOK' /\ SavedTogether'
        /\ CachedOK' /\ CacheIsStored'
    BY <1>1, <1>a
    DEF IInv, FormType, WrittenOK, WrittenKeys, SaveOK, CachedOK,
        CachedKeys, CacheIsStored, Pending, Stored, store, request, observed
  <1> QED  BY <1>4, <1>5, <1>6, <1>7, <1>8 DEF IInv

\* A limit that is read calls for its speed, or the next one is read.
LEMMA ReadsKeeps ==
    ASSUME IInv, NEW from \in {"high", "low", "afterrun"},
           NEW to \in {"low", "afterrun"}, NEW called, NEW speed \in Speeds,
           Reads(from, to, called, speed), called \/ from # "afterrun",
           to = "afterrun" => from = "low",
           called => \A s \in report.calls : report.calls = {s} => speed = s,
           ~called => report.calls # {"high"},
           ~called /\ to = "afterrun" => report.calls # {"low"}
    PROVE  IInv'
  <1>1. /\ report.at = from /\ Evaluating
        /\ report' = IF called
                     THEN [at |-> "decided", speed |-> speed, calls |-> report.calls]
                     ELSE [report EXCEPT !.at = to]
        /\ UNCHANGED <<store, cache, request, observed, settled>>
    BY DEF Reads, Evaluating
  <1>2. report \in [at : {"high", "low", "afterrun"}, pm : Levels, age : Ages,
                    calls : SUBSET Speeds]
    BY <1>1 DEF IInv, ReportType, NoReport, Evaluating
  <1>3. ReportType' /\ CallsOK' /\ DecisionsAgree' /\ report'.at \in {"decided", to}
    <2>1. CASE called
      <3>1. report' = [at |-> "decided", speed |-> speed, calls |-> report.calls]
        BY <1>1, <2>1
      <3>2. report'.at = "decided" /\ report'.speed = speed
            /\ report'.calls = report.calls
        BY <3>1
      <3>3. ReportType'
        BY <1>2, <3>1 DEF ReportType
      <3> QED  BY <2>1, <3>2, <3>3 DEF CallsOK, DecisionsAgree, Evaluating
    <2>2. CASE ~called
      <3>1. report' = [at |-> to, pm |-> report.pm, age |-> report.age,
                       calls |-> report.calls]
        BY <1>1, <1>2, <2>2
      <3>2. /\ report'.at = to /\ report'.pm = report.pm /\ report'.age = report.age
            /\ report'.calls = report.calls
        BY <3>1
      <3>3. ReportType'
        BY <1>2, <3>1 DEF ReportType
      <3> QED
        BY <1>1, <2>2, <3>2, <3>3
        DEF IInv, CallsOK, DecisionsAgree, Evaluating, request
    <2> QED  BY <2>1, <2>2
  <1>4. TypeOK'
    BY <1>1, <1>3 DEF IInv, TypeOK, store, request, observed
  <1>a. SavedTogether'
    BY <1>1, SavedKept DEF Excused, HalfWritten, store, request, observed
  <1>5. /\ FormType' /\ WrittenOK' /\ SaveOK' /\ SavedTogether'
        /\ CachedOK' /\ CacheIsStored'
    BY <1>1, <1>a
    DEF IInv, FormType, WrittenOK, WrittenKeys, SaveOK, CachedOK,
        CachedKeys, CacheIsStored, Pending, Stored, store, request, observed
  <1> QED  BY <1>3, <1>4, <1>5 DEF IInv

\* The level and the age of a report are numbers.
LEMMA ReportInts ==
    ASSUME IInv, Evaluating
    PROVE  report.pm \in Int /\ report.age \in Int
  BY ReportsAssumption DEF IInv, ReportType, NoReport, Evaluating

LEMMA ReadHighKeeps == ASSUME IInv, ReadHigh PROVE IInv'
  <1>1. report.at = "high" /\ Evaluating
    BY DEF ReadHigh, Reads, Evaluating
  <1>2. PICK l \in [Limits -> Values] :
            /\ l["high_limit"] = cache["high_limit"]
            /\ Call(l, report.pm, report.age) \in report.calls
    BY <1>1, LimitsMet, LimitsFacts
  <1>3. /\ report.pm \in Int /\ l["high_limit"] \in Int /\ l["low_limit"] \in Int
    BY <1>1, ReportInts, IntsOfLimits
  <1>4. report.pm >= cache["high_limit"] => Call(l, report.pm, report.age) = "high"
    BY <1>2, <1>3 DEF Call
  <1>5. ~(report.pm >= cache["high_limit"]) => Call(l, report.pm, report.age) # "high"
    BY <1>2, <1>3 DEF Call
  <1> DEFINE s == Call(l, report.pm, report.age)
             called == report.pm >= cache["high_limit"]
  <1>6. Reads("high", "low", called, "high")
    BY DEF ReadHigh
  <1> HIDE DEF s, called
  <1>7. called => \A x \in report.calls : report.calls = {x} => "high" = x
    BY <1>2, <1>4 DEF s, called
  <1>8. ~called => report.calls # {"high"}
    BY <1>2, <1>5 DEF s, called
  <1> QED  BY <1>6, <1>7, <1>8, ReadsKeeps DEF Speeds

LEMMA ReadLowKeeps == ASSUME IInv, ReadLow PROVE IInv'
  <1>1. report.at = "low" /\ Evaluating
    BY DEF ReadLow, Reads, Evaluating
  <1>2. PICK l \in [Limits -> Values] :
            /\ l["low_limit"] = cache["low_limit"]
            /\ Call(l, report.pm, report.age) \in report.calls
    BY <1>1, LimitsMet, LimitsFacts
  <1>3. /\ report.pm \in Int /\ l["high_limit"] \in Int /\ l["low_limit"] \in Int
    BY <1>1, ReportInts, IntsOfLimits
  <1>4. report.pm >= cache["low_limit"] =>
            Call(l, report.pm, report.age) \in {"high", "low"}
    BY <1>2, <1>3 DEF Call
  <1>5. ~(report.pm >= cache["low_limit"]) => Call(l, report.pm, report.age) # "low"
    BY <1>2, <1>3 DEF Call
  <1>6. report.calls # {"high"}
    BY <1>1 DEF IInv, CallsOK
  <1> DEFINE s == Call(l, report.pm, report.age)
             called == report.pm >= cache["low_limit"]
  <1>7. Reads("low", "afterrun", called, "low")
    BY DEF ReadLow
  <1> HIDE DEF s, called
  <1>8. called => \A x \in report.calls : report.calls = {x} => "low" = x
    BY <1>2, <1>4, <1>6 DEF s, called
  <1>9. ~called => report.calls # {"low"}
    BY <1>2, <1>5 DEF s, called
  <1> QED  BY <1>6, <1>7, <1>8, <1>9, ReadsKeeps DEF Speeds

LEMMA ReadAfterrunKeeps == ASSUME IInv, ReadAfterrun PROVE IInv'
  <1>1. report.at = "afterrun" /\ Evaluating
    BY DEF ReadAfterrun, Reads, Evaluating
  <1>2. PICK l \in [Limits -> Values] :
            /\ l["afterrun"] = cache["afterrun"]
            /\ Call(l, report.pm, report.age) \in report.calls
    BY <1>1, LimitsMet, LimitsFacts
  <1> DEFINE s == Call(l, report.pm, report.age)
             speed == IF report.age > cache["afterrun"] THEN "off" ELSE "stay"
  <1>3. s \in {"high", "low", speed}
    BY <1>2 DEF Call
  <1>4. report.calls # {"high"} /\ report.calls # {"low"}
    BY <1>1 DEF IInv, CallsOK
  <1>5. Reads("afterrun", "none", TRUE, speed) /\ speed \in Speeds
    BY DEF ReadAfterrun, Speeds
  <1> HIDE DEF s, speed
  <1>6. \A x \in report.calls : report.calls = {x} => speed = x
    BY <1>2, <1>3, <1>4 DEF s
  <1>7. Reads("afterrun", "low", TRUE, speed)
    BY <1>5 DEF Reads
  <1> QED  BY <1>5, <1>6, <1>7, ReadsKeeps
-----------------------------------------------------------------------------
LEMMA IInvStep == IInv /\ [Next]_vars => IInv'
  <1> SUFFICES ASSUME IInv, [Next]_vars PROVE IInv'
    OBVIOUS
  <1>1. CASE PowerLoss \/ ReceiveFails
    BY <1>1, PowerLossKeeps, CrashKeeps DEF ReceiveFails
  <1>2. CASE (\E f \in Forms : Request(f)) \/ End
    BY <1>2, RequestKeeps, EndKeeps
  <1>3. CASE Save
    BY <1>3, WriteKeeps, CacheKeeps, AnswerKeeps, RestartWithCredentialsKeeps DEF Save
  <1>4. CASE \E pm \in Levels, age \in Ages : Report(pm, age)
    BY <1>4, ReportKeeps
  <1>5. CASE ReadHigh \/ ReadLow \/ ReadAfterrun
    BY <1>5, ReadHighKeeps, ReadLowKeeps, ReadAfterrunKeeps
  <1>6. CASE UNCHANGED vars
    <2>1. SavedTogether'
      BY <1>6, SavedKept DEF Excused, HalfWritten, vars, store, request, observed
    <2> QED
    BY <1>6, <2>1
    DEF IInv, TypeOK, FormType, ReportType, WrittenOK, WrittenKeys, SaveOK,
        CachedOK, CachedKeys, CacheIsStored, Pending, Stored, CallsOK,
        Evaluating, DecisionsAgree, vars, store, request, observed
  <1> QED  BY <1>1, <1>2, <1>3, <1>4, <1>5, <1>6 DEF Next

LEMMA IInvAlways == Spec => []IInv
  BY IInvInit, IInvStep, PTL DEF Spec

\* The types hold for every set of forms and reports and every bound.
THEOREM TypeCorrect == Spec => []TypeOK
  <1>1. IInv => TypeOK
    BY DEF IInv
  <1> QED  BY <1>1, IInvAlways, PTL

\* Whenever the power goes, the next boot finds only what was posted, what the
\* last save of a kind got to from one body, and all from one whole form unless
\* the save lost the power or a write half way or got a body cut short.
THEOREM AlwaysSavedTogether == Spec => []SavedTogether
  <1>1. IInv => SavedTogether
    BY DEF IInv
  <1> QED  BY <1>1, IInvAlways, PTL

\* What the page and the control loop go by is what the next boot will find.
THEOREM CacheAlwaysStored == Spec => []CacheIsStored
  <1>1. IInv => CacheIsStored
    BY DEF IInv
  <1> QED  BY <1>1, IInvAlways, PTL

\* When all the limits that are in effect while a report is evaluated call for
\* one speed, so does the mixture of them that the report reads.
THEOREM DecisionsAlwaysAgree == Spec => []DecisionsAgree
  <1>1. IInv => DecisionsAgree
    BY DEF IInv
  <1> QED  BY <1>1, IInvAlways, PTL

=============================================================================
