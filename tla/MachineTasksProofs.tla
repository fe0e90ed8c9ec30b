------------------------- MODULE MachineTasksProofs -------------------------
(***************************************************************************)
(* Proofs about MachineTasks and MachineTasksObserved, for every set of    *)
(* active tasks and all the speeds they ask for: what the unlocked globals *)
(* of state.c survive of four tasks that interrupt one another, and that   *)
(* the handlers keep FanPromise when they do not.                          *)
(***************************************************************************)
EXTENDS MachineTasksObserved, TLAPS, SequenceTheorems, FiniteSetTheorems

USE DEF OpMode, MachineStatus, LOCAL_MODE, AUTO, API, OFF, ON_LOW, ON_HIGH

-----------------------------------------------------------------------------
(***************************************************************************)
(* The invariant                                                           *)
(***************************************************************************)
\* The tasks and the last statements of a handler ...
Own(t) ==
    CASE t = "timer"  -> Ops \ {"check_auto", "decide"}
      [] t = "httpd"  -> {"check_status", "check_mode"} \cup StatusOps \cup ModeOps
      [] t = "zigbee" -> {"check_auto", "decide", "check_status"} \cup StatusOps
      [] t = "main"   -> {"check_mode"} \cup ModeOps

Final(t, a) ==
    /\ a.op \notin {"assign_mode", "advance_status", "stamp", "release_low",
                    "release_high"}
    /\ a.op \in {"check_status", "record_status"} => t = "zigbee"
    /\ a.op = "energise" => t = "timer"

\* ... and what may come after what in it.
Link(t, a, b) ==
    /\ a.op \in {"check_mode", "cache_mode", "write_mode"} =>
           t = "timer" /\ b.op = "advance_status"
    /\ a.op = "advance_status" => b.op = "redrive"
    /\ a.op \in {"check_status", "record_status"} =>
           \/ t = "timer" /\ b.op = "redrive"
           \/ t = "httpd" /\ b.op = "check_mode" /\ b.arg = API
    /\ a.op = "assign_mode"  => b.op = "cache_mode"    /\ b.arg = a.arg
    /\ a.op = "stamp"        => b.op = "release_low"   /\ b.arg = a.arg
    /\ a.op = "release_low"  => b.op = "release_high"  /\ b.arg = a.arg
    /\ a.op = "release_high" => b.op = "energise"      /\ b.arg = a.arg
    /\ a.op = "energise"     => b.op = "record_status" /\ b.arg = a.arg
    /\ a.op \notin {"advance_mode", "redrive", "check_auto", "decide"}

WellFormed(t, c) ==
    /\ \A i \in 1 .. Len(c) : c[i].op \in Own(t)
    /\ \A i \in 1 .. Len(c) - 1 : Link(t, c[i], c[i + 1])
    /\ Len(c) > 0 => Final(t, c[Len(c)])

Last(c) == c[Len(c)]

ShapeInv == \A t \in Tasks : WellFormed(t, code[t])

\* At most one task has a section of these statements open.
Alone(ops) == \A t, u \in Tasks : InSection(t, ops) /\ InSection(u, ops) => t = u

Open(ops) == \E t \in Tasks : InSection(t, ops)

\* The second handleStateChange of advanceStatus is under way: it ends with
\* its last pin.
Redriving(t) == ~Idle(t) /\ Last(code[t]).op = "energise"

RedriveInv ==
    \A t \in Tasks : Redriving(t) =>
        \/ At(t, "release_low")  /\ Len(code[t]) = 3
        \/ At(t, "release_high") /\ Len(code[t]) = 2
        \/ At(t, "energise")     /\ Len(code[t]) = 1

Halfway(t) ==
    /\ At(t, "release_high")  => relays["low_speed"] = 1
    /\ At(t, "energise")      => relays = Released
    /\ At(t, "record_status") => relays = RelaysFor(Arg(t))
    /\ Redriving(t)           => Arg(t) = status

MotorInv ==
    /\ Halfway("timer")
    /\ ~raced => /\ Alone(StatusOps)
                 /\ \A t \in Tasks : Halfway(t)
                 /\ Open(StatusOps) \/ relays = RelaysFor(status)

Saving(t) ==
    /\ At(t, "cache_mode") => opMode = Arg(t)
    /\ At(t, "write_mode") => opMode = Arg(t) /\ cached = Arg(t)

Saved == \/ cached = opMode
         \/ /\ opMode = LOCAL_MODE
            /\ ~restored \/ (At("main", "check_mode") /\ Arg("main") = cached)

Stored == flash = cached \/ unsaved

ModeInv ==
    ~racedMode => /\ Alone(ModeOps)
                  /\ \A t \in Tasks : Saving(t)
                  /\ Open(ModeOps) \/ (Saved /\ Stored)

CodeOK == code \in [Tasks -> Seq(Statement)] /\ ShapeInv

IInv == TypeOK /\ ShapeInv /\ RedriveInv /\ MotorInv /\ ModeInv
-----------------------------------------------------------------------------
(***************************************************************************)
(* Statements yet to be executed                                           *)
(***************************************************************************)
LEMMA DoIsStatement ==
    ASSUME NEW o \in Ops, NEW a \in OpMode
    PROVE  Do(o, a) \in Statement /\ Do(o, a).op = o /\ Do(o, a).arg = a
  BY DEF Do, Statement

LEMMA SeqHead ==
    ASSUME NEW c \in Seq(Statement)
    PROVE  /\ Len(c) \in Nat
           /\ c = << >> <=> Len(c) = 0
           /\ c # << >> => Head(c) = c[1] /\ c[1] \in Statement
  <1>1. Len(c) \in Nat /\ (c = << >> <=> Len(c) = 0)
    BY EmptySeq
  <1>2. ASSUME c # << >> PROVE Head(c) = c[1] /\ c[1] \in Statement
    <2>1. 1 \in 1 .. Len(c)
      BY <1>1, <1>2
    <2> QED  BY <2>1, ElementOfSeq
  <1> QED  BY <1>1, <1>2

\* Replacing the first statement of c by those of seq.
LEMMA Replace ==
    ASSUME NEW c \in Seq(Statement), c # << >>, NEW seq \in Seq(Statement)
    PROVE  LET r == seq \o Tail(c)
           IN  /\ r \in Seq(Statement)
               /\ Len(r) = Len(seq) + Len(c) - 1
               /\ \A i \in 1 .. Len(seq) : r[i] = seq[i]
               /\ \A i \in 1 .. Len(c) - 1 : r[Len(seq) + i] = c[i + 1]
  <1> DEFINE r == seq \o Tail(c)
  <1>1. /\ Tail(c) \in Seq(Statement) /\ Len(Tail(c)) = Len(c) - 1
        /\ \A i \in 1 .. Len(Tail(c)) : Tail(c)[i] = c[i + 1]
    BY HeadTailProperties
  <1>2. Len(c) \in Nat /\ Len(c) > 0 /\ Len(seq) \in Nat
    BY SeqHead
  <1>3. /\ r \in Seq(Statement)
        /\ Len(r) = Len(seq) + Len(Tail(c))
        /\ \A i \in 1 .. Len(seq) + Len(Tail(c)) :
              r[i] = IF i <= Len(seq) THEN seq[i] ELSE Tail(c)[i - Len(seq)]
    BY <1>1, ConcatProperties
  <1> HIDE DEF r
  <1>4. \A i \in 1 .. Len(seq) : r[i] = seq[i]
    BY <1>1, <1>2, <1>3
  <1>5. ASSUME NEW i \in 1 .. Len(c) - 1 PROVE r[Len(seq) + i] = c[i + 1]
    <2>1. Len(seq) + i \in 1 .. Len(seq) + Len(Tail(c)) /\ ~(Len(seq) + i <= Len(seq))
      BY <1>1, <1>2
    <2>2. r[Len(seq) + i] = Tail(c)[(Len(seq) + i) - Len(seq)]
      BY <1>3, <2>1
    <2>3. (Len(seq) + i) - Len(seq) = i /\ i \in 1 .. Len(Tail(c))
      BY <1>1, <1>2
    <2> QED  BY <1>1, <2>2, <2>3
  <1>6. Len(r) = Len(seq) + Len(c) - 1
    BY <1>1, <1>2, <1>3
  <1> QED  BY <1>3, <1>4, <1>5, <1>6 DEF r

\* What is left of a well-formed handler is well-formed ...
LEMMA ShapeOfRest ==
    ASSUME NEW t \in Tasks, NEW c \in Seq(Statement), c # << >>, WellFormed(t, c)
    PROVE  WellFormed(t, << >> \o Tail(c))
  <1> DEFINE r == << >> \o Tail(c)
  <1>1. /\ r \in Seq(Statement) /\ Len(r) = Len(c) - 1
        /\ \A i \in 1 .. Len(c) - 1 : r[i] = c[i + 1]
    <2>1. << >> \in Seq(Statement) /\ Len(<< >>) = 0
      BY EmptySeq
    <2>2. /\ r \in Seq(Statement) /\ Len(r) = 0 + Len(c) - 1
          /\ \A i \in 1 .. Len(c) - 1 : r[0 + i] = c[i + 1]
      BY <2>1, Replace
    <2>3. Len(c) \in Nat
      BY SeqHead
    <2> QED  BY <2>2, <2>3
  <1>2. Len(c) \in Nat /\ Len(c) > 0
    BY SeqHead
  <1> HIDE DEF r
  <1>3. ASSUME NEW i \in 1 .. Len(r) PROVE r[i].op \in Own(t)
    <2>1. i \in 1 .. Len(c) - 1 /\ i + 1 \in 1 .. Len(c)
      BY <1>1, <1>2
    <2> QED  BY <1>1, <2>1 DEF WellFormed
  <1>4. ASSUME NEW i \in 1 .. Len(r) - 1 PROVE Link(t, r[i], r[i + 1])
    <2>1. /\ i \in 1 .. Len(c) - 1 /\ i + 1 \in 1 .. Len(c) - 1
      BY <1>1, <1>2
    <2>2. r[i] = c[i + 1] /\ r[i + 1] = c[(i + 1) + 1]
      BY <1>1, <2>1
    <2> QED  BY <2>1, <2>2 DEF WellFormed
  <1>5. ASSUME Len(r) > 0 PROVE Final(t, r[Len(r)])
    <2>1. Len(r) \in 1 .. Len(c) - 1 /\ Len(r) + 1 = Len(c)
      BY <1>1, <1>2, <1>5
    <2>2. r[Len(r)] = c[Len(c)]
      BY <1>1, <2>1
    <2> QED  BY <1>2, <2>2 DEF WellFormed
  <1> QED  BY <1>3, <1>4, <1>5 DEF WellFormed, r

\* ... also after its first statement has been replaced by others that may
\* stand where it stood.
LEMMA ShapeOfReplaced ==
    ASSUME NEW t \in Tasks, NEW c \in Seq(Statement), c # << >>, WellFormed(t, c),
           NEW seq \in Seq(Statement), seq # << >>,
           \A i \in 1 .. Len(seq) : seq[i].op \in Own(t),
           \A i \in 1 .. Len(seq) - 1 : Link(t, seq[i], seq[i + 1]),
           \A b : Link(t, c[1], b) => Link(t, seq[Len(seq)], b),
           Final(t, c[1]) => Final(t, seq[Len(seq)])
    PROVE  WellFormed(t, seq \o Tail(c))
  <1> DEFINE r == seq \o Tail(c)
  <1>1. /\ r \in Seq(Statement) /\ Len(r) = Len(seq) + Len(c) - 1
        /\ \A i \in 1 .. Len(seq) : r[i] = seq[i]
        /\ \A i \in 1 .. Len(c) - 1 : r[Len(seq) + i] = c[i + 1]
    BY Replace
  <1>2. Len(c) \in Nat /\ Len(c) > 0 /\ Len(seq) \in Nat /\ Len(seq) > 0
    BY SeqHead
  <1> HIDE DEF r
  <1>a. \A j \in Len(seq) + 1 .. Len(r) : r[j] = c[j - Len(seq) + 1]
    <2> SUFFICES ASSUME NEW j \in Len(seq) + 1 .. Len(r)
                 PROVE  r[j] = c[j - Len(seq) + 1]
      OBVIOUS
    <2>1. j - Len(seq) \in 1 .. Len(c) - 1 /\ Len(seq) + (j - Len(seq)) = j
      BY <1>1, <1>2
    <2> QED  BY <1>1, <2>1
  <1>3. ASSUME NEW i \in 1 .. Len(r) PROVE r[i].op \in Own(t)
    <2>1. CASE i \in 1 .. Len(seq)
      BY <1>1, <2>1
    <2>2. CASE i \in Len(seq) + 1 .. Len(r)
      <3>1. i - Len(seq) + 1 \in 1 .. Len(c)
        BY <1>1, <1>2, <2>2
      <3> QED  BY <1>a, <2>2, <3>1 DEF WellFormed
    <2> QED  BY <1>1, <1>2, <2>1, <2>2
  <1>4. ASSUME NEW i \in 1 .. Len(r) - 1 PROVE Link(t, r[i], r[i + 1])
    <2>1. CASE i \in 1 .. Len(seq) - 1
      <3>1. i \in 1 .. Len(seq) /\ i + 1 \in 1 .. Len(seq)
        BY <1>2, <2>1
      <3> QED  BY <1>1, <2>1, <3>1
    <2>2. CASE i = Len(seq)
      <3>1. /\ i \in 1 .. Len(seq) /\ i + 1 \in Len(seq) + 1 .. Len(r)
            /\ (i + 1) - Len(seq) + 1 = 1 + 1 /\ 1 \in 1 .. Len(c) - 1
        BY <1>1, <1>2, <2>2
      <3>2. r[i] = seq[Len(seq)] /\ r[i + 1] = c[1 + 1]
        BY <1>1, <1>a, <2>2, <3>1
      <3>3. Link(t, c[1], c[1 + 1])
        BY <3>1 DEF WellFormed
      <3> QED  BY <3>2, <3>3
    <2>3. CASE i \in Len(seq) + 1 .. Len(r) - 1
      <3> DEFINE k == i - Len(seq) + 1
      <3>1. /\ i \in Len(seq) + 1 .. Len(r) /\ i + 1 \in Len(seq) + 1 .. Len(r)
            /\ (i + 1) - Len(seq) + 1 = k + 1 /\ k \in 1 .. Len(c) - 1
        BY <1>1, <1>2, <2>3
      <3>2. r[i] = c[k] /\ r[i + 1] = c[k + 1]
        BY <1>a, <3>1
      <3> QED  BY <3>1, <3>2 DEF WellFormed
    <2> QED  BY <1>1, <1>2, <2>1, <2>2, <2>3
  <1>5. Final(t, r[Len(r)])
    <2>1. CASE Len(c) = 1
      <3>1. Len(r) = Len(seq) /\ Len(seq) \in 1 .. Len(seq)
        BY <1>1, <1>2, <2>1
      <3>2. Final(t, c[1])
        BY <2>1 DEF WellFormed
      <3> QED  BY <1>1, <3>1, <3>2
    <2>2. CASE Len(c) > 1
      <3>1. Len(r) \in Len(seq) + 1 .. Len(r) /\ Len(r) - Len(seq) + 1 = Len(c)
        BY <1>1, <1>2, <2>2
      <3> QED  BY <1>2, <1>a, <3>1 DEF WellFormed
    <2>3. Len(c) = 1 \/ Len(c) > 1
      <3>1. \A n \in Nat : n > 0 => n = 1 \/ n > 1
        OBVIOUS
      <3> QED  BY <1>2, <3>1
    <2> QED  BY <2>1, <2>2, <2>3
  <1> QED  BY <1>3, <1>4, <1>5 DEF WellFormed, r
\* A task that executes the first of its statements and goes on to the next.
LEMMA DoneCode ==
    ASSUME CodeOK, NEW t \in Tasks, ~Idle(t), Done(t)
    PROVE  /\ CodeOK'
           /\ \A u \in Tasks \ {t} : code'[u] = code[u]
           /\ Len(code'[t]) = Len(code[t]) - 1
           /\ Idle(t)' <=> Len(code[t]) = 1
           /\ Idle(t)' => Final(t, Head(code[t]))
           /\ ~Idle(t)' => /\ Link(t, Head(code[t]), Head(code'[t]))
                           /\ Last(code'[t]) = Last(code[t])
  <1> DEFINE c == code[t]
             r == << >> \o Tail(c)
  <1>1. c \in Seq(Statement) /\ c # << >> /\ WellFormed(t, c)
    BY DEF CodeOK, ShapeInv, Idle
  <1>2. /\ r \in Seq(Statement) /\ Len(r) = Len(c) - 1
        /\ \A i \in 1 .. Len(c) - 1 : r[i] = c[i + 1]
    <2>1. << >> \in Seq(Statement) /\ Len(<< >>) = 0
      BY EmptySeq
    <2>2. /\ r \in Seq(Statement) /\ Len(r) = 0 + Len(c) - 1
          /\ \A i \in 1 .. Len(c) - 1 : r[0 + i] = c[i + 1]
      BY <1>1, <2>1, Replace
    <2>3. Len(c) \in Nat
      BY <1>1, SeqHead
    <2> QED  BY <2>2, <2>3
  <1>3. WellFormed(t, r)
    BY <1>1, ShapeOfRest
  <1>4. code' = [code EXCEPT ![t] = r]
    BY DEF Done, Continue
  <1> HIDE DEF r
  <1>5. code'[t] = r /\ \A u \in Tasks \ {t} : code'[u] = code[u]
    BY <1>4 DEF CodeOK
  <1>6. CodeOK'
    BY <1>2, <1>3, <1>4, <1>5 DEF CodeOK, ShapeInv
  <1>7. /\ Len(c) \in Nat /\ Len(c) > 0 /\ Head(c) = c[1]
        /\ r = << >> <=> Len(r) = 0
        /\ r # << >> => Head(r) = r[1]
    <2>1. Len(c) \in Nat /\ Len(c) > 0 /\ Head(c) = c[1]
      BY <1>1, SeqHead
    <2>2. (r = << >> <=> Len(r) = 0) /\ (r # << >> => Head(r) = r[1])
      BY <1>2, SeqHead
    <2> QED  BY <2>1, <2>2
  <1>8. ASSUME r = << >> PROVE Final(t, Head(c))
    <2>1. Len(c) = 1
      BY <1>2, <1>7, <1>8
    <2> QED  BY <1>1, <1>7, <2>1 DEF WellFormed
  <1>9. ASSUME r # << >> PROVE Link(t, Head(c), Head(r)) /\ Last(r) = Last(c)
    <2>1. /\ 1 \in 1 .. Len(c) - 1 /\ Len(r) \in 1 .. Len(c) - 1
          /\ Len(r) + 1 = Len(c)
      BY <1>2, <1>7, <1>9
    <2>2. Head(r) = c[1 + 1] /\ r[Len(r)] = c[Len(c)]
      BY <1>2, <1>7, <1>9, <2>1
    <2>3. Link(t, c[1], c[1 + 1])
      BY <1>1, <2>1 DEF WellFormed
    <2> QED  BY <1>7, <2>2, <2>3 DEF Last
  <1>10. r = << >> <=> Len(c) = 1
    BY <1>2, <1>7
  <1> QED  BY <1>2, <1>5, <1>6, <1>8, <1>9, <1>10 DEF Idle

\* A task that goes on to other statements first.
LEMMA ContinueCode ==
    ASSUME CodeOK, NEW t \in Tasks, ~Idle(t),
           NEW seq \in Seq(Statement), seq # << >>, Continue(t, seq),
           \A i \in 1 .. Len(seq) : seq[i].op \in Own(t),
           \A i \in 1 .. Len(seq) - 1 : Link(t, seq[i], seq[i + 1]),
           \A b : Link(t, Head(code[t]), b) => Link(t, seq[Len(seq)], b),
           Final(t, Head(code[t])) => Final(t, seq[Len(seq)])
    PROVE  /\ CodeOK'
           /\ \A u \in Tasks \ {t} : code'[u] = code[u]
           /\ Len(code'[t]) = Len(seq) + Len(code[t]) - 1
           /\ ~Idle(t)' /\ Head(code'[t]) = seq[1]
           /\ Last(code'[t]) = IF Len(code[t]) = 1 THEN Last(seq) ELSE Last(code[t])
  <1> DEFINE c == code[t]
             r == seq \o Tail(c)
  <1>1. c \in Seq(Statement) /\ c # << >> /\ WellFormed(t, c)
    BY DEF CodeOK, ShapeInv, Idle
  <1>2. /\ r \in Seq(Statement) /\ Len(r) = Len(seq) + Len(c) - 1
        /\ \A i \in 1 .. Len(seq) : r[i] = seq[i]
        /\ \A i \in 1 .. Len(c) - 1 : r[Len(seq) + i] = c[i + 1]
    BY <1>1, Replace
  <1>3. /\ Len(c) \in Nat /\ Len(c) > 0 /\ Head(c) = c[1]
        /\ Len(seq) \in Nat /\ Len(seq) > 0
        /\ r = << >> <=> Len(r) = 0
        /\ r # << >> => Head(r) = r[1]
    BY <1>1, <1>2, SeqHead
  <1>4. WellFormed(t, r)
    BY <1>1, <1>3, ShapeOfReplaced
  <1>5. code' = [code EXCEPT ![t] = r]
    BY DEF Continue
  <1> HIDE DEF r
  <1>6. code'[t] = r /\ \A u \in Tasks \ {t} : code'[u] = code[u]
    BY <1>5 DEF CodeOK
  <1>7. CodeOK'
    BY <1>2, <1>4, <1>5, <1>6 DEF CodeOK, ShapeInv
  <1>8. r # << >> /\ Head(r) = seq[1]
    <2>1. 1 \in 1 .. Len(seq) /\ Len(r) # 0
      BY <1>2, <1>3
    <2> QED  BY <1>2, <1>3, <2>1
  <1>9. Last(r) = IF Len(c) = 1 THEN Last(seq) ELSE Last(c)
    <2>1. CASE Len(c) = 1
      <3>1. Len(r) = Len(seq) /\ Len(seq) \in 1 .. Len(seq)
        BY <1>2, <1>3, <2>1
      <3> QED  BY <1>2, <2>1, <3>1 DEF Last
    <2>2. CASE Len(c) # 1
      <3>0. PICK n \in Nat : n = Len(c) /\ n > 1
        <4>1. \A n \in Nat : n > 0 => n = 1 \/ n > 1
          OBVIOUS
        <4> QED  BY <1>3, <2>2, <4>1
      <3>1. Len(c) - 1 \in 1 .. Len(c) - 1 /\ Len(seq) + (Len(c) - 1) = Len(r)
            /\ (Len(c) - 1) + 1 = Len(c)
        BY <1>2, <1>3, <3>0
      <3>2. r[Len(r)] = c[Len(c)]
        BY <1>2, <3>1
      <3> QED  BY <2>2, <3>2 DEF Last
    <2> QED  BY <2>1, <2>2
  <1> QED  BY <1>2, <1>6, <1>7, <1>8, <1>9 DEF Idle
LEMMA Tuples ==
    ASSUME NEW a \in Statement, NEW b \in Statement, NEW c \in Statement,
           NEW d \in Statement, NEW e \in Statement
    PROVE  /\ /\ << a >> \in Seq(Statement) /\ Len(<< a >>) = 1
              /\ << a >> # << >> /\ << a >>[1] = a
           /\ /\ << a, b >> \in Seq(Statement) /\ Len(<< a, b >>) = 2
              /\ << a, b >> # << >> /\ << a, b >>[1] = a /\ << a, b >>[2] = b
           /\ /\ << a, b, c >> \in Seq(Statement) /\ Len(<< a, b, c >>) = 3
              /\ << a, b, c >> # << >> /\ << a, b, c >>[1] = a
              /\ << a, b, c >>[2] = b /\ << a, b, c >>[3] = c
  OBVIOUS

\* The statements of setStatus after its test.
Section(s) == << Do("stamp", s) >> \o Drive(s) \o << Do("record_status", s) >>

LEMMA SectionIs ==
    ASSUME NEW s \in MachineStatus
    PROVE  /\ Section(s) \in Seq(Statement) /\ Len(Section(s)) = 5
           /\ Section(s)[1] = Do("stamp", s)
           /\ Section(s)[2] = Do("release_low", s)
           /\ Section(s)[3] = Do("release_high", s)
           /\ Section(s)[4] = Do("energise", s)
           /\ Section(s)[5] = Do("record_status", s)
  <1> DEFINE a == << Do("stamp", s) >>
             b == Drive(s)
             c == << Do("record_status", s) >>
  <1>1. /\ Do("stamp", s) \in Statement /\ Do("record_status", s) \in Statement
        /\ Do("release_low", s) \in Statement /\ Do("release_high", s) \in Statement
        /\ Do("energise", s) \in Statement
    BY DoIsStatement DEF Ops
  <1>2. /\ a \in Seq(Statement) /\ Len(a) = 1 /\ a[1] = Do("stamp", s)
        /\ c \in Seq(Statement) /\ Len(c) = 1 /\ c[1] = Do("record_status", s)
        /\ b \in Seq(Statement) /\ Len(b) = 3 /\ b[1] = Do("release_low", s)
        /\ b[2] = Do("release_high", s) /\ b[3] = Do("energise", s)
    BY <1>1, Tuples DEF Drive
  <1> HIDE DEF a, b, c
  <1>3. /\ a \o b \in Seq(Statement) /\ Len(a \o b) = 1 + 3
        /\ \A i \in 1 .. 1 + 3 : (a \o b)[i] = IF i <= 1 THEN a[i] ELSE b[i - 1]
    <2>1. /\ a \o b \in Seq(Statement) /\ Len(a \o b) = Len(a) + Len(b)
          /\ \A i \in 1 .. Len(a) + Len(b) :
                (a \o b)[i] = IF i <= Len(a) THEN a[i] ELSE b[i - Len(a)]
      BY <1>2, ConcatProperties
    <2> QED  BY <1>2, <2>1
  <1>4. /\ (a \o b) \o c \in Seq(Statement) /\ Len((a \o b) \o c) = (1 + 3) + 1
        /\ \A i \in 1 .. (1 + 3) + 1 :
              ((a \o b) \o c)[i] = IF i <= 1 + 3 THEN (a \o b)[i] ELSE c[i - (1 + 3)]
    BY <1>2, <1>3, ConcatProperties
  <1> DEFINE r == (a \o b) \o c
  <1>5. Section(s) = r
    BY DEF Section, a, b, c
  <1>6. 1 \in 1 .. 4 /\ 2 \in 1 .. 4 /\ 3 \in 1 .. 4 /\ 4 \in 1 .. 4
    OBVIOUS
  <1>7. r[1] = a[1] /\ r[2] = b[1] /\ r[3] = b[2] /\ r[4] = b[3] /\ r[5] = c[1]
    BY <1>3, <1>4, <1>6
  <1> QED  BY <1>2, <1>4, <1>5, <1>7

-----------------------------------------------------------------------------
(***************************************************************************)
(* What a statement leaves to be executed                                  *)
(***************************************************************************)

\* Nothing but the code of t changes ...
Alters(t) == CodeOK' /\ \A u \in Tasks \ {t} : code'[u] = code[u]

\* ... t goes on to its next statement, if it has one, ...
GoesOn(t) ==
    /\ Alters(t)
    /\ Len(code'[t]) = Len(code[t]) - 1
    /\ Idle(t)' <=> Len(code[t]) = 1
    /\ Idle(t)' => Final(t, Head(code[t]))
    /\ ~Idle(t)' => /\ Link(t, Head(code[t]), Head(code'[t]))
                    /\ Last(code'[t]) = Last(code[t])

\* ... or to s, the first of n more statements, of which l is the last.
GoesTo(t, s, n, l) ==
    /\ Alters(t)
    /\ Len(code'[t]) = n + Len(code[t]) - 1
    /\ ~Idle(t)' /\ Head(code'[t]) = s
    /\ Last(code'[t]) = IF Len(code[t]) = 1 THEN l ELSE Last(code[t])

LEMMA HeadFacts ==
    ASSUME CodeOK, NEW t \in Tasks, ~Idle(t)
    PROVE  /\ Head(code[t]) \in Statement
           /\ Head(code[t]).op \in Own(t) /\ Head(code[t]).op \in Ops
           /\ Arg(t) \in OpMode
           /\ Len(code[t]) \in Nat /\ Len(code[t]) > 0
  <1>1. code[t] \in Seq(Statement) /\ code[t] # << >> /\ WellFormed(t, code[t])
    BY DEF CodeOK, ShapeInv, Idle
  <1>2. /\ Len(code[t]) \in Nat /\ Len(code[t]) > 0
        /\ Head(code[t]) = code[t][1] /\ code[t][1] \in Statement
    BY <1>1, SeqHead
  <1>3. code[t][1].op \in Own(t)
    BY <1>1, <1>2 DEF WellFormed
  <1> QED  BY <1>2, <1>3 DEF Statement, Arg

LEMMA GoesOnStep ==
    ASSUME CodeOK, NEW t \in Tasks, ~Idle(t), Done(t)
    PROVE  GoesOn(t)
  BY DoneCode DEF GoesOn, Alters

LEMMA GoesToOne ==
    ASSUME CodeOK, NEW t \in Tasks, ~Idle(t),
           NEW s \in Statement, Continue(t, << s >>), s.op \in Own(t),
           \A b : Link(t, Head(code[t]), b) => Link(t, s, b),
           Final(t, Head(code[t])) => Final(t, s)
    PROVE  GoesTo(t, s, 1, s)
  <1> DEFINE seq == << s >>
  <1>1. seq \in Seq(Statement) /\ Len(seq) = 1 /\ seq # << >> /\ seq[1] = s
    BY Tuples
  <1>2. Continue(t, seq)
    OBVIOUS
  <1> HIDE DEF seq
  <1>3. /\ \A i \in 1 .. Len(seq) : seq[i].op \in Own(t)
        /\ \A i \in 1 .. Len(seq) - 1 : Link(t, seq[i], seq[i + 1])
        /\ seq[Len(seq)] = s
    BY <1>1
  <1> QED  BY <1>1, <1>2, <1>3, ContinueCode DEF GoesTo, Alters, Last

LEMMA GoesToTwo ==
    ASSUME CodeOK, NEW t \in Tasks, ~Idle(t),
           NEW s \in Statement, NEW l \in Statement, Continue(t, << s, l >>),
           s.op \in Own(t), l.op \in Own(t), Link(t, s, l),
           \A b : Link(t, Head(code[t]), b) => Link(t, l, b),
           Final(t, Head(code[t])) => Final(t, l)
    PROVE  GoesTo(t, s, 2, l)
  <1> DEFINE seq == << s, l >>
  <1>1. /\ seq \in Seq(Statement) /\ Len(seq) = 2 /\ seq # << >>
        /\ seq[1] = s /\ seq[2] = l
    BY Tuples
  <1>2. Continue(t, seq)
    OBVIOUS
  <1> HIDE DEF seq
  <1>3. /\ \A i \in 1 .. Len(seq) : seq[i].op \in Own(t)
        /\ \A i \in 1 .. Len(seq) - 1 : Link(t, seq[i], seq[i + 1])
        /\ seq[Len(seq)] = l
    <2>1. 1 .. 2 = {1, 2} /\ 1 .. 2 - 1 = {1}
      OBVIOUS
    <2> QED  BY <1>1, <2>1
  <1> QED  BY <1>1, <1>2, <1>3, ContinueCode DEF GoesTo, Alters, Last

LEMMA GoesToDrive ==
    ASSUME CodeOK, NEW t \in Tasks, ~Idle(t), Head(code[t]).op = "redrive",
           NEW s \in MachineStatus, Continue(t, Drive(s))
    PROVE  GoesTo(t, Do("release_low", s), 3, Do("energise", s))
  <1> DEFINE seq == Drive(s)
  <1>1. /\ Do("release_low", s) \in Statement /\ Do("release_high", s) \in Statement
        /\ Do("energise", s) \in Statement
        /\ Do("release_low", s).op = "release_low" /\ Do("release_low", s).arg = s
        /\ Do("release_high", s).op = "release_high" /\ Do("release_high", s).arg = s
        /\ Do("energise", s).op = "energise" /\ Do("energise", s).arg = s
    BY DoIsStatement DEF Ops
  <1>2. /\ seq \in Seq(Statement) /\ Len(seq) = 3 /\ seq # << >>
        /\ seq[1] = Do("release_low", s) /\ seq[2] = Do("release_high", s)
        /\ seq[3] = Do("energise", s)
    BY <1>1, Tuples DEF Drive
  <1>3. Continue(t, seq)
    OBVIOUS
  <1>4. t = "timer"
    BY HeadFacts DEF Own, StatusOps, ModeOps, Tasks
  <1> HIDE DEF seq
  <1>5. /\ \A i \in 1 .. Len(seq) : seq[i].op \in Own(t)
        /\ \A i \in 1 .. Len(seq) - 1 : Link(t, seq[i], seq[i + 1])
    <2>1. 1 .. 3 = {1, 2, 3} /\ 1 .. 3 - 1 = {1, 2}
      OBVIOUS
    <2>2. \A i \in 1 .. 3 : seq[i].op \in Own(t)
      BY <1>1, <1>2, <1>4, <2>1 DEF Own, Ops
    <2>3. \A i \in 1 .. 3 - 1 : Link(t, seq[i], seq[i + 1])
      BY <1>1, <1>2, <2>1 DEF Link
    <2> QED  BY <1>2, <2>2, <2>3
  <1>6. /\ \A b : Link(t, Head(code[t]), b) => Link(t, seq[Len(seq)], b)
        /\ Final(t, Head(code[t])) => Final(t, seq[Len(seq)])
    BY <1>1, <1>2, <1>4 DEF Link, Final
  <1>7. /\ Alters(t)
        /\ Len(code'[t]) = Len(seq) + Len(code[t]) - 1
        /\ ~Idle(t)' /\ Head(code'[t]) = seq[1]
        /\ Last(code'[t]) = IF Len(code[t]) = 1 THEN Last(seq) ELSE Last(code[t])
    BY <1>2, <1>3, <1>5, <1>6, ContinueCode DEF Alters
  <1> QED  BY <1>2, <1>7 DEF GoesTo, Last

LEMMA GoesToSection ==
    ASSUME CodeOK, NEW t \in Tasks, ~Idle(t), Head(code[t]).op = "check_status",
           NEW s \in MachineStatus, Continue(t, Section(s))
    PROVE  GoesTo(t, Do("stamp", s), 5, Do("record_status", s))
  <1> DEFINE seq == Section(s)
  <1>1. /\ Do("stamp", s).op = "stamp" /\ Do("stamp", s).arg = s
        /\ Do("release_low", s).op = "release_low" /\ Do("release_low", s).arg = s
        /\ Do("release_high", s).op = "release_high" /\ Do("release_high", s).arg = s
        /\ Do("energise", s).op = "energise" /\ Do("energise", s).arg = s
        /\ Do("record_status", s).op = "record_status" /\ Do("record_status", s).arg = s
    BY DoIsStatement DEF Ops
  <1>2. /\ seq \in Seq(Statement) /\ Len(seq) = 5
        /\ seq[1] = Do("stamp", s) /\ seq[2] = Do("release_low", s)
        /\ seq[3] = Do("release_high", s) /\ seq[4] = Do("energise", s)
        /\ seq[5] = Do("record_status", s)
    BY SectionIs
  <1>3. Continue(t, seq)
    OBVIOUS
  <1>4. t # "main"
    BY HeadFacts DEF Own, StatusOps, ModeOps, Tasks
  <1> HIDE DEF seq
  <1>5. seq # << >>
    <2>1. 5 # 0
      OBVIOUS
    <2>2. seq = << >> <=> Len(seq) = 0
      BY <1>2, SeqHead
    <2> QED  BY <1>2, <2>1, <2>2
  <1>6. /\ \A i \in 1 .. Len(seq) : seq[i].op \in Own(t)
        /\ \A i \in 1 .. Len(seq) - 1 : Link(t, seq[i], seq[i + 1])
    <2>1. 1 .. 5 = {1, 2, 3, 4, 5} /\ 1 .. 5 - 1 = {1, 2, 3, 4}
      OBVIOUS
    <2>2. StatusOps \subseteq Own(t)
      BY <1>4 DEF Own, Ops, StatusOps, Tasks
    <2>3. \A i \in 1 .. 5 : seq[i].op \in StatusOps
      BY <1>1, <1>2, <2>1 DEF StatusOps
    <2>4. \A i \in 1 .. 5 - 1 : Link(t, seq[i], seq[i + 1])
      BY <1>1, <1>2, <2>1 DEF Link
    <2> QED  BY <1>2, <2>2, <2>3, <2>4
  <1>7. /\ \A b : Link(t, Head(code[t]), b) => Link(t, seq[Len(seq)], b)
        /\ Final(t, Head(code[t])) => Final(t, seq[Len(seq)])
    BY <1>1, <1>2 DEF Link, Final
  <1> QED  BY <1>2, <1>3, <1>5, <1>6, <1>7, ContinueCode DEF GoesTo, Alters, Last
\* Each statement, by the state it finds and what it leaves to be executed.
LEMMA ModeStatements ==
    ASSUME CodeOK, opMode \in OpMode, NEW t \in Tasks
    PROVE  /\ CheckMode(t) =>
                \/ Arg(t) = opMode /\ GoesOn(t)
                \/ /\ Arg(t) # opMode
                   /\ GoesTo(t, Do("assign_mode", Arg(t)), 2, Do("cache_mode", Arg(t)))
           /\ AssignMode(t) => GoesOn(t)
           /\ CacheMode(t) =>
                \E m \in {Arg(t), opMode} :
                    /\ cached' = m /\ m \in OpMode
                    /\ GoesTo(t, Do("write_mode", m), 1, Do("write_mode", m))
           /\ WriteMode(t) => GoesOn(t)
           /\ AdvanceMode(t) =>
                /\ Advance(opMode) \in OpMode
                /\ GoesTo(t, Do("check_mode", Advance(opMode)), 1,
                             Do("check_mode", Advance(opMode)))
  <1> USE DEF Executes, At
  <1>1. ASSUME ~Idle(t)
        PROVE  /\ Head(code[t]).op \in Own(t) /\ Arg(t) \in OpMode
    BY <1>1, HeadFacts
  <1>2. ASSUME CheckMode(t), Arg(t) = opMode PROVE GoesOn(t)
    BY <1>2, GoesOnStep DEF CheckMode
  <1>3. ASSUME CheckMode(t), Arg(t) # opMode
        PROVE  GoesTo(t, Do("assign_mode", Arg(t)), 2, Do("cache_mode", Arg(t)))
    <2> DEFINE s == Do("assign_mode", Arg(t))
               l == Do("cache_mode", Arg(t))
    <2>1. ~Idle(t) /\ Head(code[t]).op = "check_mode" /\ Continue(t, << s, l >>)
      BY <1>3 DEF CheckMode
    <2>2. /\ s \in Statement /\ s.op = "assign_mode" /\ s.arg = Arg(t)
          /\ l \in Statement /\ l.op = "cache_mode" /\ l.arg = Arg(t)
      BY <1>1, <2>1, DoIsStatement DEF Ops
    <2> HIDE DEF s, l
    <2>3. s.op \in Own(t) /\ l.op \in Own(t)
      BY <1>1, <2>1, <2>2 DEF Own, StatusOps, ModeOps, Ops, Tasks
    <2>4. /\ Link(t, s, l)
          /\ \A b : Link(t, Head(code[t]), b) => Link(t, l, b)
          /\ Final(t, Head(code[t])) => Final(t, l)
      BY <2>1, <2>2 DEF Link, Final
    <2>5. GoesTo(t, s, 2, l)
      BY <2>1, <2>2, <2>3, <2>4, GoesToTwo
    <2> QED  BY <2>5 DEF s, l
  <1>4. ASSUME AssignMode(t) \/ WriteMode(t) PROVE GoesOn(t)
    BY <1>4, GoesOnStep DEF AssignMode, WriteMode
  <1>5. ASSUME CacheMode(t)
        PROVE  \E m \in {Arg(t), opMode} :
                  /\ cached' = m /\ m \in OpMode
                  /\ GoesTo(t, Do("write_mode", m), 1, Do("write_mode", m))
    <2>1. ~Idle(t) /\ Head(code[t]).op = "cache_mode"
      BY <1>5 DEF CacheMode
    <2>2. PICK m \in {Arg(t), opMode} :
              cached' = m /\ Continue(t, << Do("write_mode", m) >>)
      BY <1>5 DEF CacheMode
    <2>3. m \in OpMode
      BY <1>1, <2>1, <2>2
    <2> DEFINE s == Do("write_mode", m)
    <2>4. s \in Statement /\ s.op = "write_mode" /\ Continue(t, << s >>)
      BY <2>2, <2>3, DoIsStatement DEF Ops
    <2> HIDE DEF s
    <2>5. s.op \in Own(t)
      BY <1>1, <2>1, <2>4 DEF Own, StatusOps, ModeOps, Ops, Tasks
    <2>6. /\ \A b : Link(t, Head(code[t]), b) => Link(t, s, b)
          /\ Final(t, Head(code[t])) => Final(t, s)
      BY <2>1, <2>4 DEF Link, Final
    <2>7. GoesTo(t, s, 1, s)
      BY <2>1, <2>4, <2>5, <2>6, GoesToOne
    <2> QED  BY <2>2, <2>3, <2>7 DEF s
  <1>6. ASSUME AdvanceMode(t)
        PROVE  /\ Advance(opMode) \in OpMode
               /\ GoesTo(t, Do("check_mode", Advance(opMode)), 1,
                            Do("check_mode", Advance(opMode)))
    <2> DEFINE s == Do("check_mode", Advance(opMode))
    <2>1. Advance(opMode) \in OpMode
      BY DEF Advance
    <2>2. ~Idle(t) /\ Head(code[t]).op = "advance_mode" /\ Continue(t, << s >>)
      BY <1>6 DEF AdvanceMode
    <2>3. s \in Statement /\ s.op = "check_mode"
      BY <2>1, DoIsStatement DEF Ops
    <2> HIDE DEF s
    <2>4. s.op \in Own(t)
      BY <1>1, <2>2, <2>3 DEF Own, StatusOps, ModeOps, Ops, Tasks
    <2>5. /\ \A b : Link(t, Head(code[t]), b) => Link(t, s, b)
          /\ Final(t, Head(code[t])) => Final(t, s)
      BY <2>2, <2>3 DEF Link, Final
    <2>6. GoesTo(t, s, 1, s)
      BY <2>2, <2>3, <2>4, <2>5, GoesToOne
    <2> QED  BY <2>1, <2>6 DEF s
  <1> QED  BY <1>2, <1>3, <1>4, <1>5, <1>6

LEMMA StatusStatements ==
    ASSUME CodeOK, status \in MachineStatus, NEW t \in Tasks
    PROVE  /\ CheckStatus(t) =>
                \/ Arg(t) = status /\ GoesOn(t)
                \/ /\ Arg(t) # status
                   /\ GoesTo(t, Do("stamp", Arg(t)), 5, Do("record_status", Arg(t)))
           /\ Stamp(t) \/ ReleaseLow(t) \/ ReleaseHigh(t) \/ Energise(t)
                  \/ RecordStatus(t) => GoesOn(t)
           /\ AdvanceStatus(t) =>
                /\ Advance(status) \in MachineStatus
                /\ GoesTo(t, Do("check_status", Advance(status)), 1,
                             Do("check_status", Advance(status)))
           /\ Redrive(t) =>
                GoesTo(t, Do("release_low", status), 3, Do("energise", status))
           /\ CheckAuto(t) =>
                \/ opMode # AUTO /\ GoesOn(t)
                \/ /\ opMode = AUTO
                   /\ GoesTo(t, Do("decide", Arg(t)), 1, Do("decide", Arg(t)))
           /\ Decide(t) =>
                \/ GoesOn(t)
                \/ GoesTo(t, Do("check_status", Arg(t)), 1,
                             Do("check_status", Arg(t)))
  <1> USE DEF Executes, At
  <1>1. ASSUME ~Idle(t)
        PROVE  Head(code[t]).op \in Own(t) /\ Arg(t) \in MachineStatus
    BY <1>1, HeadFacts
  <1>2. ASSUME CheckStatus(t), Arg(t) = status PROVE GoesOn(t)
    BY <1>2, GoesOnStep DEF CheckStatus
  <1>3. ASSUME CheckStatus(t), Arg(t) # status
        PROVE  GoesTo(t, Do("stamp", Arg(t)), 5, Do("record_status", Arg(t)))
    <2>1. /\ ~Idle(t) /\ Head(code[t]).op = "check_status"
          /\ Continue(t, Section(Arg(t)))
      BY <1>3 DEF CheckStatus, Section
    <2> QED  BY <1>1, <2>1, GoesToSection
  <1>4. ASSUME Stamp(t) \/ ReleaseLow(t) \/ ReleaseHigh(t) \/ Energise(t)
                  \/ RecordStatus(t)
        PROVE  GoesOn(t)
    BY <1>4, GoesOnStep DEF Stamp, ReleaseLow, ReleaseHigh, Energise, RecordStatus
  <1>5. ASSUME AdvanceStatus(t)
        PROVE  /\ Advance(status) \in MachineStatus
               /\ GoesTo(t, Do("check_status", Advance(status)), 1,
                            Do("check_status", Advance(status)))
    <2> DEFINE s == Do("check_status", Advance(status))
    <2>1. Advance(status) \in MachineStatus
      BY DEF Advance
    <2>2. ~Idle(t) /\ Head(code[t]).op = "advance_status" /\ Continue(t, << s >>)
      BY <1>5 DEF AdvanceStatus
    <2>3. s \in Statement /\ s.op = "check_status"
      BY <2>1, DoIsStatement DEF Ops
    <2>4. t = "timer"
      BY <1>1, <2>2 DEF Own, StatusOps, ModeOps, Tasks
    <2> HIDE DEF s
    <2>5. s.op \in Own(t)
      BY <2>3, <2>4 DEF Own, Ops
    <2>6. /\ \A b : Link(t, Head(code[t]), b) => Link(t, s, b)
          /\ Final(t, Head(code[t])) => Final(t, s)
      BY <2>2, <2>3, <2>4 DEF Link, Final
    <2>7. GoesTo(t, s, 1, s)
      BY <2>2, <2>3, <2>5, <2>6, GoesToOne
    <2> QED  BY <2>1, <2>7 DEF s
  <1>6. ASSUME Redrive(t)
        PROVE  GoesTo(t, Do("release_low", status), 3, Do("energise", status))
    BY <1>6, GoesToDrive DEF Redrive
  <1>7. ASSUME CheckAuto(t), opMode = AUTO
        PROVE  GoesTo(t, Do("decide", Arg(t)), 1, Do("decide", Arg(t)))
    <2> DEFINE s == Do("decide", Arg(t))
    <2>1. ~Idle(t) /\ Head(code[t]).op = "check_auto" /\ Continue(t, << s >>)
      BY <1>7 DEF CheckAuto
    <2>2. s \in Statement /\ s.op = "decide"
      BY <1>1, <2>1, DoIsStatement DEF Ops
    <2> HIDE DEF s
    <2>3. s.op \in Own(t)
      BY <1>1, <2>1, <2>2 DEF Own, StatusOps, ModeOps, Ops, Tasks
    <2>4. /\ \A b : Link(t, Head(code[t]), b) => Link(t, s, b)
          /\ Final(t, Head(code[t])) => Final(t, s)
      BY <2>1, <2>2 DEF Link, Final
    <2>5. GoesTo(t, s, 1, s)
      BY <2>1, <2>2, <2>3, <2>4, GoesToOne
    <2> QED  BY <2>5 DEF s
  <1>8. ASSUME CheckAuto(t), opMode # AUTO PROVE GoesOn(t)
    BY <1>8, GoesOnStep DEF CheckAuto
  <1>9. ASSUME Decide(t), Arg(t) # OFF \/ expired
        PROVE  GoesTo(t, Do("check_status", Arg(t)), 1, Do("check_status", Arg(t)))
    <2> DEFINE s == Do("check_status", Arg(t))
    <2>1. ~Idle(t) /\ Head(code[t]).op = "decide" /\ Continue(t, << s >>)
      BY <1>9 DEF Decide
    <2>2. s \in Statement /\ s.op = "check_status"
      BY <1>1, <2>1, DoIsStatement DEF Ops
    <2>3. t = "zigbee"
      BY <1>1, <2>1 DEF Own, StatusOps, ModeOps, Tasks
    <2> HIDE DEF s
    <2>4. s.op \in Own(t)
      BY <2>2, <2>3 DEF Own
    <2>5. /\ \A b : Link(t, Head(code[t]), b) => Link(t, s, b)
          /\ Final(t, Head(code[t])) => Final(t, s)
      BY <2>1, <2>2, <2>3 DEF Link, Final
    <2>6. GoesTo(t, s, 1, s)
      BY <2>1, <2>2, <2>4, <2>5, GoesToOne
    <2> QED  BY <2>6 DEF s
  <1>10. ASSUME Decide(t), ~(Arg(t) # OFF \/ expired) PROVE GoesOn(t)
    BY <1>10, GoesOnStep DEF Decide
  <1> QED
    BY <1>2, <1>3, <1>4, <1>5, <1>6, <1>7, <1>8, <1>9, <1>10
\* An idle task takes up a handler of n statements, from s to l.
Begins(t, s, n, l) ==
    /\ Alters(t)
    /\ Idle(t) /\ ~Idle(t)'
    /\ Head(code'[t]) = s /\ Len(code'[t]) = n /\ Last(code'[t]) = l

LEMMA BeginsStep ==
    ASSUME CodeOK, NEW t \in Tasks, NEW seq \in Seq(Statement), seq # << >>,
           WellFormed(t, seq), Start(t, seq)
    PROVE  Begins(t, seq[1], Len(seq), seq[Len(seq)])
  <1>1. code' = [code EXCEPT ![t] = seq] /\ Idle(t)
    BY DEF Start
  <1>2. code'[t] = seq /\ \A u \in Tasks \ {t} : code'[u] = code[u]
    BY <1>1 DEF CodeOK
  <1>3. CodeOK'
    BY <1>1, <1>2 DEF CodeOK, ShapeInv
  <1>4. Head(seq) = seq[1]
    BY SeqHead
  <1> QED  BY <1>1, <1>2, <1>3, <1>4 DEF Begins, Alters, Idle, Last

LEMMA BeginsOne ==
    ASSUME CodeOK, NEW t \in Tasks, NEW s \in Statement,
           s.op \in Own(t), Final(t, s), Start(t, << s >>)
    PROVE  Begins(t, s, 1, s)
  <1> DEFINE seq == << s >>
  <1>1. seq \in Seq(Statement) /\ Len(seq) = 1 /\ seq # << >> /\ seq[1] = s
    BY Tuples
  <1>2. Start(t, seq)
    OBVIOUS
  <1> HIDE DEF seq
  <1>3. WellFormed(t, seq)
    BY <1>1 DEF WellFormed
  <1> QED  BY <1>1, <1>2, <1>3, BeginsStep

LEMMA Handlers ==
    ASSUME CodeOK, cached \in OpMode
    PROVE  /\ PressMode => Begins("timer", Do("advance_mode", OFF), 1,
                                           Do("advance_mode", OFF))
           /\ PressStatus => Begins("timer", Do("check_mode", LOCAL_MODE), 3,
                                             Do("redrive", OFF))
           /\ WebAuto => Begins("httpd", Do("check_mode", AUTO), 1,
                                         Do("check_mode", AUTO))
           /\ \A s \in Requested : WebOperation(s) =>
                  Begins("httpd", Do("check_status", s), 2, Do("check_mode", API))
           /\ \A s \in Reported : Report(s) =>
                  Begins("zigbee", Do("check_auto", s), 1, Do("check_auto", s))
           /\ RestoreOpMode => Begins("main", Do("check_mode", cached), 1,
                                              Do("check_mode", cached))
  <1>0. /\ "timer" \in Tasks /\ "httpd" \in Tasks /\ "zigbee" \in Tasks
        /\ "main" \in Tasks
    BY DEF Tasks
  <1>1. ASSUME PressMode
        PROVE  Begins("timer", Do("advance_mode", OFF), 1, Do("advance_mode", OFF))
    <2> DEFINE s == Do("advance_mode", OFF)
    <2>1. s \in Statement /\ s.op = "advance_mode" /\ Start("timer", << s >>)
      BY <1>1, DoIsStatement DEF PressMode, Ops
    <2> HIDE DEF s
    <2>2. s.op \in Own("timer") /\ Final("timer", s)
      BY <2>1 DEF Own, Ops, Final
    <2>3. Begins("timer", s, 1, s)
      BY <1>0, <2>1, <2>2, BeginsOne
    <2> QED  BY <2>3 DEF s
  <1>2. ASSUME PressStatus
        PROVE  Begins("timer", Do("check_mode", LOCAL_MODE), 3, Do("redrive", OFF))
    <2> DEFINE seq == StatusPress
    <2>1. /\ Do("check_mode", LOCAL_MODE) \in Statement
          /\ Do("check_mode", LOCAL_MODE).op = "check_mode"
          /\ Do("advance_status", OFF) \in Statement
          /\ Do("advance_status", OFF).op = "advance_status"
          /\ Do("redrive", OFF) \in Statement
          /\ Do("redrive", OFF).op = "redrive"
      BY DoIsStatement DEF Ops
    <2>2. /\ seq \in Seq(Statement) /\ Len(seq) = 3 /\ seq # << >>
          /\ seq[1] = Do("check_mode", LOCAL_MODE)
          /\ seq[2] = Do("advance_status", OFF) /\ seq[3] = Do("redrive", OFF)
      BY <2>1, Tuples DEF StatusPress
    <2>3. Start("timer", seq)
      BY <1>2 DEF PressStatus
    <2> HIDE DEF seq
    <2>4. WellFormed("timer", seq)
      <3>1. 1 .. 3 = {1, 2, 3} /\ 1 .. 3 - 1 = {1, 2}
        OBVIOUS
      <3>2. \A i \in 1 .. 3 : seq[i].op \in Own("timer")
        BY <2>1, <2>2, <3>1 DEF Own, Ops
      <3>3. \A i \in 1 .. 3 - 1 : Link("timer", seq[i], seq[i + 1])
        BY <2>1, <2>2, <3>1 DEF Link
      <3>4. Final("timer", seq[3])
        BY <2>1, <2>2 DEF Final
      <3> QED  BY <2>2, <3>2, <3>3, <3>4 DEF WellFormed
    <2>5. Begins("timer", seq[1], Len(seq), seq[Len(seq)])
      BY <1>0, <2>2, <2>3, <2>4, BeginsStep
    <2> QED  BY <2>2, <2>5
  <1>3. ASSUME WebAuto
        PROVE  Begins("httpd", Do("check_mode", AUTO), 1, Do("check_mode", AUTO))
    <2> DEFINE s == Do("check_mode", AUTO)
    <2>1. s \in Statement /\ s.op = "check_mode" /\ Start("httpd", << s >>)
      BY <1>3, DoIsStatement DEF WebAuto, Ops
    <2> HIDE DEF s
    <2>2. s.op \in Own("httpd") /\ Final("httpd", s)
      BY <2>1 DEF Own, Final
    <2>3. Begins("httpd", s, 1, s)
      BY <1>0, <2>1, <2>2, BeginsOne
    <2> QED  BY <2>3 DEF s
  <1>4. ASSUME NEW s \in Requested, WebOperation(s)
        PROVE  Begins("httpd", Do("check_status", s), 2, Do("check_mode", API))
    <2> DEFINE a == Do("check_status", s)
               b == Do("check_mode", API)
               seq == << a, b >>
    <2>1. /\ a \in Statement /\ a.op = "check_status"
          /\ b \in Statement /\ b.op = "check_mode" /\ b.arg = API
      BY SpeedsAssumption, DoIsStatement DEF Ops
    <2>2. Start("httpd", seq)
      BY <1>4 DEF WebOperation
    <2> HIDE DEF a, b
    <2>3. /\ seq \in Seq(Statement) /\ Len(seq) = 2 /\ seq # << >>
          /\ seq[1] = a /\ seq[2] = b
      BY <2>1, Tuples
    <2> HIDE DEF seq
    <2>4. WellFormed("httpd", seq)
      <3>1. 1 .. 2 = {1, 2} /\ 1 .. 2 - 1 = {1}
        OBVIOUS
      <3>2. \A i \in 1 .. 2 : seq[i].op \in Own("httpd")
        BY <2>1, <2>3, <3>1 DEF Own
      <3>3. \A i \in 1 .. 2 - 1 : Link("httpd", seq[i], seq[i + 1])
        BY <2>1, <2>3, <3>1 DEF Link
      <3>4. Final("httpd", seq[2])
        BY <2>1, <2>3 DEF Final
      <3> QED  BY <2>3, <3>2, <3>3, <3>4 DEF WellFormed
    <2>5. Begins("httpd", seq[1], Len(seq), seq[Len(seq)])
      BY <1>0, <2>2, <2>3, <2>4, BeginsStep
    <2> QED  BY <2>3, <2>5 DEF a, b
  <1>5. ASSUME NEW s \in Reported, Report(s)
        PROVE  Begins("zigbee", Do("check_auto", s), 1, Do("check_auto", s))
    <2> DEFINE a == Do("check_auto", s)
    <2>1. a \in Statement /\ a.op = "check_auto" /\ Start("zigbee", << a >>)
      BY <1>5, SpeedsAssumption, DoIsStatement DEF Report, Ops
    <2> HIDE DEF a
    <2>2. a.op \in Own("zigbee") /\ Final("zigbee", a)
      BY <2>1 DEF Own, Final
    <2>3. Begins("zigbee", a, 1, a)
      BY <1>0, <2>1, <2>2, BeginsOne
    <2> QED  BY <2>3 DEF a
  <1>6. ASSUME RestoreOpMode
        PROVE  Begins("main", Do("check_mode", cached), 1, Do("check_mode", cached))
    <2> DEFINE s == Do("check_mode", cached)
    <2>1. s \in Statement /\ s.op = "check_mode" /\ Start("main", << s >>)
      BY <1>6, DoIsStatement DEF RestoreOpMode, Ops
    <2> HIDE DEF s
    <2>2. s.op \in Own("main") /\ Final("main", s)
      BY <2>1 DEF Own, Final
    <2>3. Begins("main", s, 1, s)
      BY <1>0, <2>1, <2>2, BeginsOne
    <2> QED  BY <2>3 DEF s
  <1> QED  BY <1>1, <1>2, <1>3, <1>4, <1>5, <1>6

-----------------------------------------------------------------------------
(***************************************************************************)
(* Types, and the place of the second handleStateChange                    *)
(***************************************************************************)
LEMMA RelaysEffects ==
    ASSUME relays \in Relays
    PROVE  /\ LET r == [relays EXCEPT !["low_speed"] = 1]
              IN  r \in Relays /\ r["low_speed"] = 1
           /\ LET r == [relays EXCEPT !["high_speed"] = 1]
              IN  r \in Relays /\ (relays["low_speed"] = 1 => r = Released)
           /\ \A a \in MachineStatus :
                  LET r == [p \in Pins |-> IF p \in EnergisedBy(a) THEN 0
                                                                   ELSE relays[p]]
                  IN  r \in Relays /\ (relays = Released => r = RelaysFor(a))
  BY DEF Relays, Released, RelaysFor, EnergisedBy, Pins

LEMMA AdvanceType == \A x \in OpMode : Advance(x) \in OpMode /\ Advance(x) # x
  BY DEF Advance

\* What a statement does to the globals.
LEMMA TypeOfExecute ==
    ASSUME TypeOK, ShapeInv, NEW t \in Tasks, Execute(t)
    PROVE  /\ opMode' \in OpMode /\ status' \in MachineStatus
           /\ expired' \in BOOLEAN /\ relays' \in Relays
           /\ cached' \in OpMode /\ flash' \in OpMode /\ restored' \in BOOLEAN
  <1>0. CodeOK
    BY DEF TypeOK, CodeOK
  <1>1. ~Idle(t) /\ MayRun(t)
    BY DEF Execute, Executes, At, CheckMode, AssignMode, CacheMode, WriteMode,
           AdvanceMode, CheckStatus, Stamp, ReleaseLow, ReleaseHigh, Energise,
           RecordStatus, AdvanceStatus, Redrive, CheckAuto, Decide
  <1>2. Arg(t) \in OpMode /\ Arg(t) \in MachineStatus
    BY <1>0, <1>1, HeadFacts
  <1> USE DEF TypeOK
  <1>3. CASE CheckMode(t) \/ AdvanceMode(t) \/ CheckStatus(t) \/ AdvanceStatus(t)
             \/ Redrive(t) \/ CheckAuto(t) \/ Decide(t)
    BY <1>3 DEF CheckMode, AdvanceMode, CheckStatus, AdvanceStatus, Redrive,
                CheckAuto, Decide
  <1>4. CASE AssignMode(t)
    BY <1>2, <1>4 DEF AssignMode
  <1>5. CASE CacheMode(t)
    BY <1>2, <1>5 DEF CacheMode
  <1>6. CASE WriteMode(t)
    BY <1>2, <1>6 DEF WriteMode
  <1>7. CASE Stamp(t)
    <2>1. expired' = (expired /\ Arg(t) = OFF)
      BY <1>7 DEF Stamp
    <2>2. expired' \in BOOLEAN
      BY <2>1
    <2> QED  BY <1>7, <2>2 DEF Stamp
  <1>8. CASE ReleaseLow(t)
    BY <1>8, RelaysEffects DEF ReleaseLow
  <1>9. CASE ReleaseHigh(t)
    BY <1>9, RelaysEffects DEF ReleaseHigh
  <1>10. CASE Energise(t)
    BY <1>2, <1>10, RelaysEffects DEF Energise
  <1>11. CASE RecordStatus(t)
    BY <1>2, <1>11 DEF RecordStatus
  <1> QED
    BY <1>3, <1>4, <1>5, <1>6, <1>7, <1>8, <1>9, <1>10, <1>11 DEF Execute

\* A statement alters the code of its task only.
LEMMA ExecuteAlters ==
    ASSUME TypeOK, ShapeInv, NEW t \in Tasks, Execute(t)
    PROVE  ~Idle(t) /\ MayRun(t) /\ Alters(t)
  <1>0. CodeOK /\ opMode \in OpMode /\ status \in MachineStatus
    BY DEF TypeOK, CodeOK
  <1>1. ~Idle(t) /\ MayRun(t)
    BY DEF Execute, Executes, At, CheckMode, AssignMode, CacheMode, WriteMode,
           AdvanceMode, CheckStatus, Stamp, ReleaseLow, ReleaseHigh, Energise,
           RecordStatus, AdvanceStatus, Redrive, CheckAuto, Decide
  <1>2. CASE CheckMode(t) \/ AssignMode(t) \/ CacheMode(t) \/ WriteMode(t)
             \/ AdvanceMode(t)
    <2>1. GoesOn(t) \/ \E s, n, l : GoesTo(t, s, n, l)
      <3>1. CASE CheckMode(t)
        BY <1>0, <3>1, ModeStatements
      <3>2. CASE CacheMode(t)
        BY <1>0, <3>2, ModeStatements
      <3>3. CASE AdvanceMode(t)
        BY <1>0, <3>3, ModeStatements
      <3>4. CASE AssignMode(t) \/ WriteMode(t)
        BY <1>0, <3>4, ModeStatements
      <3> QED  BY <1>2, <3>1, <3>2, <3>3, <3>4
    <2> QED  BY <1>1, <2>1 DEF GoesOn, GoesTo
  <1>3. CASE CheckStatus(t) \/ Stamp(t) \/ ReleaseLow(t) \/ ReleaseHigh(t)
             \/ Energise(t) \/ RecordStatus(t) \/ AdvanceStatus(t) \/ Redrive(t)
             \/ CheckAuto(t) \/ Decide(t)
    <2>1. GoesOn(t) \/ \E s, n, l : GoesTo(t, s, n, l)
      <3>1. CASE CheckStatus(t)
        BY <1>0, <3>1, StatusStatements
      <3>2. CASE AdvanceStatus(t)
        BY <1>0, <3>2, StatusStatements
      <3>3. CASE Redrive(t)
        BY <1>0, <3>3, StatusStatements
      <3>4. CASE CheckAuto(t)
        BY <1>0, <3>4, StatusStatements
      <3>5. CASE Decide(t)
        BY <1>0, <3>5, StatusStatements
      <3>6. CASE Stamp(t) \/ ReleaseLow(t) \/ ReleaseHigh(t) \/ Energise(t)
                 \/ RecordStatus(t)
        BY <1>0, <3>6, StatusStatements
      <3> QED  BY <1>3, <3>1, <3>2, <3>3, <3>4, <3>5, <3>6
    <2> QED  BY <1>1, <2>1 DEF GoesOn, GoesTo
  <1> QED  BY <1>1, <1>2, <1>3 DEF Execute

\* An event starts a handler and touches none of the globals.
LEMMA EventBegins ==
    ASSUME TypeOK, ShapeInv, Event
    PROVE  /\ \E t \in Tasks, s, l \in Statement, n \in {1, 2, 3} :
                 /\ Begins(t, s, n, l) /\ MayRun(t)
                 /\ s.op \notin StatusOps \cup ModeOps
                 /\ l.op # "energise"
           /\ UNCHANGED <<opMode, status, expired, relays, cached, flash>>
           /\ restored' \in BOOLEAN
  <1>0. CodeOK /\ cached \in OpMode
    BY DEF TypeOK, CodeOK
  <1>1. /\ "timer" \in Tasks /\ "httpd" \in Tasks /\ "zigbee" \in Tasks
        /\ "main" \in Tasks
    BY DEF Tasks
  <1>2. \A o \in Ops, a \in OpMode :
            Do(o, a) \in Statement /\ Do(o, a).op = o
    BY DoIsStatement
  <1>3. /\ {"advance_mode", "check_mode", "redrive", "check_status", "check_auto"}
               \subseteq Ops
        /\ {"advance_mode", "check_mode", "redrive", "check_status", "check_auto"}
               \cap (StatusOps \cup ModeOps) = {}
    BY DEF Ops, StatusOps, ModeOps
  <1>4. /\ UNCHANGED <<opMode, status, expired, relays, cached, flash>>
        /\ restored' \in BOOLEAN
    BY DEF Event, PressMode, PressStatus, WebAuto, RestoreOpMode, WebOperation,
           Report, Start, TypeOK
  <1>5. CASE PressMode
    <2>1. Begins("timer", Do("advance_mode", OFF), 1, Do("advance_mode", OFF))
      BY <1>0, <1>5, Handlers
    <2>2. MayRun("timer")
      BY <1>5 DEF PressMode, Start
    <2>3. /\ Do("advance_mode", OFF) \in Statement
          /\ Do("advance_mode", OFF).op = "advance_mode"
      BY <1>2, <1>3
    <2> QED  BY <1>1, <1>3, <1>4, <2>1, <2>2, <2>3
  <1>6. CASE PressStatus
    <2>1. Begins("timer", Do("check_mode", LOCAL_MODE), 3, Do("redrive", OFF))
      BY <1>0, <1>6, Handlers
    <2>2. MayRun("timer")
      BY <1>6 DEF PressStatus, Start
    <2>3. /\ Do("check_mode", LOCAL_MODE) \in Statement
          /\ Do("check_mode", LOCAL_MODE).op = "check_mode"
          /\ Do("redrive", OFF) \in Statement /\ Do("redrive", OFF).op = "redrive"
      BY <1>2, <1>3
    <2> QED  BY <1>1, <1>3, <1>4, <2>1, <2>2, <2>3
  <1>7. CASE WebAuto
    <2>1. Begins("httpd", Do("check_mode", AUTO), 1, Do("check_mode", AUTO))
      BY <1>0, <1>7, Handlers
    <2>2. MayRun("httpd")
      BY <1>7 DEF WebAuto, Start
    <2>3. /\ Do("check_mode", AUTO) \in Statement
          /\ Do("check_mode", AUTO).op = "check_mode"
      BY <1>2, <1>3
    <2> QED  BY <1>1, <1>3, <1>4, <2>1, <2>2, <2>3
  <1>8. CASE RestoreOpMode
    <2>1. Begins("main", Do("check_mode", cached), 1, Do("check_mode", cached))
      BY <1>0, <1>8, Handlers
    <2>2. MayRun("main")
      BY <1>8 DEF RestoreOpMode, Start
    <2>3. /\ Do("check_mode", cached) \in Statement
          /\ Do("check_mode", cached).op = "check_mode"
      BY <1>0, <1>2, <1>3
    <2> QED  BY <1>1, <1>3, <1>4, <2>1, <2>2, <2>3
  <1>9. CASE \E s \in Requested : WebOperation(s)
    <2>1. PICK s \in Requested : WebOperation(s)
      BY <1>9
    <2>2. Begins("httpd", Do("check_status", s), 2, Do("check_mode", API))
      BY <1>0, <2>1, Handlers
    <2>3. MayRun("httpd")
      BY <2>1 DEF WebOperation, Start
    <2>4. /\ Do("check_status", s) \in Statement
          /\ Do("check_status", s).op = "check_status"
          /\ Do("check_mode", API) \in Statement
          /\ Do("check_mode", API).op = "check_mode"
      BY <1>2, <1>3, SpeedsAssumption
    <2> QED  BY <1>1, <1>3, <1>4, <2>2, <2>3, <2>4
  <1>10. CASE \E s \in Reported : Report(s)
    <2>1. PICK s \in Reported : Report(s)
      BY <1>10
    <2>2. Begins("zigbee", Do("check_auto", s), 1, Do("check_auto", s))
      BY <1>0, <2>1, Handlers
    <2>3. MayRun("zigbee")
      BY <2>1 DEF Report, Start
    <2>4. /\ Do("check_auto", s) \in Statement
          /\ Do("check_auto", s).op = "check_auto"
      BY <1>2, <1>3, SpeedsAssumption
    <2> QED  BY <1>1, <1>3, <1>4, <2>2, <2>3, <2>4
  <1> QED  BY <1>5, <1>6, <1>7, <1>8, <1>9, <1>10 DEF Event

LEMMA ObserveType ==
    ASSUME TypeOK, Observe
    PROVE  raced' \in BOOLEAN /\ racedMode' \in BOOLEAN /\ unsaved' \in BOOLEAN
  BY DEF TypeOK, Observe

LEMMA TypeNext ==
    ASSUME TypeOK, ShapeInv, [Next]_vars PROVE TypeOK' /\ ShapeInv'
  <1>0. CodeOK
    BY DEF TypeOK, CodeOK
  <1>1. CASE Event /\ Observe
    <2>1. CodeOK'
      BY <1>1, EventBegins DEF Begins, Alters
    <2> QED
      BY <1>1, <2>1, EventBegins, ObserveType DEF TypeOK, CodeOK
  <1>2. CASE Expire /\ Observe
    <2>1. CodeOK'
      BY <1>0, <1>2 DEF Expire, CodeOK, ShapeInv
    <2> QED  BY <1>2, <2>1, ObserveType DEF TypeOK, CodeOK, Expire
  <1>3. ASSUME NEW t \in Tasks, Execute(t), Observe PROVE TypeOK' /\ ShapeInv'
    <2>1. CodeOK'
      BY <1>3, ExecuteAlters DEF Alters
    <2> QED  BY <1>3, <2>1, TypeOfExecute, ObserveType DEF TypeOK, CodeOK
  <1>4. CASE UNCHANGED vars
    BY <1>4 DEF vars, state, TypeOK, ShapeInv
  <1> QED  BY <1>1, <1>2, <1>3, <1>4 DEF Next

\* A handler that goes on keeps its place in the second handleStateChange ...
LEMMA RedriveGoesOn ==
    ASSUME CodeOK, RedriveInv, NEW t \in Tasks, ~Idle(t), GoesOn(t)
    PROVE  RedriveInv'
  <1> SUFFICES ASSUME NEW u \in Tasks, Redriving(u)'
               PROVE  (\/ At(u, "release_low")  /\ Len(code[u]) = 3
                       \/ At(u, "release_high") /\ Len(code[u]) = 2
                       \/ At(u, "energise")     /\ Len(code[u]) = 1)'
    BY DEF RedriveInv
  <1>1. CASE u # t
    BY <1>1 DEF GoesOn, Alters, RedriveInv, Redriving, At, Idle
  <1>2. CASE u = t
    <2>1. /\ ~Idle(t)' /\ Len(code[t]) # 1 /\ Len(code'[t]) = Len(code[t]) - 1
          /\ Link(t, Head(code[t]), Head(code'[t]))
          /\ Redriving(t)
      BY <1>2 DEF GoesOn, Redriving
    <2>2. CASE At(t, "release_low") /\ Len(code[t]) = 3
      BY <1>2, <2>1, <2>2 DEF At, Link
    <2>3. CASE At(t, "release_high") /\ Len(code[t]) = 2
      BY <1>2, <2>1, <2>3 DEF At, Link
    <2> QED  BY <2>1, <2>2, <2>3 DEF RedriveInv
  <1> QED  BY <1>1, <1>2

\* ... and one that goes on to other statements is not there, nor gets there
\* if they do not end with a pin.
LEMMA RedriveGoesTo ==
    ASSUME CodeOK, RedriveInv, NEW t \in Tasks, ~Idle(t),
           Head(code[t]).op \notin StatusOps,
           NEW s, NEW n, NEW l, GoesTo(t, s, n, l), l.op # "energise"
    PROVE  RedriveInv' /\ ~Redriving(t)'
  <1>1. ~Redriving(t)
    BY DEF RedriveInv, At, StatusOps
  <1>2. ~Redriving(t)'
    BY <1>1 DEF GoesTo, Redriving
  <1>3. \A u \in Tasks \ {t} : code'[u] = code[u]
    BY DEF GoesTo, Alters
  <1> QED  BY <1>2, <1>3 DEF RedriveInv, Redriving, At, Idle

LEMMA RedriveRedrive ==
    ASSUME CodeOK, RedriveInv, NEW t \in Tasks, ~Idle(t),
           Head(code[t]).op = "redrive",
           NEW s \in MachineStatus,
           GoesTo(t, Do("release_low", s), 3, Do("energise", s))
    PROVE  RedriveInv'
  <1>1. ~Redriving(t)
    BY DEF RedriveInv, At
  <1>2. Head(code'[t]).op = "release_low" /\ ~Idle(t)'
    BY DoIsStatement DEF GoesTo, Ops
  <1>3. Redriving(t)' => Len(code[t]) = 1
    BY <1>1 DEF GoesTo, Redriving
  <1>4. Redriving(t)' => Len(code'[t]) = 3
    <2>1. Len(code'[t]) = 3 + Len(code[t]) - 1
      BY DEF GoesTo
    <2>2. \A n : n = 1 => 3 + n - 1 = 3
      OBVIOUS
    <2> QED  BY <1>3, <2>1, <2>2
  <1>5. \A u \in Tasks \ {t} : code'[u] = code[u]
    BY DEF GoesTo, Alters
  <1> QED  BY <1>2, <1>4, <1>5 DEF RedriveInv, Redriving, At, Idle

LEMMA RedriveNext ==
    ASSUME TypeOK, ShapeInv, RedriveInv, [Next]_vars PROVE RedriveInv'
  <1>0. CodeOK /\ opMode \in OpMode /\ status \in MachineStatus
    BY DEF TypeOK, CodeOK
  <1>1. CASE Event
    <2>1. PICK t \in Tasks, s \in Statement, l \in Statement, n \in {1, 2, 3} :
              Begins(t, s, n, l) /\ l.op # "energise"
      BY <1>1, EventBegins
    <2> QED  BY <2>1 DEF Begins, Alters, RedriveInv, Redriving, At, Idle
  <1>2. CASE Expire \/ UNCHANGED vars
    BY <1>2 DEF Expire, vars, state, RedriveInv, Redriving, At, Idle
  <1>3. ASSUME NEW t \in Tasks, Execute(t) PROVE RedriveInv'
    <2>0. ~Idle(t) /\ Arg(t) \in OpMode
      BY <1>0, <1>3, ExecuteAlters, HeadFacts
    <2>1. CASE GoesOn(t)
      BY <1>0, <2>0, <2>1, RedriveGoesOn
    <2> SUFFICES ASSUME ~GoesOn(t) PROVE RedriveInv'
      BY <2>1
    <2>2. \A o \in Ops, a \in OpMode : Do(o, a).op = o
      BY DoIsStatement
    <2>3. {"cache_mode", "write_mode", "check_mode", "record_status",
           "check_status", "decide"} \subseteq Ops
      BY DEF Ops
    <2>4. CASE CheckMode(t) \/ CacheMode(t) \/ AdvanceMode(t)
      <3>1. Head(code[t]).op \notin StatusOps
        BY <2>4 DEF CheckMode, CacheMode, AdvanceMode, Executes, At, StatusOps
      <3>2. \E s, n, l : GoesTo(t, s, n, l) /\ l.op # "energise"
        <4>1. CASE CheckMode(t)
          BY <1>0, <2>0, <2>2, <2>3, <4>1, ModeStatements
        <4>2. CASE CacheMode(t)
          BY <1>0, <2>0, <2>2, <2>3, <4>2, ModeStatements
        <4>3. CASE AdvanceMode(t)
          BY <1>0, <2>0, <2>2, <2>3, <4>3, ModeStatements
        <4> QED  BY <2>4, <4>1, <4>2, <4>3
      <3> QED  BY <1>0, <2>0, <3>1, <3>2, RedriveGoesTo
    <2>5. CASE CheckStatus(t) \/ AdvanceStatus(t) \/ CheckAuto(t) \/ Decide(t)
      <3>1. Head(code[t]).op \notin StatusOps
        BY <2>5 DEF CheckStatus, AdvanceStatus, CheckAuto, Decide, Executes, At,
                    StatusOps
      <3>2. \E s, n, l : GoesTo(t, s, n, l) /\ l.op # "energise"
        <4>1. CASE CheckStatus(t)
          BY <1>0, <2>0, <2>2, <2>3, <4>1, StatusStatements
        <4>2. CASE AdvanceStatus(t)
          BY <1>0, <2>0, <2>2, <2>3, <4>2, StatusStatements
        <4>3. CASE CheckAuto(t)
          BY <1>0, <2>0, <2>2, <2>3, <4>3, StatusStatements
        <4>4. CASE Decide(t)
          BY <1>0, <2>0, <2>2, <2>3, <4>4, StatusStatements
        <4> QED  BY <2>5, <4>1, <4>2, <4>3, <4>4
      <3> QED  BY <1>0, <2>0, <3>1, <3>2, RedriveGoesTo
    <2>6. CASE Redrive(t)
      <3>1. Head(code[t]).op = "redrive"
        BY <2>6 DEF Redrive, Executes, At
      <3> QED
        BY <1>0, <2>0, <2>6, <3>1, StatusStatements, RedriveRedrive
    <2>7. CASE AssignMode(t) \/ WriteMode(t)
      BY <1>0, <2>7, ModeStatements
    <2>8. CASE Stamp(t) \/ ReleaseLow(t) \/ ReleaseHigh(t) \/ Energise(t)
               \/ RecordStatus(t)
      BY <1>0, <2>8, StatusStatements
    <2> QED  BY <1>3, <2>4, <2>5, <2>6, <2>7, <2>8 DEF Execute
  <1> QED  BY <1>1, <1>2, <1>3 DEF Next
-----------------------------------------------------------------------------
(***************************************************************************)
(* The motor                                                               *)
(***************************************************************************)
LEMMA MeetingIs ==
    ASSUME NEW S \in SUBSET Tasks
    PROVE  (\A t, u \in S : t = u) <=> ~(Cardinality(S) > 1)
  <1>1. IsFiniteSet(Tasks)
    <2>1. /\ IsFiniteSet({"timer"}) /\ IsFiniteSet({"httpd"})
          /\ IsFiniteSet({"zigbee"}) /\ IsFiniteSet({"main"})
      BY FS_Singleton
    <2>2. IsFiniteSet({"timer"} \cup {"httpd"}) /\ IsFiniteSet({"zigbee"} \cup {"main"})
      BY <2>1, FS_Union
    <2>3. Tasks = ({"timer"} \cup {"httpd"}) \cup ({"zigbee"} \cup {"main"})
      BY DEF Tasks
    <2> QED  BY <2>2, <2>3, FS_Union
  <1>2. IsFiniteSet(S) /\ Cardinality(S) \in Nat
    BY <1>1, FS_Subset, FS_CardinalityType
  <1>3. ASSUME \A t, u \in S : t = u PROVE ~(Cardinality(S) > 1)
    <2>1. CASE S = {}
      BY <2>1, FS_EmptySet
    <2>2. CASE S # {}
      <3>1. PICK t \in S : TRUE
        BY <2>2
      <3>2. S = {t}
        BY <1>3, <3>1
      <3>3. Cardinality(S) = 1
        BY <3>2, FS_Singleton
      <3> QED  BY <3>3
    <2> QED  BY <2>1, <2>2
  <1>4. ASSUME NEW t \in S, NEW u \in S, t # u PROVE Cardinality(S) > 1
    <2>1. IsFiniteSet(S \ {t}) /\ Cardinality(S \ {t}) = Cardinality(S) - 1
      BY <1>2, FS_RemoveElement
    <2>2. S \ {t} # {}
      BY <1>4
    <2>3. Cardinality(S \ {t}) # 0 /\ Cardinality(S \ {t}) \in Nat
      BY <2>1, <2>2, FS_EmptySet, FS_CardinalityType
    <2> QED  BY <1>2, <2>1, <2>3
  <1> QED  BY <1>3, <1>4

\* When the observer has seen no race, it has seen no meeting, or the STATUS
\* key has just set things right.
LEMMA ObserveRaced ==
    ASSUME Observe, ~raced'
    PROVE  /\ Alone(StatusOps)'
           /\ raced => PressEnds /\ Idle("timer")' /\ ~Open(StatusOps)'
  <1>1. ~Meeting(StatusOps)'
    BY DEF Observe
  <1>2. Alone(StatusOps)'
    <2> DEFINE S == {t \in Tasks : InSection(t, StatusOps)'}
    <2>1. ~(Cardinality(S) > 1)
      BY <1>1 DEF Meeting
    <2>2. \A t, u \in S : t = u
      <3> HIDE DEF S
      <3>1. S \in SUBSET Tasks
        BY DEF S
      <3> QED  BY <2>1, <3>1, MeetingIs
    <2> QED  BY <2>2 DEF Alone
  <1> QED  BY <1>2 DEF Observe, Open

LEMMA ObserveRacedMode ==
    ASSUME TypeOK, Observe, ~racedMode'
    PROVE  Alone(ModeOps)' /\ ~racedMode
  <1>1. ~Meeting(ModeOps)' /\ ~racedMode
    BY DEF Observe
  <1>2. Alone(ModeOps)'
    <2> DEFINE S == {t \in Tasks : InSection(t, ModeOps)'}
    <2>1. ~(Cardinality(S) > 1)
      BY <1>1 DEF Meeting
    <2>2. \A t, u \in S : t = u
      <3> HIDE DEF S
      <3>1. S \in SUBSET Tasks
        BY DEF S
      <3> QED  BY <2>1, <3>1, MeetingIs
    <2> QED  BY <2>2 DEF Alone
  <1> QED  BY <1>1, <1>2

\* A step of t that neither is nor becomes part of a setStatus section.
LEMMA MotorBystander ==
    ASSUME IInv, RedriveInv', NEW t \in Tasks, Alters(t), Observe,
           UNCHANGED <<status, relays>>,
           ~InSection(t, StatusOps), ~InSection(t, StatusOps)'
    PROVE  MotorInv'
  <1>0. "timer" \in Tasks
    BY DEF Tasks
  <1>1. \A u \in Tasks \ {t} : code'[u] = code[u]
    BY DEF Alters
  <1>2. \A u \in Tasks : InSection(u, StatusOps)' <=> InSection(u, StatusOps)
    BY <1>1 DEF InSection, Idle
  <1>3. Halfway(t)'
    BY DEF Halfway, InSection, StatusOps, At, RedriveInv
  <1>4. ASSUME NEW u \in Tasks, Halfway(u) PROVE Halfway(u)'
    <2>1. CASE u # t
      BY <1>1, <1>4, <2>1 DEF Halfway, At, Redriving, Idle, Arg
    <2> QED  BY <1>3, <2>1
  <1>5. ASSUME ~raced' PROVE ~raced
    <2>1. CASE t = "timer"
      BY <1>5, <2>1, ObserveRaced DEF PressEnds, InSection, At, StatusOps
    <2>2. CASE t # "timer"
      BY <1>0, <1>1, <1>5, <2>2, ObserveRaced DEF PressEnds, At, Idle
    <2> QED  BY <2>1, <2>2
  <1>6. MotorInv
    BY DEF IInv
  <1>7. Halfway("timer")'
    BY <1>0, <1>4, <1>6 DEF MotorInv
  <1>8. ASSUME ~raced'
        PROVE  /\ Alone(StatusOps)'
               /\ \A u \in Tasks : Halfway(u)'
               /\ (Open(StatusOps) \/ relays = RelaysFor(status))'
    <2>1. ~raced
      BY <1>5, <1>8
    <2>2. \A u \in Tasks : Halfway(u)'
      BY <1>4, <1>6, <2>1 DEF MotorInv
    <2>3. Open(StatusOps)' \/ relays' = RelaysFor(status')
      <3>1. Open(StatusOps) \/ relays = RelaysFor(status)
        BY <1>6, <2>1 DEF MotorInv
      <3>2. Open(StatusOps) => Open(StatusOps)'
        BY <1>2 DEF Open
      <3>3. RelaysFor(status') = RelaysFor(status) /\ relays' = relays
        OBVIOUS
      <3> QED  BY <3>1, <3>2, <3>3
    <2> QED  BY <1>8, <2>2, <2>3, ObserveRaced
  <1> QED  BY <1>7, <1>8 DEF MotorInv

\* A step of t that is part of a section, or opens one.
LEMMA MotorSection ==
    ASSUME IInv, RedriveInv', NEW t \in Tasks, Alters(t), Observe, MayRun(t),
           InSection(t, StatusOps) \/ InSection(t, StatusOps)',
           Halfway(t) => /\ Halfway(t)'
                         /\ InSection(t, StatusOps)' \/ relays' = RelaysFor(status')
    PROVE  MotorInv'
  <1>0. "timer" \in Tasks
    BY DEF Tasks
  <1>1. \A u \in Tasks \ {t} : code'[u] = code[u]
    BY DEF Alters
  <1>2. \A u \in Tasks \ {t} : InSection(u, StatusOps)' <=> InSection(u, StatusOps)
    BY <1>1 DEF InSection, Idle
  <1>3. ASSUME NEW u \in Tasks, ~InSection(u, StatusOps)' PROVE Halfway(u)'
    BY <1>3 DEF Halfway, InSection, StatusOps, At, RedriveInv
  <1>4. t # "timer" => Waiting("timer")
    BY <1>0 DEF MayRun, Priority, Tasks
  <1>5. t # "timer" => ~InSection("timer", StatusOps)'
    BY <1>0, <1>1, <1>4 DEF Waiting, InSection, StatusOps, At, Idle
  <1>6. MotorInv
    BY DEF IInv
  <1>7. Halfway("timer")'
    <2>1. CASE t = "timer"
      BY <1>6, <2>1 DEF MotorInv
    <2>2. CASE t # "timer"
      BY <1>0, <1>3, <1>5, <2>2
    <2> QED  BY <2>1, <2>2
  <1>8. ASSUME ~raced', raced
        PROVE  /\ \A u \in Tasks : Halfway(u)'
               /\ relays' = RelaysFor(status')
    <2>1. PressEnds /\ ~Open(StatusOps)'
      BY <1>8, ObserveRaced
    <2>2. t = "timer"
      BY <1>4, <2>1 DEF PressEnds, Waiting, At
    <2>3. ~InSection(t, StatusOps)'
      BY <2>1 DEF Open
    <2>4. relays' = RelaysFor(status')
      BY <1>6, <2>2, <2>3 DEF MotorInv
    <2> QED  BY <1>3, <2>1, <2>4 DEF Open
  <1>9. ASSUME ~raced', ~raced
        PROVE  /\ \A u \in Tasks : Halfway(u)'
               /\ InSection(t, StatusOps)' \/ relays' = RelaysFor(status')
    <2>1. Alone(StatusOps) /\ Alone(StatusOps)' /\ Halfway(t)
      BY <1>6, <1>9, ObserveRaced DEF MotorInv
    <2>2. ASSUME NEW u \in Tasks \ {t} PROVE ~InSection(u, StatusOps)'
      BY <1>2, <2>1, <2>2 DEF Alone
    <2>3. ASSUME NEW u \in Tasks PROVE Halfway(u)'
      <3>1. CASE u = t
        BY <2>1, <3>1
      <3>2. CASE u # t
        BY <1>3, <2>2, <3>2
      <3> QED  BY <3>1, <3>2
    <2> QED  BY <2>1, <2>3
  <1>10. ASSUME ~raced'
         PROVE  /\ Alone(StatusOps)'
                /\ \A u \in Tasks : Halfway(u)'
                /\ (Open(StatusOps) \/ relays = RelaysFor(status))'
    <2>1. Alone(StatusOps)'
      BY <1>10, ObserveRaced
    <2>2. CASE raced
      BY <1>8, <1>10, <2>1, <2>2
    <2>3. CASE ~raced
      BY <1>9, <1>10, <2>1, <2>3 DEF Open
    <2> QED  BY <2>1, <2>2, <2>3
  <1> QED  BY <1>7, <1>10 DEF MotorInv

\* The statements of setStatus and of the second handleStateChange, one by one:
\* what is known halfway leads to pins that show the status at the end.
LEMMA HalfwayStep ==
    ASSUME TypeOK, ShapeInv, RedriveInv, RedriveInv', NEW t \in Tasks, Halfway(t),
           \/ (CheckStatus(t) /\ Arg(t) # status) \/ Stamp(t) \/ ReleaseLow(t)
           \/ ReleaseHigh(t) \/ Energise(t) \/ RecordStatus(t) \/ Redrive(t)
    PROVE  /\ Halfway(t)'
           /\ InSection(t, StatusOps)' \/ relays' = RelaysFor(status')
  <1>0. CodeOK /\ status \in MachineStatus
    BY DEF TypeOK, CodeOK
  <1>1. \A o \in Ops, a \in OpMode : Do(o, a).op = o /\ Do(o, a).arg = a
    BY DoIsStatement
  <1>2. ~Idle(t) => Arg(t) \in OpMode
    BY <1>0, HeadFacts
  <1>3. CASE CheckStatus(t) /\ Arg(t) # status
    <2>1. ~Idle(t) /\ Head(code[t]).op = "check_status" /\ UNCHANGED <<status, relays>>
      BY <1>3 DEF CheckStatus, Executes, At
    <2>2. GoesTo(t, Do("stamp", Arg(t)), 5, Do("record_status", Arg(t)))
      BY <1>0, <1>3, StatusStatements
    <2>3. ~Idle(t)' /\ Head(code'[t]).op = "stamp"
      BY <1>1, <1>2, <2>1, <2>2 DEF GoesTo, Ops
    <2> QED  BY <2>3 DEF InSection, StatusOps, Halfway, At, RedriveInv
  <1>4. CASE Redrive(t)
    <2>1. UNCHANGED <<status, relays>>
      BY <1>4 DEF Redrive
    <2>2. GoesTo(t, Do("release_low", status), 3, Do("energise", status))
      BY <1>0, <1>4, StatusStatements
    <2>3. ~Idle(t)' /\ Head(code'[t]).op = "release_low" /\ Arg(t)' = status
      BY <1>0, <1>1, <2>2 DEF GoesTo, Ops, Arg
    <2> QED  BY <2>1, <2>3 DEF InSection, StatusOps, Halfway, At
  <1>5. CASE Stamp(t)
    <2>1. ~Idle(t) /\ Head(code[t]).op = "stamp" /\ UNCHANGED <<status, relays>>
      BY <1>5 DEF Stamp, Executes, At
    <2>2. GoesOn(t)
      BY <1>0, <1>5, StatusStatements
    <2>3. ~Idle(t)' /\ Head(code'[t]).op = "release_low" /\ ~Redriving(t)
      BY <2>1, <2>2 DEF GoesOn, Link, Final, RedriveInv, At
    <2>4. ~Redriving(t)'
      BY <2>1, <2>2, <2>3 DEF GoesOn, Redriving
    <2> QED  BY <2>3, <2>4 DEF InSection, StatusOps, Halfway, At
  <1>6. CASE ReleaseLow(t)
    <2>1. /\ ~Idle(t) /\ Head(code[t]).op = "release_low" /\ UNCHANGED status
          /\ relays' = [relays EXCEPT !["low_speed"] = 1]
      BY <1>6 DEF ReleaseLow, Executes, At
    <2>2. GoesOn(t)
      BY <1>0, <1>6, StatusStatements
    <2>3. /\ ~Idle(t)' /\ Head(code'[t]).op = "release_high" /\ Arg(t)' = Arg(t)
          /\ Redriving(t)' => Redriving(t)
      BY <2>1, <2>2 DEF GoesOn, Link, Final, Arg, Redriving
    <2>4. relays'["low_speed"] = 1
      BY <2>1, RelaysEffects DEF TypeOK
    <2> QED  BY <2>1, <2>3, <2>4 DEF InSection, StatusOps, Halfway, At
  <1>7. CASE ReleaseHigh(t)
    <2>1. /\ ~Idle(t) /\ Head(code[t]).op = "release_high" /\ UNCHANGED status
          /\ relays' = [relays EXCEPT !["high_speed"] = 1]
          /\ relays["low_speed"] = 1
      BY <1>7 DEF ReleaseHigh, Executes, At, Halfway
    <2>2. GoesOn(t)
      BY <1>0, <1>7, StatusStatements
    <2>3. /\ ~Idle(t)' /\ Head(code'[t]).op = "energise" /\ Arg(t)' = Arg(t)
          /\ Redriving(t)' => Redriving(t)
      BY <2>1, <2>2 DEF GoesOn, Link, Final, Arg, Redriving
    <2>4. relays' = Released
      BY <2>1, RelaysEffects DEF TypeOK
    <2> QED  BY <2>1, <2>3, <2>4 DEF InSection, StatusOps, Halfway, At
  <1>8. CASE Energise(t)
    <2>1. /\ ~Idle(t) /\ Head(code[t]).op = "energise" /\ UNCHANGED status
          /\ relays = Released
          /\ relays' = [p \in Pins |-> IF p \in EnergisedBy(Arg(t)) THEN 0
                                                                   ELSE relays[p]]
      BY <1>8 DEF Energise, Executes, At, Halfway
    <2>2. GoesOn(t)
      BY <1>0, <1>8, StatusStatements
    <2>3. relays' = RelaysFor(Arg(t))
      BY <1>2, <2>1, RelaysEffects DEF TypeOK
    <2>5. CASE Idle(t)'
      <3>1. Len(code[t]) = 1
        BY <2>2, <2>5 DEF GoesOn
      <3>2. Last(code[t]) = Head(code[t])
        <4>1. code[t] \in Seq(Statement) /\ code[t] # << >>
          BY <1>0, <2>1 DEF CodeOK, Idle
        <4>2. Head(code[t]) = code[t][1]
          BY <4>1, SeqHead
        <4> QED  BY <3>1, <4>2 DEF Last
      <3>3. Redriving(t)
        BY <2>1, <3>2 DEF Redriving
      <3>4. Arg(t) = status
        BY <3>3 DEF Halfway
      <3>5. relays' = RelaysFor(status')
        BY <2>1, <2>3, <3>4
      <3>6. Halfway(t)'
        BY <2>5 DEF Halfway, At, Redriving
      <3> QED  BY <3>5, <3>6
    <2>6. CASE ~Idle(t)'
      <3>1. Head(code'[t]).op = "record_status" /\ Arg(t)' = Arg(t)
        BY <2>1, <2>2, <2>6 DEF GoesOn, Link, Arg
      <3>2. ~Redriving(t)'
        BY <3>1 DEF RedriveInv, At
      <3>3. InSection(t, StatusOps)'
        BY <2>6, <3>1 DEF InSection, StatusOps
      <3>4. relays' = RelaysFor(Arg(t)')
        BY <2>3, <3>1
      <3> QED  BY <3>1, <3>2, <3>3, <3>4 DEF Halfway, At
    <2> QED  BY <2>5, <2>6
  <1>9. CASE RecordStatus(t)
    <2>1. /\ ~Idle(t) /\ Head(code[t]).op = "record_status" /\ UNCHANGED relays
          /\ relays = RelaysFor(Arg(t)) /\ status' = Arg(t)
      BY <1>9 DEF RecordStatus, Executes, At, Halfway
    <2>2. GoesOn(t)
      BY <1>0, <1>9, StatusStatements
    <2>3. Idle(t)' \/ Head(code'[t]).op \in {"redrive", "check_mode"}
      BY <2>1, <2>2 DEF GoesOn, Link
    <2>4. Halfway(t)'
      BY <2>3 DEF Halfway, At, Redriving, RedriveInv
    <2>5. relays' = RelaysFor(status')
      BY <2>1
    <2> QED  BY <2>4, <2>5
  <1> QED  BY <1>3, <1>4, <1>5, <1>6, <1>7, <1>8, <1>9

\* The statements that are no part of a section, nor the last before one.
LEMMA StaysOut ==
    ASSUME CodeOK, opMode \in OpMode, status \in MachineStatus,
           NEW t \in Tasks, ~Idle(t),
           \/ CheckMode(t) \/ AssignMode(t) \/ CacheMode(t) \/ WriteMode(t)
           \/ AdvanceMode(t) \/ (CheckStatus(t) /\ Arg(t) = status)
           \/ AdvanceStatus(t) \/ CheckAuto(t) \/ Decide(t)
    PROVE  ~InSection(t, StatusOps)'
  <1>0. Arg(t) \in OpMode
    BY HeadFacts
  <1>1. \A o \in Ops, a \in OpMode : Do(o, a).op = o
    BY DoIsStatement
  <1>2. {"assign_mode", "write_mode", "check_mode", "check_status", "decide"}
            \subseteq Ops \ StatusOps
    BY DEF Ops, StatusOps
  <1>3. CASE GoesOn(t)
    <2>1. ~Idle(t)' => Link(t, Head(code[t]), Head(code'[t]))
      BY <1>3 DEF GoesOn
    <2>2. Head(code[t]).op \notin StatusOps
      BY DEF CheckMode, AssignMode, CacheMode, WriteMode, AdvanceMode,
             CheckStatus, AdvanceStatus, CheckAuto, Decide, Executes, At,
             StatusOps
    <2>3. Head(code[t]).op \in Ops
      BY HeadFacts
    <2>4. ~Idle(t)' => Head(code'[t]).op \notin StatusOps
      BY <2>1, <2>2, <2>3 DEF Link, StatusOps, Ops
    <2> QED  BY <2>4 DEF InSection
  <1>4. ASSUME NEW s, NEW n, NEW l, GoesTo(t, s, n, l), s.op \in Ops \ StatusOps
        PROVE  ~InSection(t, StatusOps)'
    BY <1>4 DEF GoesTo, InSection
  <1>5. CASE CheckMode(t)
    BY <1>0, <1>1, <1>2, <1>3, <1>4, <1>5, ModeStatements
  <1>6. CASE CacheMode(t)
    BY <1>0, <1>1, <1>2, <1>3, <1>4, <1>6, ModeStatements
  <1>7. CASE AdvanceMode(t)
    BY <1>0, <1>1, <1>2, <1>3, <1>4, <1>7, ModeStatements
  <1>8. CASE AssignMode(t) \/ WriteMode(t)
    BY <1>3, <1>8, ModeStatements
  <1>9. CASE CheckStatus(t) /\ Arg(t) = status
    BY <1>3, <1>9, StatusStatements
  <1>10. CASE AdvanceStatus(t)
    BY <1>0, <1>1, <1>2, <1>3, <1>4, <1>10, StatusStatements
  <1>11. CASE CheckAuto(t)
    BY <1>0, <1>1, <1>2, <1>3, <1>4, <1>11, StatusStatements
  <1>12. CASE Decide(t)
    BY <1>0, <1>1, <1>2, <1>3, <1>4, <1>12, StatusStatements
  <1> QED  BY <1>5, <1>6, <1>7, <1>8, <1>9, <1>10, <1>11, <1>12

\* The others are, or open one.
LEMMA OpensSection ==
    ASSUME CodeOK, status \in MachineStatus, NEW t \in Tasks, ~Idle(t),
           \/ (CheckStatus(t) /\ Arg(t) # status) \/ Stamp(t) \/ ReleaseLow(t)
           \/ ReleaseHigh(t) \/ Energise(t) \/ RecordStatus(t) \/ Redrive(t)
    PROVE  InSection(t, StatusOps) \/ InSection(t, StatusOps)'
  <1>1. CASE CheckStatus(t) /\ Arg(t) # status
    <2>1. GoesTo(t, Do("stamp", Arg(t)), 5, Do("record_status", Arg(t)))
      BY <1>1, StatusStatements
    <2>2. Do("stamp", Arg(t)).op = "stamp"
      BY DoIsStatement, HeadFacts DEF Ops
    <2> QED  BY <2>1, <2>2 DEF GoesTo, InSection, StatusOps
  <1>2. CASE Redrive(t)
    <2>1. GoesTo(t, Do("release_low", status), 3, Do("energise", status))
      BY <1>2, StatusStatements
    <2>2. Do("release_low", status).op = "release_low"
      BY DoIsStatement DEF Ops
    <2> QED  BY <2>1, <2>2 DEF GoesTo, InSection, StatusOps
  <1>3. CASE Stamp(t) \/ ReleaseLow(t) \/ ReleaseHigh(t) \/ Energise(t)
             \/ RecordStatus(t)
    BY <1>3 DEF Stamp, ReleaseLow, ReleaseHigh, Energise, RecordStatus,
                Executes, At, InSection, StatusOps
  <1> QED  BY <1>1, <1>2, <1>3

LEMMA MotorNext ==
    ASSUME IInv, RedriveInv', [Next]_vars PROVE MotorInv'
  <1>0. /\ TypeOK /\ ShapeInv /\ RedriveInv /\ CodeOK
        /\ opMode \in OpMode /\ status \in MachineStatus
    BY DEF IInv, TypeOK, CodeOK
  <1>1. CASE Event /\ Observe
    <2>1. PICK t \in Tasks, s \in Statement, l \in Statement, n \in {1, 2, 3} :
              Begins(t, s, n, l) /\ s.op \notin StatusOps \cup ModeOps
      BY <1>0, <1>1, EventBegins
    <2>2. UNCHANGED <<status, relays>>
      BY <1>0, <1>1, EventBegins
    <2>3. Alters(t) /\ ~InSection(t, StatusOps) /\ ~InSection(t, StatusOps)'
      BY <2>1 DEF Begins, InSection
    <2> QED  BY <1>1, <2>2, <2>3, MotorBystander
  <1>2. CASE Expire /\ Observe
    <2>1. UNCHANGED <<status, relays, code>> /\ Idle("zigbee")
      BY <1>2 DEF Expire
    <2>2. "zigbee" \in Tasks /\ Alters("zigbee")
      BY <1>0, <2>1 DEF Tasks, Alters, CodeOK, ShapeInv
    <2>3. ~InSection("zigbee", StatusOps) /\ ~InSection("zigbee", StatusOps)'
      BY <2>1 DEF InSection, Idle
    <2> QED  BY <1>2, <2>1, <2>2, <2>3, MotorBystander
  <1>3. ASSUME NEW t \in Tasks, Execute(t), Observe PROVE MotorInv'
    <2>0. ~Idle(t) /\ MayRun(t) /\ Alters(t) /\ Arg(t) \in OpMode
      BY <1>0, <1>3, ExecuteAlters, HeadFacts
    <2>1. CASE \/ (CheckStatus(t) /\ Arg(t) # status) \/ Stamp(t) \/ ReleaseLow(t)
               \/ ReleaseHigh(t) \/ Energise(t) \/ RecordStatus(t) \/ Redrive(t)
      <3>1. InSection(t, StatusOps) \/ InSection(t, StatusOps)'
        BY <1>0, <2>0, <2>1, OpensSection
      <3> QED
        BY <1>0, <1>3, <2>0, <2>1, <3>1, HalfwayStep, MotorSection
    <2>2. CASE \/ CheckMode(t) \/ AssignMode(t) \/ CacheMode(t) \/ WriteMode(t)
               \/ AdvanceMode(t) \/ (CheckStatus(t) /\ Arg(t) = status)
               \/ AdvanceStatus(t) \/ CheckAuto(t) \/ Decide(t)
      <3>1. UNCHANGED <<status, relays>> /\ ~InSection(t, StatusOps)
        BY <2>2
        DEF CheckMode, AssignMode, CacheMode, WriteMode, AdvanceMode,
            CheckStatus, AdvanceStatus, CheckAuto, Decide, Executes, At,
            InSection, StatusOps
      <3>2. ~InSection(t, StatusOps)'
        BY <1>0, <2>0, <2>2, StaysOut
      <3> QED  BY <1>3, <2>0, <3>1, <3>2, MotorBystander
    <2> QED  BY <1>3, <2>1, <2>2 DEF Execute
  <1>4. CASE UNCHANGED vars
    BY <1>0, <1>4
    DEF IInv, vars, state, MotorInv, Alone, Open, Halfway, InSection, At,
        Redriving, Idle, Arg
  <1> QED  BY <1>1, <1>2, <1>3, <1>4 DEF Next

-----------------------------------------------------------------------------
(***************************************************************************)
(* The saved mode                                                          *)
(***************************************************************************)

\* The last access to NVS is still the same, unless t has ended its write.
LEMMA ObserveNoWrite ==
    ASSUME Observe, NEW t \in Tasks, Alters(t), ~At(t, "write_mode")
    PROVE  UNCHANGED unsaved
  BY DEF Observe, Writing, Alters

LEMMA ObserveWrite ==
    ASSUME Observe, NEW t \in Tasks, Alters(t), At(t, "write_mode"),
           code'[t] # code[t], flash' = Arg(t) \/ flash' # Arg(t)
    PROVE  unsaved' = (flash' # Arg(t))
  <1>1. Writing = {t}
    BY DEF Writing, Alters
  <1> QED  BY <1>1 DEF Observe

\* A step of t that neither is nor becomes part of a setOpMode section and does
\* not take app_main past its test of the mode.
LEMMA ModeBystander ==
    ASSUME IInv, NEW t \in Tasks, Alters(t), Observe,
           UNCHANGED <<opMode, cached, flash>>,
           ~InSection(t, ModeOps), ~InSection(t, ModeOps)',
           t # "main" /\ UNCHANGED restored
    PROVE  ModeInv'
  <1>1. \A u \in Tasks \ {t} : code'[u] = code[u]
    BY DEF Alters
  <1>2. \A u \in Tasks : InSection(u, ModeOps)' <=> InSection(u, ModeOps)
    BY <1>1 DEF InSection, Idle
  <1> SUFFICES ASSUME ~racedMode'
               PROVE  /\ Alone(ModeOps)'
                      /\ \A u \in Tasks : Saving(u)'
                      /\ (Open(ModeOps) \/ (Saved /\ Stored))'
    BY DEF ModeInv
  <1>3. Alone(ModeOps)' /\ ~racedMode
    BY ObserveRacedMode DEF IInv
  <1>4. /\ \A u \in Tasks : Saving(u)
        /\ Open(ModeOps) \/ (Saved /\ Stored)
    BY <1>3 DEF IInv, ModeInv
  <1>5. ASSUME NEW u \in Tasks PROVE Saving(u)'
    <2>1. CASE u # t
      BY <1>1, <1>4, <2>1 DEF Saving, At, Idle, Arg
    <2>2. CASE u = t
      BY <2>2 DEF Saving, At, InSection, ModeOps
    <2> QED  BY <2>1, <2>2
  <1>6. Open(ModeOps) => Open(ModeOps)'
    BY <1>2 DEF Open
  <1>7. Saved => Saved'
    <2>1. code'["main"] = code["main"]
      BY <1>1 DEF Tasks
    <2> QED  BY <2>1 DEF Saved, At, Idle, Arg
  <1>8. Stored => Stored'
    BY ObserveNoWrite DEF Stored, InSection, ModeOps, At
  <1> QED  BY <1>3, <1>4, <1>5, <1>6, <1>7, <1>8

\* A step of t that is part of a section, or opens one.
LEMMA ModeSection ==
    ASSUME IInv, NEW t \in Tasks, Alters(t), Observe,
           InSection(t, ModeOps) \/ InSection(t, ModeOps)',
           Saving(t) => /\ Saving(t)'
                        /\ InSection(t, ModeOps)' \/ (cached' = opMode' /\ Stored')
    PROVE  ModeInv'
  <1>1. \A u \in Tasks \ {t} : code'[u] = code[u]
    BY DEF Alters
  <1>2. \A u \in Tasks \ {t} : InSection(u, ModeOps)' <=> InSection(u, ModeOps)
    BY <1>1 DEF InSection, Idle
  <1> SUFFICES ASSUME ~racedMode'
               PROVE  /\ Alone(ModeOps)'
                      /\ \A u \in Tasks : Saving(u)'
                      /\ (Open(ModeOps) \/ (Saved /\ Stored))'
    BY DEF ModeInv
  <1>3. Alone(ModeOps)' /\ ~racedMode
    BY ObserveRacedMode DEF IInv
  <1>4. Alone(ModeOps) /\ Saving(t)
    BY <1>3 DEF IInv, ModeInv
  <1>5. ASSUME NEW u \in Tasks \ {t} PROVE ~InSection(u, ModeOps)'
    BY <1>2, <1>3, <1>4, <1>5 DEF Alone
  <1>6. ASSUME NEW u \in Tasks PROVE Saving(u)'
    <2>1. CASE u # t
      BY <1>5, <2>1 DEF Saving, At, InSection, ModeOps
    <2> QED  BY <1>4, <2>1
  <1>7. (Open(ModeOps) \/ (Saved /\ Stored))'
    BY <1>4 DEF Open, Saved
  <1> QED  BY <1>3, <1>6, <1>7

\* The statements of setOpMode, one by one.
LEMMA SavingStep ==
    ASSUME TypeOK, ShapeInv, NEW t \in Tasks, Saving(t), Observe,
           \/ (CheckMode(t) /\ Arg(t) # opMode) \/ AssignMode(t)
           \/ CacheMode(t) \/ WriteMode(t)
    PROVE  /\ Saving(t)'
           /\ InSection(t, ModeOps)' \/ (cached' = opMode' /\ Stored')
  <1>0. CodeOK /\ opMode \in OpMode
    BY DEF TypeOK, CodeOK
  <1>1. \A o \in Ops, a \in OpMode : Do(o, a).op = o /\ Do(o, a).arg = a
    BY DoIsStatement
  <1>2. ~Idle(t) => Arg(t) \in OpMode
    BY <1>0, HeadFacts
  <1>3. CASE CheckMode(t) /\ Arg(t) # opMode
    <2>1. ~Idle(t)
      BY <1>3 DEF CheckMode, Executes, At
    <2>2. GoesTo(t, Do("assign_mode", Arg(t)), 2, Do("cache_mode", Arg(t)))
      BY <1>0, <1>3, ModeStatements
    <2>3. ~Idle(t)' /\ Head(code'[t]).op = "assign_mode"
      BY <1>1, <1>2, <2>1, <2>2 DEF GoesTo, Ops
    <2> QED  BY <2>3 DEF InSection, ModeOps, Saving, At
  <1>4. CASE AssignMode(t)
    <2>1. ~Idle(t) /\ Head(code[t]).op = "assign_mode" /\ opMode' = Arg(t)
      BY <1>4 DEF AssignMode, Executes, At
    <2>2. GoesOn(t)
      BY <1>0, <1>4, ModeStatements
    <2>3. ~Idle(t)' /\ Head(code'[t]).op = "cache_mode" /\ Arg(t)' = Arg(t)
      BY <2>1, <2>2 DEF GoesOn, Link, Final, Arg
    <2> QED  BY <2>1, <2>3 DEF InSection, ModeOps, Saving, At
  <1>5. CASE CacheMode(t)
    <2>1. /\ ~Idle(t) /\ Head(code[t]).op = "cache_mode" /\ UNCHANGED opMode
          /\ opMode = Arg(t)
      BY <1>5 DEF CacheMode, Executes, At, Saving
    <2>2. PICK m \in {Arg(t), opMode} :
              /\ cached' = m /\ m \in OpMode
              /\ GoesTo(t, Do("write_mode", m), 1, Do("write_mode", m))
      BY <1>0, <1>5, ModeStatements
    <2>3. ~Idle(t)' /\ Head(code'[t]).op = "write_mode" /\ Arg(t)' = m
      BY <1>1, <2>2 DEF GoesTo, Ops, Arg
    <2> QED  BY <2>1, <2>2, <2>3 DEF InSection, ModeOps, Saving, At
  <1>6. CASE WriteMode(t)
    <2>1. /\ ~Idle(t) /\ Head(code[t]).op = "write_mode"
          /\ UNCHANGED <<opMode, cached>>
          /\ opMode = Arg(t) /\ cached = Arg(t)
      BY <1>6 DEF WriteMode, Executes, At, Saving
    <2>2. GoesOn(t)
      BY <1>0, <1>6, ModeStatements
    <2>3. Idle(t)' \/ Head(code'[t]).op = "advance_status"
      BY <2>1, <2>2 DEF GoesOn, Link
    <2>4. code'[t] # code[t]
      BY <2>1, <2>3 DEF Idle
    <2>5. unsaved' = (flash' # Arg(t))
      BY <2>1, <2>2, <2>4, ObserveWrite DEF GoesOn, At
    <2>6. Stored'
      BY <2>1, <2>5 DEF Stored
    <2> QED  BY <2>1, <2>3, <2>6 DEF Saving, At
  <1> QED  BY <1>3, <1>4, <1>5, <1>6

\* setOpMode finds the mode it is to set: app_main's is then saved.
LEMMA ModeKept ==
    ASSUME IInv, NEW t \in Tasks, CheckMode(t), Arg(t) = opMode, Observe
    PROVE  ModeInv'
  <1>0. CodeOK /\ opMode \in OpMode /\ TypeOK
    BY DEF IInv, TypeOK, CodeOK
  <1>1. /\ ~Idle(t) /\ Head(code[t]).op = "check_mode"
        /\ UNCHANGED <<opMode, cached, flash, restored>>
    BY DEF CheckMode, Executes, At
  <1>2. GoesOn(t)
    BY <1>0, ModeStatements
  <1>3. \A u \in Tasks \ {t} : code'[u] = code[u]
    BY <1>2 DEF GoesOn, Alters
  <1>4. ~InSection(t, ModeOps) /\ ~InSection(t, ModeOps)'
    <2>1. Idle(t)' \/ Head(code'[t]).op = "advance_status"
      BY <1>1, <1>2 DEF GoesOn, Link
    <2> QED  BY <1>1, <2>1 DEF InSection, ModeOps
  <1>5. \A u \in Tasks : InSection(u, ModeOps)' <=> InSection(u, ModeOps)
    BY <1>3, <1>4 DEF InSection, Idle
  <1> SUFFICES ASSUME ~racedMode'
               PROVE  /\ Alone(ModeOps)'
                      /\ \A u \in Tasks : Saving(u)'
                      /\ (Open(ModeOps) \/ (Saved /\ Stored))'
    BY DEF ModeInv
  <1>6. Alone(ModeOps)' /\ ~racedMode
    BY <1>0, ObserveRacedMode
  <1>7. /\ \A u \in Tasks : Saving(u)
        /\ Open(ModeOps) \/ (Saved /\ Stored)
    BY <1>6 DEF IInv, ModeInv
  <1>8. ASSUME NEW u \in Tasks PROVE Saving(u)'
    <2>1. CASE u # t
      BY <1>1, <1>3, <1>7, <2>1 DEF Saving, At, Idle, Arg
    <2>2. CASE u = t
      BY <1>4, <2>2 DEF Saving, At, InSection, ModeOps
    <2> QED  BY <2>1, <2>2
  <1>9. Open(ModeOps) => Open(ModeOps)'
    BY <1>5 DEF Open
  <1>10. ASSUME Saved PROVE Saved'
    <2>1. CASE cached = opMode
      BY <1>1, <2>1 DEF Saved
    <2>2. CASE opMode = LOCAL_MODE /\ ~restored
      BY <1>1, <2>2 DEF Saved
    <2>3. CASE /\ opMode = LOCAL_MODE
               /\ At("main", "check_mode") /\ Arg("main") = cached
      <3>1. CASE t = "main"
        BY <1>1, <2>3, <3>1 DEF Saved
      <3>2. CASE t # "main"
        <4>1. code'["main"] = code["main"]
          BY <1>3, <3>2 DEF Tasks
        <4> QED  BY <1>1, <2>3, <4>1 DEF Saved, At, Idle, Arg
      <3> QED  BY <3>1, <3>2
    <2> QED  BY <1>10, <2>1, <2>2, <2>3 DEF Saved
  <1>11. Stored => Stored'
    <2>1. UNCHANGED unsaved
      BY <1>1, <1>2, ObserveNoWrite DEF GoesOn, At
    <2> QED  BY <1>1, <2>1 DEF Stored
  <1> QED  BY <1>6, <1>7, <1>8, <1>9, <1>10, <1>11

\* app_main reads the cache for its last setOpMode.
LEMMA ModeRestore ==
    ASSUME IInv, RestoreOpMode, Observe
    PROVE  ModeInv'
  <1>0. CodeOK /\ cached \in OpMode /\ TypeOK
    BY DEF IInv, TypeOK, CodeOK
  <1>1. Begins("main", Do("check_mode", cached), 1, Do("check_mode", cached))
    BY <1>0, Handlers
  <1>2. UNCHANGED <<opMode, cached, flash>>
    BY DEF RestoreOpMode, Start
  <1>3. \A u \in Tasks \ {"main"} : code'[u] = code[u]
    BY <1>1 DEF Begins, Alters
  <1>4. /\ Idle("main") /\ ~Idle("main")'
        /\ Head(code'["main"]).op = "check_mode" /\ Arg("main")' = cached
    BY <1>0, <1>1, DoIsStatement DEF Begins, Arg, Ops
  <1>5. \A u \in Tasks : InSection(u, ModeOps)' <=> InSection(u, ModeOps)
    BY <1>3, <1>4 DEF InSection, Idle, ModeOps
  <1> SUFFICES ASSUME ~racedMode'
               PROVE  /\ Alone(ModeOps)'
                      /\ \A u \in Tasks : Saving(u)'
                      /\ (Open(ModeOps) \/ (Saved /\ Stored))'
    BY DEF ModeInv
  <1>6. Alone(ModeOps)' /\ ~racedMode
    BY <1>0, ObserveRacedMode
  <1>7. /\ \A u \in Tasks : Saving(u)
        /\ Open(ModeOps) \/ (Saved /\ Stored)
    BY <1>6 DEF IInv, ModeInv
  <1>8. ASSUME NEW u \in Tasks PROVE Saving(u)'
    <2>1. CASE u # "main"
      BY <1>2, <1>3, <1>7, <2>1 DEF Saving, At, Idle, Arg
    <2>2. CASE u = "main"
      BY <1>4, <2>2 DEF Saving, At
    <2> QED  BY <2>1, <2>2
  <1>9. Open(ModeOps) => Open(ModeOps)'
    BY <1>5 DEF Open
  <1>10. ASSUME Saved PROVE Saved'
    <2>1. At("main", "check_mode")' /\ Arg("main")' = cached'
      BY <1>2, <1>4 DEF At
    <2> QED  BY <1>2, <1>4, <1>10, <2>1 DEF Saved, At
  <1>11. Stored => Stored'
    <2>1. "main" \in Tasks /\ ~At("main", "write_mode")
      BY <1>4 DEF At, Tasks
    <2>2. UNCHANGED unsaved
      BY <1>1, <2>1, ObserveNoWrite DEF Begins
    <2> QED  BY <1>2, <2>2 DEF Stored
  <1> QED  BY <1>6, <1>7, <1>8, <1>9, <1>10, <1>11

\* The statements that are no part of a setOpMode section.
LEMMA StaysOutOfMode ==
    ASSUME CodeOK, opMode \in OpMode, status \in MachineStatus,
           NEW t \in Tasks, ~Idle(t),
           \/ AdvanceMode(t) \/ CheckStatus(t) \/ Stamp(t) \/ ReleaseLow(t)
           \/ ReleaseHigh(t) \/ Energise(t) \/ RecordStatus(t)
           \/ AdvanceStatus(t) \/ Redrive(t) \/ CheckAuto(t) \/ Decide(t)
    PROVE  /\ ~InSection(t, ModeOps) /\ ~InSection(t, ModeOps)'
           /\ t # "main"
  <1>0. Arg(t) \in OpMode /\ Head(code[t]).op \in Own(t)
    BY HeadFacts
  <1>1. \A o \in Ops, a \in OpMode : Do(o, a).op = o
    BY DoIsStatement
  <1>2. {"check_mode", "check_status", "decide", "stamp", "release_low"}
            \subseteq Ops \ ModeOps
    BY DEF Ops, ModeOps
  <1>3. Head(code[t]).op \in Ops \ (ModeOps \cup {"check_mode"})
    BY DEF AdvanceMode, CheckStatus, Stamp, ReleaseLow, ReleaseHigh, Energise,
           RecordStatus, AdvanceStatus, Redrive, CheckAuto, Decide, Executes,
           At, ModeOps, Ops
  <1>4. t # "main"
    BY <1>0, <1>3 DEF Own
  <1>5. CASE GoesOn(t)
    <2>1. ~Idle(t)' => Link(t, Head(code[t]), Head(code'[t]))
      BY <1>5 DEF GoesOn
    <2>2. ~Idle(t)' => Head(code'[t]).op \notin ModeOps
      BY <1>3, <2>1 DEF Link, ModeOps, Ops
    <2> QED  BY <1>3, <1>4, <2>2 DEF InSection
  <1>6. ASSUME NEW s, NEW n, NEW l, GoesTo(t, s, n, l), s.op \in Ops \ ModeOps
        PROVE  ~InSection(t, ModeOps)'
    BY <1>6 DEF GoesTo, InSection
  <1>7. ~InSection(t, ModeOps)
    BY <1>3 DEF InSection
  <1>8. CASE AdvanceMode(t)
    BY <1>1, <1>2, <1>4, <1>6, <1>7, <1>8, ModeStatements
  <1>9. CASE CheckStatus(t)
    BY <1>0, <1>1, <1>2, <1>4, <1>5, <1>6, <1>7, <1>9, StatusStatements
  <1>10. CASE Stamp(t) \/ ReleaseLow(t) \/ ReleaseHigh(t) \/ Energise(t)
              \/ RecordStatus(t)
    BY <1>5, <1>10, StatusStatements
  <1>11. CASE AdvanceStatus(t)
    BY <1>1, <1>2, <1>4, <1>6, <1>7, <1>11, StatusStatements
  <1>12. CASE Redrive(t)
    BY <1>1, <1>2, <1>4, <1>6, <1>7, <1>12, StatusStatements
  <1>13. CASE CheckAuto(t)
    BY <1>0, <1>1, <1>2, <1>4, <1>5, <1>6, <1>7, <1>13, StatusStatements
  <1>14. CASE Decide(t)
    BY <1>0, <1>1, <1>2, <1>4, <1>5, <1>6, <1>7, <1>14, StatusStatements
  <1> QED
    BY <1>8, <1>9, <1>10, <1>11, <1>12, <1>13, <1>14

LEMMA OpensModeSection ==
    ASSUME CodeOK, opMode \in OpMode, NEW t \in Tasks, ~Idle(t),
           \/ (CheckMode(t) /\ Arg(t) # opMode) \/ AssignMode(t)
           \/ CacheMode(t) \/ WriteMode(t)
    PROVE  InSection(t, ModeOps) \/ InSection(t, ModeOps)'
  <1>1. CASE CheckMode(t) /\ Arg(t) # opMode
    <2>1. GoesTo(t, Do("assign_mode", Arg(t)), 2, Do("cache_mode", Arg(t)))
      BY <1>1, ModeStatements
    <2>2. Do("assign_mode", Arg(t)).op = "assign_mode"
      BY DoIsStatement, HeadFacts DEF Ops
    <2> QED  BY <2>1, <2>2 DEF GoesTo, InSection, ModeOps
  <1>2. CASE AssignMode(t) \/ CacheMode(t) \/ WriteMode(t)
    BY <1>2 DEF AssignMode, CacheMode, WriteMode, Executes, At, InSection, ModeOps
  <1> QED  BY <1>1, <1>2

LEMMA ModeNext ==
    ASSUME IInv, [Next]_vars PROVE ModeInv'
  <1>0. /\ TypeOK /\ ShapeInv /\ CodeOK /\ opMode \in OpMode
        /\ status \in MachineStatus /\ cached \in OpMode
    BY DEF IInv, TypeOK, CodeOK
  <1>1. CASE RestoreOpMode /\ Observe
    BY <1>1, ModeRestore
  <1>2. CASE Event /\ ~RestoreOpMode /\ Observe
    <2>1. PICK t \in Tasks, s \in Statement, l \in Statement, n \in {1, 2, 3} :
              Begins(t, s, n, l) /\ s.op \notin StatusOps \cup ModeOps
      BY <1>0, <1>2, EventBegins
    <2>2. UNCHANGED <<opMode, cached, flash>>
      BY <1>0, <1>2, EventBegins
    <2>3. Alters(t) /\ ~InSection(t, ModeOps) /\ ~InSection(t, ModeOps)'
      BY <2>1 DEF Begins, InSection
    <2>4. UNCHANGED restored /\ code'["main"] = code["main"]
      BY <1>0, <1>2 DEF Event, PressMode, PressStatus, WebAuto, WebOperation,
                        Report, Start, CodeOK, Tasks
    <2>5. t # "main"
      BY <2>1, <2>4 DEF Begins, Idle
    <2> QED  BY <1>2, <2>2, <2>3, <2>4, <2>5, ModeBystander
  <1>3. CASE Expire /\ Observe
    <2>1. UNCHANGED <<opMode, cached, flash, restored, code>> /\ Idle("zigbee")
      BY <1>3 DEF Expire
    <2>2. "zigbee" \in Tasks /\ Alters("zigbee")
      BY <1>0, <2>1 DEF Tasks, Alters, CodeOK, ShapeInv
    <2>3. ~InSection("zigbee", ModeOps) /\ ~InSection("zigbee", ModeOps)'
      BY <2>1 DEF InSection, Idle
    <2> QED  BY <1>3, <2>1, <2>2, <2>3, ModeBystander
  <1>4. ASSUME NEW t \in Tasks, Execute(t), Observe PROVE ModeInv'
    <2>0. ~Idle(t) /\ Alters(t)
      BY <1>0, <1>4, ExecuteAlters
    <2>1. CASE \/ (CheckMode(t) /\ Arg(t) # opMode) \/ AssignMode(t)
               \/ CacheMode(t) \/ WriteMode(t)
      <3>1. InSection(t, ModeOps) \/ InSection(t, ModeOps)'
        BY <1>0, <2>0, <2>1, OpensModeSection
      <3> QED  BY <1>0, <1>4, <2>0, <2>1, <3>1, SavingStep, ModeSection
    <2>2. CASE CheckMode(t) /\ Arg(t) = opMode
      BY <1>4, <2>2, ModeKept
    <2>3. CASE \/ AdvanceMode(t) \/ CheckStatus(t) \/ Stamp(t) \/ ReleaseLow(t)
               \/ ReleaseHigh(t) \/ Energise(t) \/ RecordStatus(t)
               \/ AdvanceStatus(t) \/ Redrive(t) \/ CheckAuto(t) \/ Decide(t)
      <3>1. UNCHANGED <<opMode, cached, flash, restored>>
        BY <2>3
        DEF AdvanceMode, CheckStatus, Stamp, ReleaseLow, ReleaseHigh, Energise,
            RecordStatus, AdvanceStatus, Redrive, CheckAuto, Decide
      <3>2. /\ ~InSection(t, ModeOps) /\ ~InSection(t, ModeOps)'
            /\ t # "main"
        BY <1>0, <2>0, <2>3, StaysOutOfMode
      <3> QED  BY <1>4, <2>0, <3>1, <3>2, ModeBystander
    <2> QED  BY <1>4, <2>1, <2>2, <2>3 DEF Execute
  <1>5. CASE UNCHANGED vars
    BY <1>0, <1>5
    DEF IInv, vars, state, ModeInv, Alone, Open, Saving, Saved, Stored,
        InSection, At, Idle, Arg
  <1> QED  BY <1>1, <1>2, <1>3, <1>4, <1>5 DEF Next

-----------------------------------------------------------------------------
(***************************************************************************)
(* The theorems                                                            *)
(***************************************************************************)
LEMMA IInvInit == Init => IInv
  <1> SUFFICES ASSUME Init PROVE IInv
    OBVIOUS
  <1>1. \A t \in Tasks : code[t] = << >> /\ Len(code[t]) = 0 /\ Idle(t)
    BY DEF Init, Idle
  <1>2. code \in [Tasks -> Seq(Statement)] /\ relays \in Relays
    BY DEF Init, Relays, Released, Pins
  <1>3. TypeOK
    BY <1>2 DEF Init, TypeOK
  <1>4. ShapeInv
    BY <1>1 DEF ShapeInv, WellFormed
  <1>5. RedriveInv
    BY <1>1 DEF RedriveInv, Redriving
  <1>6. relays = RelaysFor(status)
    BY DEF Init, Released, RelaysFor, EnergisedBy, Pins
  <1>7. MotorInv
    <2>1. "timer" \in Tasks
      BY DEF Tasks
    <2> QED
      BY <1>1, <1>6, <2>1 DEF MotorInv, Halfway, Alone, InSection, At, Redriving
  <1>8. ModeInv
    BY <1>1 DEF Init, ModeInv, Saving, Saved, Stored, Alone, InSection, At
  <1> QED  BY <1>3, <1>4, <1>5, <1>7, <1>8 DEF IInv

LEMMA IInvNext == IInv /\ [Next]_vars => IInv'
  <1> SUFFICES ASSUME IInv, [Next]_vars PROVE IInv'
    OBVIOUS
  <1>1. TypeOK' /\ ShapeInv' /\ RedriveInv'
    BY TypeNext, RedriveNext DEF IInv
  <1>2. MotorInv' /\ ModeInv'
    BY <1>1, MotorNext, ModeNext
  <1> QED  BY <1>1, <1>2 DEF IInv

LEMMA IInvAlways == Spec => []IInv
  BY IInvInit, IInvNext, PTL DEF Spec

\* The globals keep their types, and no task ever has a statement to execute
\* that is not one of its program.
THEOREM TypeCorrect == Spec => []TypeOK
  <1>1. IInv => TypeOK
    BY DEF IInv
  <1> QED  BY <1>1, IInvAlways, PTL

\* At rest the motor runs at the recorded status, whichever tasks have been
\* interrupted where, unless two setStatus sections have met since the STATUS
\* key was last pressed with no other open.
THEOREM MotorDisagreesAfterRacesOnly == Spec => []OnlyRacesDisagree
  <1>1. IInv => OnlyRacesDisagree
    BY DEF IInv, MotorInv, OnlyRacesDisagree, Open, InSection, AllIdle
  <1> QED  BY <1>1, IInvAlways, PTL

\* At rest the cache holds the mode in effect, and NVS with it if its last
\* access succeeded, unless two setOpMode sections have met or app_main has yet
\* to restore the mode.
THEOREM ModeLostAfterRacesOnly == Spec => []OnlyRacesLoseMode
  <1>1. IInv => OnlyRacesLoseMode
    <2> SUFFICES ASSUME IInv, AllIdle, ~racedMode
                 PROVE  /\ cached = opMode \/ (~restored /\ opMode = LOCAL_MODE)
                        /\ flash = cached \/ unsaved
      BY DEF OnlyRacesLoseMode
    <2>1. Saved /\ Stored
      BY DEF IInv, ModeInv, Open, InSection, AllIdle
    <2>2. ~At("main", "check_mode")
      BY DEF AllIdle, At, Tasks
    <2> QED  BY <2>1, <2>2 DEF Saved, Stored
  <1> QED  BY <1>1, IInvAlways, PTL

\* Only its own last statement ends a press of the STATUS key.
LEMMA PressEndsStep ==
    ASSUME IInv, Next, PressEnds, Idle("timer")'
    PROVE  Energise("timer")
  <1>0. TypeOK /\ ShapeInv /\ "timer" \in Tasks
    BY DEF IInv, Tasks
  <1>1. ~Idle("timer") /\ Head(code["timer"]).op = "energise"
    BY DEF PressEnds, At
  <1>2. ASSUME Event PROVE FALSE
    <2>1. PICK t \in Tasks, s \in Statement, l \in Statement, n \in {1, 2, 3} :
              Begins(t, s, n, l)
      BY <1>0, <1>2, EventBegins
    <2> QED  BY <1>0, <1>1, <2>1 DEF Begins, Alters, Idle
  <1>3. ~Expire
    BY <1>1 DEF Expire, Idle
  <1>4. PICK t \in Tasks : Execute(t)
    BY <1>2, <1>3 DEF Next
  <1>5. t = "timer"
    BY <1>0, <1>1, <1>4, ExecuteAlters DEF Alters, Idle
  <1> QED
    BY <1>1, <1>4, <1>5
    DEF Execute, Executes, At, CheckMode, AssignMode, CacheMode, WriteMode,
        AdvanceMode, CheckStatus, Stamp, ReleaseLow, ReleaseHigh, RecordStatus,
        AdvanceStatus, Redrive, CheckAuto, Decide

\* A press of the STATUS key ends with the motor at the recorded status,
\* whatever it has interrupted: no other task runs between its reading of the
\* status and its last pin.
THEOREM StatusKeyRepairs == Spec => PressWins
  <1>1. IInv /\ [Next]_vars =>
            [PressEnds /\ Idle("timer")' => relays' = RelaysFor(status')]_vars
    <2> SUFFICES ASSUME IInv, IInv', Next, PressEnds, Idle("timer")'
                 PROVE  relays' = RelaysFor(status')
      BY IInvNext
    <2>1. Energise("timer") /\ "timer" \in Tasks
      BY PressEndsStep DEF Tasks
    <2>2. Halfway("timer")
      BY DEF IInv, MotorInv
    <2>3. /\ InSection("timer", StatusOps)' \/ relays' = RelaysFor(status')
      BY <2>1, <2>2, HalfwayStep DEF IInv
    <2> QED  BY <2>3 DEF InSection
  <1> QED  BY <1>1, IInvAlways, PTL DEF Spec, PressWins

-----------------------------------------------------------------------------
(***************************************************************************)
(* Handlers that do not overlap.  How far the handler under way has got    *)
(* with what FanPromise says it does, from the state at rest before it.    *)
(***************************************************************************)
ModeHead(t)   == InSection(t, {"check_mode"} \cup ModeOps)
StatusHead(t) == InSection(t, {"check_status"} \cup StatusOps)

\* The statements t has yet to execute, those of setOpMode counted as one.
Left(t) == Len(code[t]) - (IF At(t, "assign_mode") THEN 1 ELSE 0)

\* The motor has not been touched yet, or has taken its next speed.
Untouched == rest.relays = relays /\ relays = RelaysFor(status)
Advanced  == \E s \in MachineStatus : rest.relays = RelaysFor(s) /\ status = Advance(s)

ModeKeyed ==
    /\ Left("timer") = 1 /\ Untouched
    /\ \/ At("timer", "advance_mode") /\ rest.mode = opMode
       \/ ModeHead("timer") /\ Arg("timer") = Advance(rest.mode)

StatusKeyed ==
    /\ Last(code["timer"]).op = "redrive"
    /\ \/ ModeHead("timer") /\ Arg("timer") = LOCAL_MODE /\ Untouched
       \/ At("timer", "advance_status") /\ opMode = LOCAL_MODE /\ Untouched
       \/ /\ StatusHead("timer") /\ opMode = LOCAL_MODE
          /\ rest.relays = RelaysFor(status) /\ Arg("timer") = Advance(status)
       \/ At("timer", "redrive") /\ opMode = LOCAL_MODE /\ Advanced

StatusRedriven == Redriving("timer") /\ opMode = LOCAL_MODE /\ Advanced

RestTimer == ~Idle("timer") => ModeKeyed \/ StatusKeyed \/ StatusRedriven

RestHttpd ==
    ~Idle("httpd") =>
        \/ StatusHead("httpd")
        \/ ModeHead("httpd") /\ Arg("httpd") = API
        \/ ModeHead("httpd") /\ Arg("httpd") = AUTO /\ Untouched

RestZigbee ==
    ~Idle("zigbee") => /\ rest.mode = opMode
                       /\ IF At("zigbee", "check_auto") THEN Untouched
                                                        ELSE opMode = AUTO

RestMain ==
    ~Idle("main") => /\ ModeHead("main") /\ Untouched /\ restored
                     /\ rest.mode \in {LOCAL_MODE, Arg("main")}

Handled == RestTimer /\ RestHttpd /\ RestZigbee /\ RestMain

OneTask == \A t, u \in Tasks : Idle(t) \/ Idle(u) \/ t = u

Booting == /\ rest.boot \in {"booting", "running"}
           /\ rest.boot = "booting" <=> ~restored \/ ~Idle("main")

RestInv ==
    /\ OneTask /\ ~raced /\ ~racedMode
    /\ rest.mode \in OpMode /\ Booting
    /\ AllIdle => rest = Snapshot
    /\ Handled

\* The head of a task's code tells which of its actions it executes.
LEMMA ExecuteIs ==
    ASSUME NEW t \in Tasks, Execute(t)
    PROVE  /\ ~Idle(t)
           /\ Head(code[t]).op = "check_mode"     => CheckMode(t)
           /\ Head(code[t]).op = "assign_mode"    => AssignMode(t)
           /\ Head(code[t]).op = "cache_mode"     => CacheMode(t)
           /\ Head(code[t]).op = "write_mode"     => WriteMode(t)
           /\ Head(code[t]).op = "advance_mode"   => AdvanceMode(t)
           /\ Head(code[t]).op = "check_status"   => CheckStatus(t)
           /\ Head(code[t]).op = "stamp"          => Stamp(t)
           /\ Head(code[t]).op = "release_low"    => ReleaseLow(t)
           /\ Head(code[t]).op = "release_high"   => ReleaseHigh(t)
           /\ Head(code[t]).op = "energise"       => Energise(t)
           /\ Head(code[t]).op = "record_status"  => RecordStatus(t)
           /\ Head(code[t]).op = "advance_status" => AdvanceStatus(t)
           /\ Head(code[t]).op = "redrive"        => Redrive(t)
           /\ Head(code[t]).op = "check_auto"     => CheckAuto(t)
           /\ Head(code[t]).op = "decide"         => Decide(t)
  BY DEF Execute, Executes, At, CheckMode, AssignMode, CacheMode, WriteMode,
         AdvanceMode, CheckStatus, Stamp, ReleaseLow, ReleaseHigh, Energise,
         RecordStatus, AdvanceStatus, Redrive, CheckAuto, Decide

\* The last statement of a handler stays the last until it is executed.
LEMMA LastIsHead ==
    ASSUME CodeOK, NEW t \in Tasks, ~Idle(t), Len(code[t]) = 1
    PROVE  Last(code[t]) = Head(code[t])
  <1>1. code[t] \in Seq(Statement) /\ code[t] # << >>
    BY DEF CodeOK, Idle
  <1>2. Head(code[t]) = code[t][1]
    BY <1>1, SeqHead
  <1> QED  BY <1>2 DEF Last

LEMMA LastStays ==
    ASSUME CodeOK, NEW t \in Tasks, ~Idle(t), Head(code[t]).op # Last(code[t]).op
    PROVE  /\ GoesOn(t) => ~Idle(t)' /\ Last(code'[t]) = Last(code[t])
           /\ \A s, n, l : GoesTo(t, s, n, l) => Last(code'[t]) = Last(code[t])
  <1>1. Len(code[t]) # 1
    BY LastIsHead
  <1> QED  BY <1>1 DEF GoesOn, GoesTo

LEMMA RedriveIsLast ==
    ASSUME CodeOK, NEW t \in Tasks, ~Idle(t), Head(code[t]).op = "redrive"
    PROVE  Len(code[t]) = 1
  <1>1. code[t] \in Seq(Statement) /\ code[t] # << >> /\ WellFormed(t, code[t])
    BY DEF CodeOK, ShapeInv, Idle
  <1>2. Len(code[t]) \in Nat /\ Len(code[t]) > 0 /\ Head(code[t]) = code[t][1]
    BY <1>1, SeqHead
  <1>3. ~Link(t, code[t][1], code[t][1 + 1])
    BY <1>2 DEF Link
  <1>4. ~(1 \in 1 .. Len(code[t]) - 1)
    BY <1>1, <1>3 DEF WellFormed
  <1>5. \A n \in Nat : n > 0 /\ ~(1 \in 1 .. n - 1) => n = 1
    OBVIOUS
  <1> QED  BY <1>2, <1>4, <1>5

\* A statement of setOpMode: there are more, with the same argument, or the
\* mode is set and the handler goes on.
LEMMA ModeStep ==
    ASSUME TypeOK, ShapeInv, NEW t \in Tasks, Saving(t), ModeHead(t), Execute(t)
    PROVE  /\ UNCHANGED <<status, relays, restored>>
           /\ \/ /\ ModeHead(t)' /\ Arg(t)' = Arg(t) /\ Left(t)' = Left(t)
                 /\ Last(code[t]).op = "redrive" => Last(code'[t]) = Last(code[t])
              \/ /\ GoesOn(t) /\ opMode' = Arg(t) /\ Left(t) = Len(code[t])
                 /\ Head(code[t]).op \in {"check_mode", "write_mode"}
  <1>0. /\ CodeOK /\ opMode \in OpMode /\ ~Idle(t) /\ Arg(t) \in OpMode
        /\ Len(code[t]) \in Nat
    <2>1. CodeOK /\ opMode \in OpMode /\ ~Idle(t)
      BY DEF TypeOK, CodeOK, ModeHead, InSection
    <2> QED  BY <2>1, HeadFacts
  <1>1. \A o \in Ops, a \in OpMode : Do(o, a).op = o /\ Do(o, a).arg = a
    BY DoIsStatement
  <1>2. Head(code[t]).op \in {"check_mode", "assign_mode", "cache_mode", "write_mode"}
    BY DEF ModeHead, InSection, ModeOps
  <1>3. Last(code[t]).op = "redrive" => Head(code[t]).op # Last(code[t]).op
    BY <1>2
  <1>a. PICK n \in Nat : n = Len(code[t])
    BY <1>0
  <1>b. Left(t) = IF Head(code[t]).op = "assign_mode" THEN n - 1 ELSE n
    <2>1. Head(code[t]).op # "assign_mode" => Left(t) = n - 0
      BY <1>a DEF Left, At
    <2>2. Head(code[t]).op = "assign_mode" => Left(t) = n - 1
      BY <1>0, <1>a DEF Left, At
    <2> QED  BY <2>1, <2>2
  <1>c. ASSUME NEW m \in Nat, Len(code'[t]) = m, ~Idle(t)'
        PROVE  Left(t)' = IF Head(code'[t]).op = "assign_mode" THEN m - 1 ELSE m
    <2>1. Head(code'[t]).op # "assign_mode" => Left(t)' = m - 0
      BY <1>c DEF Left, At
    <2>2. Head(code'[t]).op = "assign_mode" => Left(t)' = m - 1
      BY <1>c DEF Left, At
    <2> QED  BY <2>1, <2>2
  <1>4. CASE Head(code[t]).op = "check_mode"
    <2>1. CheckMode(t) /\ UNCHANGED <<opMode, status, relays, restored>>
      <3>1. CheckMode(t)
        BY <1>4, ExecuteIs
      <3> QED  BY <3>1 DEF CheckMode
    <2>2. CASE Arg(t) = opMode /\ GoesOn(t)
      BY <1>4, <1>a, <1>b, <2>1, <2>2
    <2>3. CASE GoesTo(t, Do("assign_mode", Arg(t)), 2, Do("cache_mode", Arg(t)))
      <3>1. /\ ~Idle(t)' /\ Head(code'[t]).op = "assign_mode" /\ Arg(t)' = Arg(t)
            /\ Len(code'[t]) = 2 + Len(code[t]) - 1
        BY <1>0, <1>1, <2>3 DEF GoesTo, Ops, Arg
      <3>2. Left(t)' = Left(t)
        <4>1. Len(code'[t]) = n + 1 /\ n + 1 \in Nat /\ (n + 1) - 1 = n
          BY <1>a, <3>1
        <4> QED  BY <1>4, <1>b, <1>c, <3>1, <4>1
      <3>3. Last(code[t]).op = "redrive" => Last(code'[t]) = Last(code[t])
        BY <1>0, <1>3, <2>3, LastStays
      <3> QED  BY <2>1, <3>1, <3>2, <3>3 DEF ModeHead, InSection, ModeOps
    <2> QED  BY <1>0, <2>1, <2>2, <2>3, ModeStatements
  <1>5. CASE Head(code[t]).op = "assign_mode"
    <2>1. AssignMode(t) /\ UNCHANGED <<status, relays, restored>>
      <3>1. AssignMode(t)
        BY <1>5, ExecuteIs
      <3> QED  BY <3>1 DEF AssignMode
    <2>2. GoesOn(t)
      BY <1>0, <2>1, ModeStatements
    <2>3. /\ ~Idle(t)' /\ Head(code'[t]).op = "cache_mode" /\ Arg(t)' = Arg(t)
          /\ Len(code'[t]) = Len(code[t]) - 1
      BY <1>5, <2>2 DEF GoesOn, Link, Final, Arg
    <2>4. Left(t)' = Left(t)
      <3>1. Len(code'[t]) = n - 1 /\ n - 1 \in Nat
        <4>1. Len(code[t]) > 0
          BY <1>0, HeadFacts
        <4> QED  BY <1>a, <2>3, <4>1
      <3> QED  BY <1>5, <1>b, <1>c, <2>3, <3>1
    <2>5. Last(code[t]).op = "redrive" => Last(code'[t]) = Last(code[t])
      BY <1>0, <1>3, <2>2, LastStays
    <2> QED  BY <2>1, <2>3, <2>4, <2>5 DEF ModeHead, InSection, ModeOps
  <1>6. CASE Head(code[t]).op = "cache_mode"
    <2>1. CacheMode(t) /\ UNCHANGED <<status, relays, restored>> /\ opMode = Arg(t)
      <3>1. CacheMode(t)
        BY <1>6, ExecuteIs
      <3> QED  BY <1>0, <1>6, <3>1 DEF CacheMode, Saving, At
    <2>2. PICK m \in {Arg(t), opMode} :
              GoesTo(t, Do("write_mode", m), 1, Do("write_mode", m))
      BY <1>0, <2>1, ModeStatements
    <2>3. /\ ~Idle(t)' /\ Head(code'[t]).op = "write_mode" /\ Arg(t)' = Arg(t)
          /\ Len(code'[t]) = 1 + Len(code[t]) - 1
      BY <1>0, <1>1, <2>1, <2>2 DEF GoesTo, Ops, Arg
    <2>4. Left(t)' = Left(t)
      <3>1. Len(code'[t]) = n
        BY <1>a, <2>3
      <3> QED  BY <1>6, <1>b, <1>c, <2>3, <3>1
    <2>5. Last(code[t]).op = "redrive" => Last(code'[t]) = Last(code[t])
      BY <1>0, <1>3, <2>2, LastStays
    <2> QED  BY <2>1, <2>3, <2>4, <2>5 DEF ModeHead, InSection, ModeOps
  <1>7. CASE Head(code[t]).op = "write_mode"
    <2>1. /\ WriteMode(t) /\ UNCHANGED <<opMode, status, relays, restored>>
          /\ opMode = Arg(t)
      <3>1. WriteMode(t)
        BY <1>7, ExecuteIs
      <3> QED  BY <1>0, <1>7, <3>1 DEF WriteMode, Saving, At
    <2>2. GoesOn(t)
      BY <1>0, <2>1, ModeStatements
    <2> QED  BY <1>7, <1>a, <1>b, <2>1, <2>2
  <1> QED  BY <1>2, <1>4, <1>5, <1>6, <1>7

\* A statement of setStatus: there are more, with the same argument, or the
\* status is recorded and the handler goes on.
LEMMA StatusStep ==
    ASSUME TypeOK, ShapeInv, RedriveInv, NEW t \in Tasks, StatusHead(t),
           ~Redriving(t), Execute(t)
    PROVE  /\ UNCHANGED <<opMode, restored>>
           /\ \/ /\ StatusHead(t)' /\ Arg(t)' = Arg(t) /\ UNCHANGED status
                 /\ Last(code[t]).op = "redrive" => Last(code'[t]) = Last(code[t])
              \/ /\ GoesOn(t) /\ status' = Arg(t)
                 /\ Head(code[t]).op \in {"check_status", "record_status"}
  <1>0. /\ CodeOK /\ status \in MachineStatus /\ ~Idle(t) /\ Arg(t) \in MachineStatus
    <2>1. CodeOK /\ status \in MachineStatus /\ ~Idle(t)
      BY DEF TypeOK, CodeOK, StatusHead, InSection
    <2> QED  BY <2>1, HeadFacts
  <1>1. \A o \in Ops, a \in OpMode : Do(o, a).op = o /\ Do(o, a).arg = a
    BY DoIsStatement
  <1>2. Head(code[t]).op \in {"check_status", "stamp", "release_low",
                              "release_high", "energise", "record_status"}
    BY DEF StatusHead, InSection, StatusOps
  <1>3. Last(code[t]).op = "redrive" => Head(code[t]).op # Last(code[t]).op
    BY <1>2
  <1>4. CASE Head(code[t]).op = "check_status"
    <2>1. CheckStatus(t) /\ UNCHANGED <<opMode, status, restored>>
      <3>1. CheckStatus(t)
        BY <1>4, ExecuteIs
      <3> QED  BY <3>1 DEF CheckStatus
    <2>2. CASE Arg(t) = status /\ GoesOn(t)
      BY <1>4, <2>1, <2>2
    <2>3. CASE GoesTo(t, Do("stamp", Arg(t)), 5, Do("record_status", Arg(t)))
      <3>1. ~Idle(t)' /\ Head(code'[t]).op = "stamp" /\ Arg(t)' = Arg(t)
        BY <1>0, <1>1, <2>3 DEF GoesTo, Ops, Arg
      <3>2. Last(code[t]).op = "redrive" => Last(code'[t]) = Last(code[t])
        BY <1>0, <1>3, <2>3, LastStays
      <3> QED  BY <2>1, <3>1, <3>2 DEF StatusHead, InSection, StatusOps
    <2> QED  BY <1>0, <2>1, <2>2, <2>3, StatusStatements
  <1>5. CASE Head(code[t]).op \in {"stamp", "release_low", "release_high", "energise"}
    <2>1. Stamp(t) \/ ReleaseLow(t) \/ ReleaseHigh(t) \/ Energise(t)
      BY <1>5, ExecuteIs
    <2>2. UNCHANGED <<opMode, status, restored>>
      BY <2>1 DEF Stamp, ReleaseLow, ReleaseHigh, Energise
    <2>3. GoesOn(t)
      BY <1>0, <2>1, StatusStatements
    <2>4. ~Idle(t)'
      <3>1. CASE Head(code[t]).op = "energise"
        <4>1. Len(code[t]) # 1
          BY <1>0, <3>1, LastIsHead DEF Redriving
        <4> QED  BY <2>3, <4>1 DEF GoesOn
      <3>2. CASE Head(code[t]).op # "energise"
        BY <1>5, <2>3, <3>2 DEF GoesOn, Final
      <3> QED  BY <3>1, <3>2
    <2>5. /\ Head(code'[t]).op \in {"release_low", "release_high", "energise",
                                    "record_status"}
          /\ Arg(t)' = Arg(t)
      BY <1>5, <2>3, <2>4 DEF GoesOn, Link, Arg
    <2>6. Last(code[t]).op = "redrive" => Last(code'[t]) = Last(code[t])
      BY <1>0, <1>3, <2>3, LastStays
    <2> QED  BY <2>2, <2>4, <2>5, <2>6 DEF StatusHead, InSection, StatusOps
  <1>6. CASE Head(code[t]).op = "record_status"
    <2>1. RecordStatus(t) /\ UNCHANGED <<opMode, restored>> /\ status' = Arg(t)
      <3>1. RecordStatus(t)
        BY <1>6, ExecuteIs
      <3> QED  BY <3>1 DEF RecordStatus
    <2>2. GoesOn(t)
      BY <1>0, <2>1, StatusStatements
    <2> QED  BY <1>6, <2>1, <2>2
  <1> QED  BY <1>2, <1>4, <1>5, <1>6

\* While handlers do not overlap, the one under way finds the motor and the
\* saved mode as it has left them.
LEMMA Undisturbed ==
    ASSUME IInv, RestInv, NEW t \in Tasks, ~Idle(t)
    PROVE  /\ TypeOK /\ ShapeInv /\ RedriveInv /\ CodeOK
           /\ opMode \in OpMode /\ status \in MachineStatus
           /\ Saving(t)
           /\ \A u \in Tasks \ {t} : Idle(u)
           /\ Redriving(t) => t = "timer"
  <1>1. /\ TypeOK /\ ShapeInv /\ RedriveInv /\ CodeOK
        /\ opMode \in OpMode /\ status \in MachineStatus
    BY DEF IInv, TypeOK, CodeOK
  <1>2. Saving(t) /\ \A u \in Tasks \ {t} : Idle(u)
    BY DEF IInv, RestInv, ModeInv, OneTask
  <1>3. ASSUME Redriving(t) PROVE t = "timer"
    <2>1. code[t] \in Seq(Statement) /\ code[t] # << >> /\ WellFormed(t, code[t])
      BY <1>1 DEF CodeOK, ShapeInv, Idle
    <2>2. Len(code[t]) > 0
      BY <1>1, HeadFacts
    <2>3. Final(t, Last(code[t]))
      BY <2>1, <2>2 DEF WellFormed, Last
    <2> QED  BY <1>3, <2>3 DEF Redriving, Final
  <1> QED  BY <1>1, <1>2, <1>3

\* The callback of the MODE key.
LEMMA ModeKeyedStep ==
    ASSUME IInv, RestInv, ~Idle("timer"), ModeKeyed, Execute("timer")
    PROVE  /\ UNCHANGED <<status, relays, restored>>
           /\ \/ Idle("timer")' /\ opMode' = Advance(rest.mode)
              \/ ~Idle("timer")' /\ (rest' = rest => ModeKeyed')
  <1> DEFINE t == "timer"
  <1>0. /\ t \in Tasks /\ TypeOK /\ ShapeInv /\ CodeOK /\ opMode \in OpMode
        /\ Saving(t)
    <2>1. t \in Tasks
      BY DEF Tasks
    <2> QED  BY <2>1, Undisturbed
  <1> HIDE DEF t
  <1>1. CASE At(t, "advance_mode") /\ rest.mode = opMode
    <2>1. Head(code[t]).op = "advance_mode" /\ Left(t) = 1
      BY <1>1 DEF At, ModeKeyed, t
    <2>2. AdvanceMode(t)
      BY <1>0, <2>1, ExecuteIs DEF t
    <2>3. UNCHANGED <<opMode, status, relays, restored>>
      BY <2>2 DEF AdvanceMode
    <2>4. /\ Advance(opMode) \in OpMode
          /\ GoesTo(t, Do("check_mode", Advance(opMode)), 1,
                       Do("check_mode", Advance(opMode)))
      BY <1>0, <2>2, ModeStatements
    <2>5. /\ ~Idle(t)' /\ Head(code'[t]).op = "check_mode"
          /\ Arg(t)' = Advance(opMode) /\ Len(code'[t]) = 1 + Len(code[t]) - 1
      BY <2>4, DoIsStatement DEF GoesTo, Ops, Arg
    <2>6. Left(t)' = 1
      <3>1. PICK n \in Nat : n = Len(code[t])
        BY <1>0, HeadFacts DEF t
      <3>2. Left(t) = n - 0
        BY <2>1, <3>1 DEF Left, At
      <3>3. n = 1
        BY <2>1, <3>2
      <3>4. Len(code'[t]) = 1
        BY <2>5, <3>1, <3>3
      <3>5. Left(t)' = 1 - 0
        BY <2>5, <3>4 DEF Left, At
      <3> QED  BY <3>5
    <2>7. ModeHead(t)'
      BY <2>5 DEF ModeHead, InSection
    <2>8. rest' = rest => Untouched'
      BY <2>3 DEF ModeKeyed, Untouched
    <2> QED  BY <1>1, <2>3, <2>5, <2>6, <2>7, <2>8 DEF ModeKeyed, t
  <1>2. CASE ModeHead(t) /\ Arg(t) = Advance(rest.mode)
    <2>1. Left(t) = 1 /\ Untouched
      BY DEF ModeKeyed, t
    <2>2. /\ UNCHANGED <<status, relays, restored>>
          /\ \/ ModeHead(t)' /\ Arg(t)' = Arg(t) /\ Left(t)' = Left(t)
             \/ GoesOn(t) /\ opMode' = Arg(t) /\ Left(t) = Len(code[t])
      BY <1>0, <1>2, ModeStep DEF t
    <2>3. CASE ModeHead(t)' /\ Arg(t)' = Arg(t) /\ Left(t)' = Left(t)
      <3>1. ~Idle(t)'
        BY <2>3 DEF ModeHead, InSection
      <3>2. rest' = rest => Untouched'
        BY <2>1, <2>2 DEF Untouched
      <3> QED  BY <1>2, <2>1, <2>2, <2>3, <3>1, <3>2 DEF ModeKeyed, t
    <2>4. CASE GoesOn(t) /\ opMode' = Arg(t) /\ Left(t) = Len(code[t])
      <3>1. Idle(t)'
        BY <2>1, <2>4 DEF GoesOn
      <3> QED  BY <1>2, <2>2, <2>4, <3>1 DEF t
    <2> QED  BY <2>2, <2>3, <2>4
  <1> QED  BY <1>1, <1>2 DEF ModeKeyed, t

\* The callback of the STATUS key, up to its second handleStateChange.
LEMMA StatusKeyedStep ==
    ASSUME IInv, RestInv, ~Idle("timer"), StatusKeyed, Execute("timer")
    PROVE  /\ UNCHANGED restored /\ ~Idle("timer")'
           /\ rest' = rest => StatusKeyed' \/ StatusRedriven'
  <1> DEFINE t == "timer"
  <1>0. /\ t \in Tasks /\ TypeOK /\ ShapeInv /\ RedriveInv /\ CodeOK
        /\ opMode \in OpMode /\ status \in MachineStatus /\ Saving(t)
    <2>1. t \in Tasks
      BY DEF Tasks
    <2> QED  BY <2>1, Undisturbed
  <1>a. t = "timer" /\ ~Idle(t) /\ Execute(t) /\ Last(code[t]).op = "redrive"
    BY DEF StatusKeyed
  <1> HIDE DEF t
  <1>1. CASE ModeHead(t) /\ Arg(t) = LOCAL_MODE /\ Untouched
    <2>1. /\ UNCHANGED <<status, relays, restored>>
          /\ \/ /\ ModeHead(t)' /\ Arg(t)' = Arg(t)
                /\ Last(code'[t]) = Last(code[t])
             \/ /\ GoesOn(t) /\ opMode' = Arg(t)
                /\ Head(code[t]).op \in {"check_mode", "write_mode"}
      BY <1>0, <1>a, <1>1, ModeStep
    <2>2. rest' = rest => Untouched'
      BY <1>1, <2>1 DEF Untouched
    <2>3. CASE ModeHead(t)' /\ Arg(t)' = Arg(t) /\ Last(code'[t]) = Last(code[t])
      <3>1. ~Idle(t)'
        BY <2>3 DEF ModeHead, InSection
      <3> QED  BY <1>1, <1>a, <2>1, <2>2, <2>3, <3>1 DEF StatusKeyed
    <2>4. CASE /\ GoesOn(t) /\ opMode' = Arg(t)
               /\ Head(code[t]).op \in {"check_mode", "write_mode"}
      <3>1. ~Idle(t)' /\ Last(code'[t]) = Last(code[t])
        BY <1>0, <1>a, <2>4, LastStays
      <3>2. At(t, "advance_status")'
        BY <2>4, <3>1 DEF GoesOn, Link, At
      <3> QED  BY <1>1, <1>a, <2>1, <2>2, <2>4, <3>1, <3>2 DEF StatusKeyed
    <2> QED  BY <2>1, <2>3, <2>4
  <1>2. CASE At(t, "advance_status") /\ opMode = LOCAL_MODE /\ Untouched
    <2>1. Head(code[t]).op = "advance_status"
      BY <1>2 DEF At
    <2>2. AdvanceStatus(t)
      BY <1>a, <2>1, <1>0, ExecuteIs
    <2>3. UNCHANGED <<opMode, status, relays, restored>>
      BY <2>2 DEF AdvanceStatus
    <2>4. /\ Advance(status) \in MachineStatus
          /\ GoesTo(t, Do("check_status", Advance(status)), 1,
                       Do("check_status", Advance(status)))
      BY <1>0, <2>2, StatusStatements
    <2>5. /\ ~Idle(t)' /\ Head(code'[t]).op = "check_status"
          /\ Arg(t)' = Advance(status)
      BY <2>4, DoIsStatement DEF GoesTo, Ops, Arg
    <2>6. Last(code'[t]) = Last(code[t])
      BY <1>0, <1>a, <2>1, <2>4, LastStays
    <2>7. StatusHead(t)'
      BY <2>5 DEF StatusHead, InSection
    <2>8. rest' = rest => rest'.relays = RelaysFor(status')
      BY <1>2, <2>3 DEF Untouched
    <2> QED  BY <1>2, <1>a, <2>3, <2>5, <2>6, <2>7, <2>8 DEF StatusKeyed
  <1>3. CASE /\ StatusHead(t) /\ opMode = LOCAL_MODE
             /\ rest.relays = RelaysFor(status) /\ Arg(t) = Advance(status)
    <2>1. ~Redriving(t)
      BY <1>a DEF Redriving
    <2>2. /\ UNCHANGED <<opMode, restored>>
          /\ \/ /\ StatusHead(t)' /\ Arg(t)' = Arg(t) /\ UNCHANGED status
                /\ Last(code'[t]) = Last(code[t])
             \/ /\ GoesOn(t) /\ status' = Arg(t)
                /\ Head(code[t]).op \in {"check_status", "record_status"}
      BY <1>0, <1>a, <1>3, <2>1, StatusStep
    <2>3. CASE /\ StatusHead(t)' /\ Arg(t)' = Arg(t) /\ UNCHANGED status
               /\ Last(code'[t]) = Last(code[t])
      <3>1. ~Idle(t)'
        BY <2>3 DEF StatusHead, InSection
      <3> QED  BY <1>3, <1>a, <2>2, <2>3, <3>1 DEF StatusKeyed
    <2>4. CASE /\ GoesOn(t) /\ status' = Arg(t)
               /\ Head(code[t]).op \in {"check_status", "record_status"}
      <3>1. ~Idle(t)' /\ Last(code'[t]) = Last(code[t])
        BY <1>0, <1>a, <2>4, LastStays
      <3>2. At(t, "redrive")'
        BY <1>a, <2>4, <3>1 DEF GoesOn, Link, At
      <3>3. rest' = rest => Advanced'
        BY <1>0, <1>3, <2>4 DEF Advanced
      <3> QED  BY <1>3, <1>a, <2>2, <3>1, <3>2, <3>3 DEF StatusKeyed
    <2> QED  BY <2>2, <2>3, <2>4
  <1>4. CASE At(t, "redrive") /\ opMode = LOCAL_MODE /\ Advanced
    <2>1. Head(code[t]).op = "redrive"
      BY <1>4 DEF At
    <2>2. Redrive(t)
      BY <1>0, <1>a, <2>1, ExecuteIs
    <2>3. UNCHANGED <<opMode, status, restored>>
      BY <2>2 DEF Redrive
    <2>4. GoesTo(t, Do("release_low", status), 3, Do("energise", status))
      BY <1>0, <2>2, StatusStatements
    <2>5. Len(code[t]) = 1
      BY <1>0, <1>a, <2>1, RedriveIsLast
    <2>6. ~Idle(t)' /\ Last(code'[t]).op = "energise"
      BY <1>0, <2>4, <2>5, DoIsStatement DEF GoesTo, Ops
    <2>7. rest' = rest => Advanced'
      BY <1>4, <2>3 DEF Advanced
    <2> QED  BY <1>4, <1>a, <2>3, <2>6, <2>7 DEF StatusRedriven, Redriving
  <1> QED  BY <1>1, <1>2, <1>3, <1>4 DEF StatusKeyed, t

\* Its second handleStateChange.
LEMMA RedrivenStep ==
    ASSUME IInv, RestInv, ~Idle("timer"), StatusRedriven, Execute("timer")
    PROVE  /\ UNCHANGED <<opMode, status, restored>>
           /\ ~Idle("timer")' => (rest' = rest => StatusRedriven')
  <1>0. "timer" \in Tasks /\ RedriveInv /\ CodeOK /\ status \in MachineStatus
    <2>1. "timer" \in Tasks
      BY DEF Tasks
    <2> QED  BY <2>1, Undisturbed
  <1>1. Head(code["timer"]).op \in {"release_low", "release_high", "energise"}
    BY <1>0 DEF StatusRedriven, RedriveInv, At
  <1>2. ReleaseLow("timer") \/ ReleaseHigh("timer") \/ Energise("timer")
    BY <1>0, <1>1, ExecuteIs
  <1>3. UNCHANGED <<opMode, status, restored>>
    BY <1>2 DEF ReleaseLow, ReleaseHigh, Energise
  <1>4. GoesOn("timer")
    BY <1>0, <1>2, StatusStatements
  <1>5. ~Idle("timer")' => Redriving("timer")'
    BY <1>4 DEF GoesOn, StatusRedriven, Redriving
  <1>6. rest' = rest => Advanced'
    BY <1>3 DEF StatusRedriven, Advanced
  <1> QED  BY <1>3, <1>5, <1>6 DEF StatusRedriven

LEMMA TimerStep ==
    ASSUME IInv, RestInv, ~Idle("timer"), Execute("timer")
    PROVE  /\ UNCHANGED restored
           /\ rest' = rest => RestTimer'
           /\ Idle("timer")' =>
                \/ opMode' = Advance(rest.mode) /\ relays' = rest.relays
                \/ /\ opMode' = LOCAL_MODE
                   /\ \E s \in MachineStatus :
                          rest.relays = RelaysFor(s) /\ status' = Advance(s)
  <1>0. ModeKeyed \/ StatusKeyed \/ StatusRedriven
    BY DEF RestInv, Handled, RestTimer
  <1>1. CASE ModeKeyed
    <2>1. relays = rest.relays
      BY <1>1 DEF ModeKeyed, Untouched
    <2> QED  BY <1>1, <2>1, ModeKeyedStep DEF RestTimer
  <1>2. CASE StatusKeyed
    BY <1>2, StatusKeyedStep DEF RestTimer
  <1>3. CASE StatusRedriven
    <2>1. opMode = LOCAL_MODE /\ Advanced
      BY <1>3 DEF StatusRedriven
    <2> QED  BY <1>3, <2>1, RedrivenStep DEF RestTimer, Advanced
  <1> QED  BY <1>0, <1>1, <1>2, <1>3

\* The handlers of the web page.
LEMMA HttpdStep ==
    ASSUME IInv, RestInv, ~Idle("httpd"), Execute("httpd")
    PROVE  /\ UNCHANGED restored
           /\ rest' = rest => RestHttpd'
           /\ Idle("httpd")' =>
                opMode' = API \/ (opMode' = AUTO /\ relays' = rest.relays)
  <1> DEFINE t == "httpd"
  <1>0. /\ t \in Tasks /\ TypeOK /\ ShapeInv /\ RedriveInv /\ CodeOK
        /\ Saving(t) /\ ~Redriving(t)
    <2>1. t \in Tasks
      BY DEF Tasks
    <2> QED  BY <2>1, Undisturbed
  <1>a. t = "httpd" /\ ~Idle(t) /\ Execute(t)
    OBVIOUS
  <1> HIDE DEF t
  <1>1. \/ StatusHead(t)
        \/ ModeHead(t) /\ Arg(t) = API
        \/ ModeHead(t) /\ Arg(t) = AUTO /\ Untouched
    BY <1>a DEF RestInv, Handled, RestHttpd
  <1>2. CASE StatusHead(t)
    <2>1. /\ UNCHANGED <<opMode, restored>>
          /\ \/ StatusHead(t)'
             \/ GoesOn(t) /\ Head(code[t]).op \in {"check_status", "record_status"}
      BY <1>0, <1>a, <1>2, StatusStep
    <2>2. CASE StatusHead(t)'
      <3>1. ~Idle(t)'
        BY <2>2 DEF StatusHead, InSection
      <3> QED  BY <1>a, <2>1, <2>2, <3>1 DEF RestHttpd
    <2>3. CASE GoesOn(t) /\ Head(code[t]).op \in {"check_status", "record_status"}
      <3>1. ~Idle(t)'
        BY <1>a, <2>3 DEF GoesOn, Final
      <3>2. Head(code'[t]).op = "check_mode" /\ Arg(t)' = API
        BY <1>a, <2>3, <3>1 DEF GoesOn, Link, Arg
      <3>3. ModeHead(t)'
        BY <3>1, <3>2 DEF ModeHead, InSection
      <3> QED  BY <1>a, <2>1, <3>1, <3>2, <3>3 DEF RestHttpd
    <2> QED  BY <2>1, <2>2, <2>3
  <1>3. CASE ModeHead(t)
    <2>1. /\ UNCHANGED <<status, relays, restored>>
          /\ \/ ModeHead(t)' /\ Arg(t)' = Arg(t)
             \/ /\ GoesOn(t) /\ opMode' = Arg(t)
                /\ Head(code[t]).op \in {"check_mode", "write_mode"}
      BY <1>0, <1>a, <1>3, ModeStep
    <2>2. Untouched /\ rest' = rest => Untouched'
      BY <2>1 DEF Untouched
    <2>3. CASE ModeHead(t)' /\ Arg(t)' = Arg(t)
      <3>1. ~Idle(t)'
        BY <2>3 DEF ModeHead, InSection
      <3>2. ~StatusHead(t)
        BY <1>3 DEF ModeHead, StatusHead, InSection, ModeOps, StatusOps
      <3> QED  BY <1>1, <1>a, <2>1, <2>2, <2>3, <3>1, <3>2 DEF RestHttpd
    <2>4. CASE /\ GoesOn(t) /\ opMode' = Arg(t)
               /\ Head(code[t]).op \in {"check_mode", "write_mode"}
      <3>1. Idle(t)'
        BY <1>a, <2>4 DEF GoesOn, Link
      <3>2. ~StatusHead(t)
        BY <1>3 DEF ModeHead, StatusHead, InSection, ModeOps, StatusOps
      <3> QED  BY <1>1, <1>a, <2>1, <2>4, <3>1, <3>2 DEF RestHttpd, Untouched
    <2> QED  BY <2>1, <2>3, <2>4
  <1> QED  BY <1>1, <1>2, <1>3

\* The report handler.
LEMMA ZigbeeStep ==
    ASSUME IInv, RestInv, ~Idle("zigbee"), Execute("zigbee")
    PROVE  /\ UNCHANGED <<opMode, restored>>
           /\ rest' = rest => RestZigbee'
           /\ rest.mode = opMode
           /\ Idle("zigbee")' => opMode = AUTO \/ relays' = rest.relays
  <1> DEFINE t == "zigbee"
  <1>0. /\ t \in Tasks /\ TypeOK /\ ShapeInv /\ RedriveInv /\ CodeOK
        /\ status \in MachineStatus /\ ~Redriving(t)
    <2>1. t \in Tasks
      BY DEF Tasks
    <2> QED  BY <2>1, Undisturbed
  <1>a. t = "zigbee" /\ ~Idle(t) /\ Execute(t)
    OBVIOUS
  <1>b. /\ rest.mode = opMode
        /\ IF At(t, "check_auto") THEN Untouched ELSE opMode = AUTO
    BY DEF RestInv, Handled, RestZigbee
  <1> HIDE DEF t
  <1>c. Head(code[t]).op \in {"check_auto", "decide", "check_status"} \cup StatusOps
        /\ Arg(t) \in MachineStatus
    BY <1>0, <1>a, HeadFacts DEF Own
  <1>1. CASE Head(code[t]).op = "check_auto"
    <2>1. CheckAuto(t)
      BY <1>0, <1>a, <1>1, ExecuteIs
    <2>2. UNCHANGED <<opMode, status, relays, restored>>
      BY <2>1 DEF CheckAuto
    <2>3. \/ opMode # AUTO /\ GoesOn(t)
          \/ opMode = AUTO /\ GoesTo(t, Do("decide", Arg(t)), 1, Do("decide", Arg(t)))
      BY <1>0, <2>1, StatusStatements
    <2>4. CASE opMode # AUTO /\ GoesOn(t)
      <3>1. Idle(t)'
        BY <1>1, <2>4 DEF GoesOn, Link
      <3> QED  BY <1>1, <1>a, <1>b, <2>2, <3>1 DEF RestZigbee, At, Untouched
    <2>5. CASE opMode = AUTO /\ GoesTo(t, Do("decide", Arg(t)), 1, Do("decide", Arg(t)))
      <3>1. ~Idle(t)' /\ Head(code'[t]).op = "decide"
        BY <1>c, <2>5, DoIsStatement DEF GoesTo, Ops
      <3> QED  BY <1>a, <1>b, <2>2, <2>5, <3>1 DEF RestZigbee, At
    <2> QED  BY <2>3, <2>4, <2>5
  <1>2. CASE Head(code[t]).op # "check_auto"
    <2>1. opMode = AUTO
      BY <1>2, <1>b DEF At
    <2>2. UNCHANGED <<opMode, restored>> /\ (~Idle(t)' => ~At(t, "check_auto")')
      <3>1. CASE Head(code[t]).op = "decide"
        <4>1. Decide(t)
          BY <1>0, <1>a, <3>1, ExecuteIs
        <4>2. UNCHANGED <<opMode, restored>>
          BY <4>1 DEF Decide
        <4>3. \/ GoesOn(t)
              \/ GoesTo(t, Do("check_status", Arg(t)), 1, Do("check_status", Arg(t)))
          BY <1>0, <4>1, StatusStatements
        <4>4. CASE GoesOn(t)
          BY <3>1, <4>2, <4>4 DEF GoesOn, Link
        <4>5. CASE GoesTo(t, Do("check_status", Arg(t)), 1, Do("check_status", Arg(t)))
          <5>1. Head(code'[t]).op = "check_status"
            BY <1>c, <4>5, DoIsStatement DEF GoesTo, Ops
          <5> QED  BY <4>2, <5>1 DEF At
        <4> QED  BY <4>3, <4>4, <4>5
      <3>2. CASE Head(code[t]).op # "decide"
        <4>1. StatusHead(t)
          BY <1>2, <1>a, <1>c, <3>2 DEF StatusHead, InSection
        <4>2. /\ UNCHANGED <<opMode, restored>>
              /\ \/ StatusHead(t)'
                 \/ GoesOn(t) /\ Head(code[t]).op \in {"check_status", "record_status"}
          BY <1>0, <1>a, <4>1, StatusStep
        <4>3. CASE StatusHead(t)'
          BY <4>2, <4>3 DEF StatusHead, InSection, StatusOps, At
        <4>4. CASE GoesOn(t) /\ Head(code[t]).op \in {"check_status", "record_status"}
          BY <1>a, <4>2, <4>4 DEF GoesOn, Link
        <4> QED  BY <4>2, <4>3, <4>4
      <3> QED  BY <3>1, <3>2
    <2> QED  BY <1>a, <1>b, <2>1, <2>2 DEF RestZigbee
  <1> QED  BY <1>1, <1>2

\* The restore of the mode.
LEMMA MainStep ==
    ASSUME IInv, RestInv, ~Idle("main"), Execute("main")
    PROVE  /\ UNCHANGED restored /\ restored
           /\ rest' = rest => RestMain'
           /\ Idle("main")' => /\ relays' = rest.relays
                               /\ rest.mode \in {LOCAL_MODE, opMode'}
  <1> DEFINE t == "main"
  <1>0. t \in Tasks /\ TypeOK /\ ShapeInv /\ CodeOK /\ Saving(t)
    <2>1. t \in Tasks
      BY DEF Tasks
    <2> QED  BY <2>1, Undisturbed
  <1>a. t = "main" /\ ~Idle(t) /\ Execute(t)
    OBVIOUS
  <1>b. /\ ModeHead(t) /\ Untouched /\ restored
        /\ rest.mode \in {LOCAL_MODE, Arg(t)}
    BY DEF RestInv, Handled, RestMain
  <1> HIDE DEF t
  <1>1. /\ UNCHANGED <<status, relays, restored>>
        /\ \/ ModeHead(t)' /\ Arg(t)' = Arg(t)
           \/ /\ GoesOn(t) /\ opMode' = Arg(t)
              /\ Head(code[t]).op \in {"check_mode", "write_mode"}
    BY <1>0, <1>a, <1>b, ModeStep
  <1>2. CASE ModeHead(t)' /\ Arg(t)' = Arg(t)
    <2>1. ~Idle(t)'
      BY <1>2 DEF ModeHead, InSection
    <2>2. rest' = rest => Untouched'
      BY <1>1, <1>b DEF Untouched
    <2> QED  BY <1>1, <1>2, <1>a, <1>b, <2>1, <2>2 DEF RestMain
  <1>3. CASE /\ GoesOn(t) /\ opMode' = Arg(t)
             /\ Head(code[t]).op \in {"check_mode", "write_mode"}
    <2>1. Idle(t)'
      BY <1>a, <1>3 DEF GoesOn, Link
    <2> QED  BY <1>1, <1>3, <1>a, <1>b, <2>1 DEF RestMain, Untouched
  <1> QED  BY <1>1, <1>2, <1>3

-----------------------------------------------------------------------------
(***************************************************************************)
(* The promise at rest                                                     *)
(***************************************************************************)
USE DEF Promise!OpMode, Promise!MachineStatus, Promise!LOCAL_MODE, Promise!AUTO,
        Promise!API, Promise!OFF, Promise!ON_LOW, Promise!ON_HIGH,
        Promise!Advance

LEMMA SpeedOfRelays == \A s \in MachineStatus : SpeedOf(RelaysFor(s)) = s
  <1> SUFFICES ASSUME NEW s \in MachineStatus PROVE SpeedOf(RelaysFor(s)) = s
    OBVIOUS
  <1>1. \A u \in MachineStatus :
            /\ RelaysFor(u)["low_speed"]  = IF u = ON_LOW  THEN 0 ELSE 1
            /\ RelaysFor(u)["high_speed"] = IF u = ON_HIGH THEN 0 ELSE 1
    BY DEF RelaysFor, EnergisedBy, Pins
  <1>2. \A u \in MachineStatus : RelaysFor(s) = RelaysFor(u) => u = s
    BY <1>1
  <1> HIDE DEF MachineStatus
  <1> QED  BY <1>2 DEF SpeedOf

LEMMA ONextIsNext == [ONext]_ovars => [Next]_vars
  BY DEF ONext, Releases, Others, Asks, ovars, Next, Event

LEMMA NoMeeting ==
    ASSUME Observe, ~raced, ~racedMode, OneTask'
    PROVE  ~raced' /\ ~racedMode'
  <1> SUFFICES ASSUME NEW ops PROVE ~Meeting(ops)'
    BY DEF Observe
  <1> DEFINE S == {t \in Tasks : InSection(t, ops)'}
  <1>1. \A t, u \in S : t = u
    BY DEF OneTask, InSection
  <1>2. ~(Cardinality(S) > 1)
    <2> HIDE DEF S
    <2>1. S \in SUBSET Tasks
      BY DEF S
    <2> QED  BY <1>1, <2>1, MeetingIs
  <1> QED  BY <1>2 DEF Meeting

LEMMA RestInit == OInit => RestInv
  <1> SUFFICES ASSUME OInit PROVE RestInv
    OBVIOUS
  <1>1. \A t \in Tasks : Idle(t)
    BY DEF OInit, Init, Idle
  <1>2. /\ rest = Snapshot /\ ~raced /\ ~racedMode /\ opMode = LOCAL_MODE
        /\ restored = FALSE
    BY DEF OInit, Init
  <1>3. rest.mode \in OpMode /\ Booting
    BY <1>1, <1>2 DEF Snapshot, Booting, Tasks
  <1>4. Handled
    BY <1>1 DEF Handled, RestTimer, RestHttpd, RestZigbee, RestMain, Tasks
  <1> QED  BY <1>1, <1>2, <1>3, <1>4 DEF RestInv, OneTask

\* A handler starts, from rest.
LEMMA RestEvent ==
    ASSUME Serial, IInv, RestInv, IInv', Event, Observe,
           rest' = IF AllIdle' THEN Snapshot' ELSE rest
    PROVE  RestInv' /\ UNCHANGED rest
  <1>0. /\ TypeOK /\ ShapeInv /\ CodeOK /\ opMode \in OpMode
        /\ cached \in OpMode /\ status \in MachineStatus
    BY DEF IInv, TypeOK, CodeOK
  <1>1. AllIdle
    BY DEF Event, PressMode, PressStatus, WebAuto, WebOperation, Report,
           RestoreOpMode, Start
  <1>2. /\ rest.mode = opMode /\ rest.relays = relays
        /\ rest.boot = IF restored THEN "running" ELSE "booting"
    BY <1>1 DEF RestInv, Snapshot
  <1>3. UNCHANGED <<opMode, status, relays, cached>>
    BY <1>0, EventBegins
  <1>4. PICK t \in Tasks, s \in Statement, l \in Statement, n \in {1, 2, 3} :
            Begins(t, s, n, l)
    BY <1>0, EventBegins
  <1>5. ~Idle(t)' /\ \A u \in Tasks \ {t} : Idle(u)'
    BY <1>1, <1>4 DEF Begins, Alters, AllIdle, Idle
  <1>6. OneTask' /\ ~AllIdle'
    BY <1>5 DEF OneTask, AllIdle
  <1>7. rest' = rest /\ ~raced' /\ ~racedMode'
    BY <1>6, NoMeeting DEF RestInv
  <1>8. relays = RelaysFor(status)
    BY <1>1 DEF IInv, MotorInv, RestInv, Open, InSection, AllIdle
  <1>9. Untouched'
    BY <1>2, <1>3, <1>7, <1>8 DEF Untouched
  <1>10. restored' \in BOOLEAN
    BY <1>0, EventBegins
  <1>11. Handled' /\ Booting'
    <2>1. \A o \in Ops, a \in OpMode : Do(o, a).op = o /\ Do(o, a).arg = a
      BY DoIsStatement
    <2>2. /\ "timer" \in Tasks /\ "httpd" \in Tasks /\ "zigbee" \in Tasks
          /\ "main" \in Tasks
      BY DEF Tasks
    <2>3. ASSUME UNCHANGED restored, t # "main" PROVE Booting'
      BY <1>2, <1>5, <1>7, <1>10, <2>2, <2>3 DEF Booting
    <2>4. CASE PressMode
      <3>1. Begins("timer", Do("advance_mode", OFF), 1, Do("advance_mode", OFF))
        BY <1>0, <2>4, Handlers
      <3>2. /\ ~Idle("timer")' /\ Head(code'["timer"]).op = "advance_mode"
            /\ Len(code'["timer"]) = 1
        BY <2>1, <3>1 DEF Begins, Ops
      <3>3. t = "timer" /\ UNCHANGED restored
        BY <1>5, <2>2, <2>4, <3>2 DEF PressMode
      <3>4. Left("timer")' = 1
        <4>1. Left("timer")' = 1 - 0
          BY <3>2 DEF Left, At
        <4> QED  BY <4>1
      <3>5. ModeKeyed'
        BY <1>2, <1>3, <1>7, <1>9, <3>2, <3>4 DEF ModeKeyed, At
      <3>6. Handled'
        BY <1>5, <2>2, <3>3, <3>5 DEF Handled, RestTimer, RestHttpd, RestZigbee, RestMain
      <3> QED  BY <2>3, <3>3, <3>6
    <2>5. CASE PressStatus
      <3>1. Begins("timer", Do("check_mode", LOCAL_MODE), 3, Do("redrive", OFF))
        BY <1>0, <2>5, Handlers
      <3>2. /\ ~Idle("timer")' /\ Head(code'["timer"]).op = "check_mode"
            /\ Arg("timer")' = LOCAL_MODE /\ Last(code'["timer"]).op = "redrive"
        BY <2>1, <3>1 DEF Begins, Ops, Arg
      <3>3. t = "timer" /\ UNCHANGED restored
        BY <1>5, <2>2, <2>5, <3>2 DEF PressStatus
      <3>4. ModeHead("timer")'
        BY <3>2 DEF ModeHead, InSection
      <3>5. StatusKeyed'
        BY <1>9, <3>2, <3>4 DEF StatusKeyed
      <3>6. Handled'
        BY <1>5, <2>2, <3>3, <3>5 DEF Handled, RestTimer, RestHttpd, RestZigbee, RestMain
      <3> QED  BY <2>3, <3>3, <3>6
    <2>6. CASE WebAuto
      <3>1. Begins("httpd", Do("check_mode", AUTO), 1, Do("check_mode", AUTO))
        BY <1>0, <2>6, Handlers
      <3>2. /\ ~Idle("httpd")' /\ Head(code'["httpd"]).op = "check_mode"
            /\ Arg("httpd")' = AUTO
        BY <2>1, <3>1 DEF Begins, Ops, Arg
      <3>3. t = "httpd" /\ UNCHANGED restored
        BY <1>5, <2>2, <2>6, <3>2 DEF WebAuto
      <3>4. ModeHead("httpd")'
        BY <3>2 DEF ModeHead, InSection
      <3>5. Handled'
        BY <1>5, <1>9, <2>2, <3>2, <3>3, <3>4
        DEF Handled, RestTimer, RestHttpd, RestZigbee, RestMain
      <3> QED  BY <2>3, <3>3, <3>5
    <2>7. ASSUME NEW a \in Requested, WebOperation(a) PROVE Handled' /\ Booting'
      <3>1. Begins("httpd", Do("check_status", a), 2, Do("check_mode", API))
        BY <1>0, <2>7, Handlers
      <3>2. ~Idle("httpd")' /\ Head(code'["httpd"]).op = "check_status"
        <4>1. a \in OpMode
          BY SpeedsAssumption
        <4> QED  BY <2>1, <3>1, <4>1 DEF Begins, Ops
      <3>3. t = "httpd" /\ UNCHANGED restored
        BY <1>5, <2>2, <2>7, <3>2 DEF WebOperation
      <3>4. StatusHead("httpd")'
        BY <3>2 DEF StatusHead, InSection
      <3>5. Handled'
        BY <1>5, <2>2, <3>3, <3>4
        DEF Handled, RestTimer, RestHttpd, RestZigbee, RestMain
      <3> QED  BY <2>3, <3>3, <3>5
    <2>8. ASSUME NEW a \in Reported, Report(a) PROVE Handled' /\ Booting'
      <3>1. Begins("zigbee", Do("check_auto", a), 1, Do("check_auto", a))
        BY <1>0, <2>8, Handlers
      <3>2. ~Idle("zigbee")' /\ Head(code'["zigbee"]).op = "check_auto"
        <4>1. a \in OpMode
          BY SpeedsAssumption
        <4> QED  BY <2>1, <3>1, <4>1 DEF Begins, Ops
      <3>3. t = "zigbee" /\ UNCHANGED restored
        BY <1>5, <2>2, <2>8, <3>2 DEF Report
      <3>4. RestZigbee'
        BY <1>2, <1>3, <1>7, <1>9, <3>2 DEF RestZigbee, At
      <3>5. Handled'
        BY <1>5, <2>2, <3>3, <3>4
        DEF Handled, RestTimer, RestHttpd, RestMain
      <3> QED  BY <2>3, <3>3, <3>5
    <2>9. CASE RestoreOpMode
      <3>1. Begins("main", Do("check_mode", cached), 1, Do("check_mode", cached))
        BY <1>0, <2>9, Handlers
      <3>2. /\ ~Idle("main")' /\ Head(code'["main"]).op = "check_mode"
            /\ Arg("main")' = cached
        BY <1>0, <2>1, <3>1 DEF Begins, Ops, Arg
      <3>3. t = "main" /\ ~restored /\ restored' = TRUE
        BY <1>5, <2>2, <2>9, <3>2 DEF RestoreOpMode
      <3>4. ModeHead("main")'
        BY <3>2 DEF ModeHead, InSection
      <3>5. opMode \in {LOCAL_MODE, cached}
        BY <1>1 DEF IInv, ModeInv, Saved, RestInv, Open, InSection, AllIdle
      <3>6. RestMain'
        BY <1>2, <1>7, <1>9, <3>2, <3>3, <3>4, <3>5 DEF RestMain
      <3>7. Handled'
        BY <1>5, <2>2, <3>3, <3>6
        DEF Handled, RestTimer, RestHttpd, RestZigbee
      <3>8. Booting'
        BY <1>2, <1>7, <3>2, <3>3 DEF Booting
      <3> QED  BY <3>7, <3>8
    <2> QED  BY <2>4, <2>5, <2>6, <2>7, <2>8, <2>9 DEF Event
  <1> QED
    BY <1>6, <1>7, <1>11 DEF RestInv

\* A statement: the handler goes on, or comes to rest as FanPromise says.
LEMMA RestExecute ==
    ASSUME IInv, RestInv, IInv', NEW t \in Tasks, Execute(t), Observe,
           rest' = IF AllIdle' THEN Snapshot' ELSE rest
    PROVE  RestInv' /\ (Promise!Next \/ UNCHANGED Promise!vars)
  <1>0. /\ TypeOK /\ ShapeInv /\ CodeOK /\ TypeOK' /\ ~Idle(t)
    <2>1. TypeOK /\ ShapeInv /\ CodeOK /\ TypeOK'
      BY DEF IInv, TypeOK, CodeOK
    <2> QED  BY <2>1, ExecuteIs
  <1>1. \A u \in Tasks \ {t} : Idle(u) /\ Idle(u)'
    BY <1>0, ExecuteAlters, Undisturbed DEF Alters, Idle
  <1>2. OneTask' /\ (AllIdle' <=> Idle(t)')
    BY <1>1 DEF OneTask, AllIdle
  <1>3. ~raced' /\ ~racedMode'
    BY <1>2, NoMeeting DEF RestInv
  <1>4. /\ "timer" \in Tasks /\ "httpd" \in Tasks /\ "zigbee" \in Tasks
        /\ "main" \in Tasks
        /\ t = "timer" \/ t = "httpd" \/ t = "zigbee" \/ t = "main"
    BY DEF Tasks
  <1>5. /\ UNCHANGED restored
        /\ t = "main" => restored
        /\ rest' = rest => Handled'
    <2>1. CASE t = "timer"
      BY <1>0, <1>1, <1>4, <2>1, TimerStep DEF Handled, RestHttpd, RestZigbee, RestMain
    <2>2. CASE t = "httpd"
      BY <1>0, <1>1, <1>4, <2>2, HttpdStep DEF Handled, RestTimer, RestZigbee, RestMain
    <2>3. CASE t = "zigbee"
      BY <1>0, <1>1, <1>4, <2>3, ZigbeeStep DEF Handled, RestTimer, RestHttpd, RestMain
    <2>4. CASE t = "main"
      BY <1>0, <1>1, <1>4, <2>4, MainStep DEF Handled, RestTimer, RestHttpd, RestZigbee
    <2> QED  BY <1>4, <2>1, <2>2, <2>3, <2>4
  <1>6. rest.mode \in OpMode /\ Booting /\ restored \in BOOLEAN
    BY <1>0 DEF RestInv, TypeOK
  <1>7. CASE ~Idle(t)'
    <2>1. rest' = rest /\ ~AllIdle'
      BY <1>2, <1>7
    <2>2. Booting'
      <3>1. Idle("main")' <=> Idle("main")
        BY <1>0, <1>1, <1>4, <1>7
      <3> QED  BY <1>5, <1>6, <2>1, <3>1 DEF Booting
    <2>3. RestInv'
      BY <1>2, <1>3, <1>5, <1>6, <2>1, <2>2 DEF RestInv
    <2> QED  BY <2>1, <2>3 DEF Promise!vars
  <1>8. CASE Idle(t)'
    <2>1. AllIdle' /\ rest' = Snapshot'
      BY <1>2, <1>8
    <2>2. /\ rest'.mode = opMode' /\ rest'.relays = relays'
          /\ rest'.boot = IF restored' THEN "running" ELSE "booting"
      BY <2>1 DEF Snapshot
    <2>3. /\ opMode' \in OpMode /\ status' \in MachineStatus
          /\ relays' = RelaysFor(status')
      BY <1>0, <1>3, <2>1
      DEF TypeOK, IInv, MotorInv, Open, InSection, AllIdle
    <2>4. SpeedOf(rest'.relays) = status'
      BY <2>2, <2>3, SpeedOfRelays
    <2>5. \A u \in Tasks : Idle(u)'
      BY <2>1 DEF AllIdle
    <2>6. Booting'
      BY <1>5, <1>6, <1>4, <2>2, <2>5 DEF Booting
    <2>7. Handled'
      BY <1>4, <2>5 DEF Handled, RestTimer, RestHttpd, RestZigbee, RestMain
    <2>8. RestInv'
      BY <1>2, <1>3, <2>1, <2>2, <2>3, <2>6, <2>7 DEF RestInv
    <2>9. t # "main" => UNCHANGED rest.boot
      BY <1>1, <1>4, <1>5, <1>6, <2>2 DEF Booting
    <2>10. Promise!Next \/ UNCHANGED Promise!vars
      <3> USE DEF Promise!Next, Promise!vars
      <3>1. CASE t = "timer"
        <4>1. CASE opMode' = Advance(rest.mode) /\ relays' = rest.relays
          <5>1. Promise!ModeKey
            BY <2>2, <2>9, <3>1, <4>1 DEF Promise!ModeKey, Advance
          <5> QED  BY <5>1
        <4>2. CASE /\ opMode' = LOCAL_MODE
                   /\ \E s \in MachineStatus :
                          rest.relays = RelaysFor(s) /\ status' = Advance(s)
          <5>1. PICK s \in MachineStatus :
                    rest.relays = RelaysFor(s) /\ status' = Advance(s)
            BY <4>2
          <5>2. SpeedOf(rest.relays) = s
            BY <5>1, SpeedOfRelays
          <5>3. Promise!StatusKey
            BY <2>2, <2>4, <2>9, <3>1, <4>2, <5>1, <5>2 DEF Promise!StatusKey, Advance
          <5> QED  BY <5>3
        <4> QED  BY <1>0, <1>8, <3>1, <4>1, <4>2, TimerStep
      <3>2. CASE t = "httpd"
        <4>1. CASE opMode' = API
          <5>1. Promise!Operate(status')
            BY <2>2, <2>4, <2>9, <3>2, <4>1 DEF Promise!Operate
          <5> QED  BY <2>3, <5>1
        <4>2. CASE opMode' = AUTO /\ relays' = rest.relays
          <5>1. Promise!HandOver
            BY <2>2, <2>9, <3>2, <4>2 DEF Promise!HandOver
          <5> QED  BY <5>1
        <4> QED  BY <1>0, <1>8, <3>2, <4>1, <4>2, HttpdStep
      <3>3. CASE t = "zigbee"
        <4>1. /\ UNCHANGED opMode /\ rest.mode = opMode
              /\ opMode = AUTO \/ relays' = rest.relays
          BY <1>0, <1>8, <3>3, ZigbeeStep
        <4>2. CASE opMode = AUTO
          <5>1. Promise!Sense
            BY <2>2, <2>3, <2>4, <2>9, <3>3, <4>1, <4>2 DEF Promise!Sense
          <5> QED  BY <5>1
        <4>3. CASE relays' = rest.relays
          BY <2>2, <2>9, <3>3, <4>1, <4>3
        <4> QED  BY <4>1, <4>2, <4>3
      <3>4. CASE t = "main"
        <4>1. /\ relays' = rest.relays /\ rest.mode \in {LOCAL_MODE, opMode'}
              /\ restored
          BY <1>0, <1>8, <3>4, MainStep
        <4>2. rest.boot = "booting" /\ rest'.boot = "running"
          BY <1>0, <1>5, <1>6, <2>2, <3>4, <4>1 DEF Booting
        <4>3. Promise!FinishBoot
          BY <1>6, <2>2, <2>3, <4>1, <4>2 DEF Promise!FinishBoot
        <4> QED  BY <4>3
      <3> QED  BY <1>4, <3>1, <3>2, <3>3, <3>4
    <2> QED  BY <2>8, <2>10
  <1> QED  BY <1>7, <1>8

LEMMA RestNext ==
    ASSUME Serial, IInv, RestInv, IInv', [ONext]_ovars
    PROVE  RestInv' /\ (Promise!Next \/ UNCHANGED Promise!vars)
  <1>1. CASE UNCHANGED ovars
    <2>1. UNCHANGED <<opMode, status, relays, restored, code, raced, racedMode, rest>>
      BY <1>1 DEF ovars, vars, state
    <2>2. RestInv'
      BY <2>1
      DEF RestInv, OneTask, Booting, AllIdle, Snapshot, Handled, RestTimer,
          RestHttpd, RestZigbee, RestMain, ModeKeyed, StatusKeyed,
          StatusRedriven, Redriving, Untouched, Advanced, Left, ModeHead,
          StatusHead, InSection, At, Idle, Arg
    <2> QED  BY <2>1, <2>2 DEF Promise!vars
  <1>2. ASSUME Observe, rest' = IF AllIdle' THEN Snapshot' ELSE rest, Event
        PROVE  RestInv' /\ UNCHANGED Promise!vars
    BY <1>2, RestEvent DEF Promise!vars
  <1>3. ASSUME Observe, rest' = IF AllIdle' THEN Snapshot' ELSE rest, Expire
        PROVE  RestInv' /\ UNCHANGED Promise!vars
    <2>1. UNCHANGED <<opMode, status, relays, restored, code>>
      BY <1>3 DEF Expire
    <2>2. AllIdle' = AllIdle /\ Snapshot' = Snapshot /\ OneTask' = OneTask
      BY <2>1 DEF AllIdle, Snapshot, OneTask, Idle
    <2>3. rest' = rest
      BY <1>3, <2>2 DEF RestInv
    <2>4. ~raced' /\ ~racedMode'
      BY <1>3, <2>2, NoMeeting DEF RestInv
    <2>5. Handled' /\ Booting'
      BY <2>1, <2>3
      DEF RestInv, Booting, Handled, RestTimer,
          RestHttpd, RestZigbee, RestMain, ModeKeyed, StatusKeyed,
          StatusRedriven, Redriving, Untouched, Advanced, Left, ModeHead,
          StatusHead, InSection, At, Idle, Arg
    <2> QED  BY <2>2, <2>3, <2>4, <2>5 DEF RestInv, Promise!vars
  <1>4. ASSUME Observe, rest' = IF AllIdle' THEN Snapshot' ELSE rest,
               NEW t \in Tasks, Execute(t)
        PROVE  RestInv' /\ (Promise!Next \/ UNCHANGED Promise!vars)
    BY <1>4, RestExecute
  <1>5. ASSUME ONext
        PROVE  /\ Observe /\ rest' = IF AllIdle' THEN Snapshot' ELSE rest
               /\ Event \/ Expire \/ \E t \in Tasks : Execute(t)
    BY <1>5 DEF ONext, Releases, Others, Asks, Event
  <1> QED  BY <1>1, <1>2, <1>3, <1>4, <1>5

\* Handlers that do not overlap do what FanPromise says, for any tasks and any
\* speeds they ask for: from one rest to the next the statements of the four
\* tasks make up one of its actions, or change nothing.
THEOREM HandlersKeepPromise == ASSUME Serial PROVE OSpec => KeepsPromiseAtRest
  <1>1. OInit => IInv /\ RestInv
    BY IInvInit, RestInit DEF OInit
  <1>2. OInit => Promise!Init
    <2> SUFFICES ASSUME OInit PROVE Promise!Init
      OBVIOUS
    <2>1. rest.boot = "booting" /\ rest.mode = LOCAL_MODE /\ rest.relays = relays
      BY DEF OInit, Init, Snapshot
    <2>2. relays = RelaysFor(OFF)
      BY DEF OInit, Init, Released, RelaysFor, EnergisedBy, Pins
    <2> QED  BY <2>1, <2>2, SpeedOfRelays DEF Promise!Init
  <1>3. IInv /\ [ONext]_ovars => IInv'
    BY IInvNext, ONextIsNext
  <1>4. IInv /\ RestInv /\ IInv' /\ [ONext]_ovars => RestInv'
    BY RestNext
  <1>5. IInv /\ RestInv /\ IInv' /\ [ONext]_ovars => [Promise!Next]_Promise!vars
    BY RestNext
  <1> QED
    BY <1>1, <1>2, <1>3, <1>4, <1>5, PTL DEF OSpec, KeepsPromiseAtRest, Promise!Spec

=============================================================================
