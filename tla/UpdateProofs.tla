---------------------------- MODULE UpdateProofs ----------------------------
(***************************************************************************)
(* Proofs about Update for every number of partitions and pieces, every    *)
(* set of files and any number of uploads and power losses: the system     *)
(* always runs from a whole image, and a restart goes no further back than *)
(* the image that ran.                                                     *)
(***************************************************************************)
EXTENDS Update, TLAPS

\* Between a switch and its restart the chosen partition is the one just
\* uploaded, whole, unless the next upload has begun to erase it.
Chosen == switched > 0 /\ ~exposed => selected = Target /\ Whole(content[Target])

\* Otherwise the bootloader would take the running partition, the one uploads
\* go to aside.
FirstAside ==
    switched = 0 =>
        \A q \in Slots : q # Target /\ Whole(content[q]) => ~Before(q, running)

IInv == TypeOK /\ RunsWhole /\ Chosen /\ FirstAside
-----------------------------------------------------------------------------
LEMMA TargetAside ==
    ASSUME running \in Slots
    PROVE  Target \in Slots /\ Target # running
  BY AppsAssumption DEF Target, After, Slots

LEMMA ErasedNotWhole == ~Whole(Erased)
  BY PiecesAssumption DEF Whole, Erased

LEMMA IInvInit == Init => IInv
  <1> SUFFICES ASSUME Init PROVE IInv
    OBVIOUS
  <1>1. 0 \in Slots /\ Pieces \in Nat
    BY AppsAssumption, PiecesAssumption DEF Slots
  <1>2. TypeOK
    <2>1. content \in [Slots -> Contents]
      BY <1>1, ImagesAssumption
      DEF Init, Contents, Image, Erased, Files
    <2>2. 0 \in 0 .. MaxUploads /\ 0 \in 0 .. MaxLosses
      BY BoundsAssumption
    <2> QED  BY <1>1, <2>1, <2>2 DEF Init, TypeOK
  <1>3. RunsWhole
    BY <1>1, ImagesAssumption DEF Init, RunsWhole, Whole, Image
  <1>4. Chosen
    BY DEF Init, Chosen
  <1>5. FirstAside
    <2>1. ASSUME NEW q \in Slots, Before(q, running) PROVE q # 0 /\ q = Target
      BY <2>1, AppsAssumption DEF Init, Before, Slots
    <2> QED  BY <2>1 DEF FirstAside
  <1> QED  BY <1>2, <1>3, <1>4, <1>5 DEF IInv
-----------------------------------------------------------------------------
(***************************************************************************)
(* A restart                                                               *)
(***************************************************************************)

\* The bootloader takes the running partition or the one just uploaded.
LEMMA BootsNear ==
    ASSUME IInv, ~exposed, NEW s \in Slots, Boots(s)
    PROVE  s \in {running, Target}
  <1>1. /\ selected \in 0 .. Apps /\ running \in 0 .. Apps /\ s \in 0 .. Apps
        /\ Target \in Slots /\ Apps \in Nat
    BY TargetAside, AppsAssumption DEF IInv, TypeOK, Slots
  <1>2. CASE switched > 0
    <2>1. selected = Target /\ Whole(content[Target])
      BY <1>2 DEF IInv, Chosen
    <2>2. ~Before(Target, s)
      BY <1>1, <2>1 DEF Boots
    <2> QED  BY <1>1, <2>1, <2>2 DEF Before, Slots
  <1>3. CASE ~(switched > 0)
    <2>1. switched = 0
      BY <1>3 DEF IInv, TypeOK
    <2>2. CASE s # Target
      <3>1. ~Before(s, running)
        BY <2>1, <2>2 DEF IInv, FirstAside, Boots
      <3>2. ~Before(running, s)
        BY DEF IInv, TypeOK, RunsWhole, Boots
      <3> QED  BY <1>1, <3>1, <3>2 DEF Before
    <2> QED  BY <2>2
  <1> QED  BY <1>2, <1>3

LEMMA RebootKeeps ==
    ASSUME IInv, Reboot, UNCHANGED <<content, selected>>,
           uploads' \in 0 .. MaxUploads, losses' \in 0 .. MaxLosses,
           disturbed' \in BOOLEAN
    PROVE  IInv'
  <1> PICK s \in Slots : Boots(s) /\ running' = s
    BY DEF Reboot
  <1>1. TypeOK'
    BY DEF IInv, TypeOK, Reboot
  <1>2. RunsWhole'
    BY DEF RunsWhole, Boots
  <1>3. Chosen'
    BY DEF Reboot, Chosen
  <1>4. \A q \in Slots : Whole(content'[q]) => ~Before(q, running)'
    BY DEF Boots, Before
  <1> QED  BY <1>1, <1>2, <1>3, <1>4 DEF IInv, FirstAside

LEMMA AbortKeeps == ASSUME IInv, Abort PROVE IInv'
  BY RebootKeeps DEF Abort, IInv, TypeOK

(***************************************************************************)
(* What an upload leaves alone                                             *)
(***************************************************************************)
LEMMA UploadKeeps ==
    ASSUME IInv, TypeOK', UNCHANGED <<selected, running, switched>>,
           \A q \in Slots : q # Target => content'[q] = content[q],
           switched > 0 /\ ~exposed' => ~exposed /\ UNCHANGED content
    PROVE  IInv'
  <1>1. running \in Slots /\ Target # running
    BY TargetAside DEF IInv, TypeOK
  <1>2. Target' = Target
    BY DEF Target
  <1>3. RunsWhole'
    BY <1>1 DEF IInv, RunsWhole
  <1>4. Chosen'
    BY <1>2 DEF IInv, Chosen
  <1>5. FirstAside'
    <2>1. \A q \in Slots : Before(q, running)' = Before(q, running)
      BY DEF Before
    <2> QED  BY <1>2, <2>1 DEF IInv, FirstAside
  <1> QED  BY <1>3, <1>4, <1>5 DEF IInv

LEMMA IInvNext == IInv /\ [Next]_vars => IInv'
  <1> SUFFICES ASSUME IInv, [Next]_vars PROVE IInv'
    OBVIOUS
  <1>1. /\ Target \in Slots /\ Target # running
        /\ content[Target].pieces \in 0 .. Pieces
        /\ content[Target].file \in Files \cup {Nothing}
        /\ Pieces \in Nat
    BY TargetAside, PiecesAssumption DEF IInv, TypeOK, Contents
  <1>2. ASSUME NEW f \in Files, Begin(f) PROVE IInv'
    <2>1. Erased \in Contents
      BY <1>1 DEF Erased, Contents
    <2>2. content' \in [Slots -> Contents]
      BY <1>2, <2>1 DEF Begin, IInv, TypeOK
    <2>3. uploads' \in 0 .. MaxUploads
      BY <1>2, BoundsAssumption DEF Begin, IInv, TypeOK
    <2>4. TypeOK'
      BY <1>2, <2>2, <2>3 DEF Begin, tasks, IInv, TypeOK
    <2>5. \A q \in Slots : q # Target => content'[q] = content[q]
      BY <1>2 DEF Begin, IInv, TypeOK
    <2> QED  BY <1>2, <2>4, <2>5, UploadKeeps DEF Begin, tasks
  <1>3. CASE BeginFails
    BY <1>3, RebootKeeps DEF BeginFails, IInv, TypeOK
  <1>4. CASE Receive
    <2>1. [file |-> upload, pieces |-> content[Target].pieces + 1] \in Contents
      BY <1>1, <1>4 DEF Receive, Contents, IInv, TypeOK
    <2>2. content' \in [Slots -> Contents]
      BY <1>4, <2>1 DEF Receive, IInv, TypeOK
    <2>3. TypeOK'
      BY <1>4, <2>2 DEF Receive, tasks, IInv, TypeOK
    <2>4. \A q \in Slots : q # Target => content'[q] = content[q]
      BY <1>4 DEF Receive, IInv, TypeOK
    <2>5. ~(switched > 0 /\ ~exposed)
      BY <1>1, <1>4 DEF Receive, IInv, Chosen, Whole
    <2> QED  BY <1>4, <2>3, <2>4, <2>5, UploadKeeps DEF Receive, tasks
  <1>5. CASE WriteFails
    BY <1>5, AbortKeeps DEF WriteFails
  <1>6. CASE ReceiveFails
    <2>1. CASE Abort
      BY <2>1, AbortKeeps
    <2>2. CASE ~Abort
      <3>1. TypeOK'
        BY <1>6, <2>2 DEF ReceiveFails, tasks, IInv, TypeOK, Files
      <3> QED  BY <1>6, <2>2, <3>1, UploadKeeps DEF ReceiveFails, tasks
    <2> QED  BY <2>1, <2>2
  <1>7. CASE End
    <2>1. CASE Whole(content[Target])
      <3>1. waiting' \in Nat /\ disturbed' \in BOOLEAN
        <4>1. waiting \in Nat /\ waiting + 1 \in Nat /\ disturbed \in BOOLEAN
          BY DEF IInv, TypeOK
        <4> QED  BY <1>7, <2>1, <4>1 DEF End
      <3>2. TypeOK'
        BY <1>7, <2>1, <3>1 DEF End, IInv, TypeOK
      <3> QED  BY <1>7, <2>1, <3>2, UploadKeeps DEF End
    <2>2. CASE ~Whole(content[Target])
      BY <1>7, <2>2, AbortKeeps DEF End
    <2> QED  BY <2>1, <2>2
  <1>8. CASE Switch
    <2>1. CASE Whole(content[Target])
      <3>1. TypeOK'
        BY <1>1, <1>8, <2>1 DEF Switch, IInv, TypeOK
      <3>2. Target' = Target
        BY <1>8, <2>1 DEF Switch, Target
      <3>3. RunsWhole' /\ Chosen'
        BY <1>8, <2>1, <3>2 DEF Switch, IInv, RunsWhole, Chosen
      <3>4. switched' # 0
        BY <1>8, <2>1 DEF Switch, IInv, TypeOK
      <3> QED  BY <3>1, <3>3, <3>4 DEF IInv, FirstAside
    <2>2. CASE ~Whole(content[Target])
      BY <1>8, <2>2, AbortKeeps DEF Switch
    <2> QED  BY <2>1, <2>2
  <1>9. CASE Restart
    BY <1>9, AbortKeeps DEF Restart
  <1>10. CASE PowerLoss
    <2>1. losses' \in 0 .. MaxLosses
      BY <1>10, BoundsAssumption DEF PowerLoss, IInv, TypeOK
    <2> QED  BY <1>10, <2>1, RebootKeeps DEF PowerLoss, IInv, TypeOK
  <1>11. CASE UNCHANGED vars
    <2>1. UNCHANGED <<content, selected, running, upload, waiting, switched,
                      uploads, losses, disturbed, exposed>>
      BY <1>11 DEF vars, tasks
    <2>2. TypeOK' /\ RunsWhole' /\ Target' = Target
      BY <2>1 DEF IInv, TypeOK, RunsWhole, Target
    <2>3. \A q \in Slots : Before(q, running)' = Before(q, running)
      BY <2>1 DEF Before
    <2> QED  BY <2>1, <2>2, <2>3 DEF IInv, Chosen, FirstAside
  <1> QED  BY <1>2, <1>3, <1>4, <1>5, <1>6, <1>7, <1>8, <1>9, <1>10, <1>11
           DEF Next

LEMMA IInvAlways == Spec => []IInv
  BY IInvInit, IInvNext, PTL DEF Spec
-----------------------------------------------------------------------------
\* The types hold in every reachable state, for all bounds.
THEOREM TypeCorrect == Spec => []TypeOK
  <1>1. IInv => TypeOK
    BY DEF IInv
  <1> QED  BY <1>1, IInvAlways, PTL

\* The partition the system runs from always holds a whole image: no upload,
\* error or power loss ever leaves the bootloader without one.
THEOREM AlwaysRunsWhole == Spec => []RunsWhole
  <1>1. IInv => RunsWhole
    BY DEF IInv
  <1> QED  BY <1>1, IInvAlways, PTL

\* A restart goes on with the image that ran or the one just uploaded, unless
\* the next upload had begun between the switch and its restart.
THEOREM NoStepBack == Spec => NeverFurtherBack
  <1> DEFINE A == running' \in {running, Target} \/ exposed
  <1>1. ASSUME IInv, [Next]_vars PROVE [A]_vars
    <2>1. CASE Reboot
      <3>1. PICK s \in Slots : Boots(s) /\ running' = s
        BY <2>1 DEF Reboot
      <3> QED  BY <1>1, <3>1, BootsNear
    <2>2. CASE ~Reboot
      <3>1. UNCHANGED running
        BY <1>1, <2>2
        DEF Next, Begin, BeginFails, Receive, WriteFails, ReceiveFails, End,
            Switch, Restart, PowerLoss, Abort, vars
      <3> QED  BY <3>1
    <2> QED  BY <2>1, <2>2
  <1>2. IInv /\ [Next]_vars => [A]_vars
    BY <1>1
  <1> QED  BY <1>2, IInvAlways, PTL DEF Spec, NeverFurtherBack

=============================================================================
