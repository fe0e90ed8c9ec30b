------------------------------- MODULE Update -------------------------------
(***************************************************************************)
(* main/ota_updater.c: a firmware image is uploaded into the partition     *)
(* after the running one, in pieces as the web server receives them; a     *)
(* task of its own chooses the partition for the next boot five seconds    *)
(* later and restarts.  The web server serves other uploads meanwhile.     *)
(*                                                                         *)
(* Partitions are numbered as the bootloader does: 0 is factory, 1 .. Apps *)
(* are ota_0, ota_1, ...  ESP-IDF's app_update and the bootloader verify   *)
(* images; a failed ESP_ERROR_CHECK or a crash restarts the system.  App   *)
(* rollback is not configured (sdkconfig), so that                         *)
(* ota_updater_activate_current_partition has no effect.                   *)
(***************************************************************************)
EXTENDS Integers

CONSTANTS
    Apps,          \* OTA partitions of partitions.csv
    Pieces,        \* of an image
    Images,        \* files that are firmware
    Factory,       \* the one flashed at the factory
    MaxUploads,    \* bound: uploads
    MaxLosses      \* bound: power losses

ASSUME AppsAssumption   == Apps \in Nat /\ Apps > 1
ASSUME PiecesAssumption == Pieces \in Nat \ {0}
ASSUME ImagesAssumption == Factory \in Images /\ {"junk", "nothing"} \cap Images = {}
ASSUME BoundsAssumption == MaxUploads \in Nat /\ MaxLosses \in Nat

VARIABLES
    content,      \* of the app partitions
    selected,     \* otadata: the partition to boot
    running,      \* esp_ota_get_running_partition
    upload,       \* the file the web server is receiving, or Nothing
    waiting,      \* restart tasks in their five seconds
    switched,     \* restart tasks that have switched and not restarted yet
    uploads, losses,
    disturbed,    \* observer: an upload or a power loss since the last upload ended
    exposed       \* observer: an upload begun between a switch and its restart

tasks == <<waiting, switched>>
vars  == <<content, selected, running, upload, tasks, uploads, losses,
           disturbed, exposed>>

Slots   == 0 .. Apps
Nothing == "nothing"
Junk    == "junk"
Files   == Images \cup {Junk}

Contents == [file : Files \cup {Nothing}, pieces : 0 .. Pieces]
Erased   == [file |-> Nothing, pieces |-> 0]
Image(f) == [file |-> f, pieces |-> Pieces]

\* What esp_image_verify accepts, here and in the bootloader.
Whole(c) == c.file \in Images /\ c.pieces = Pieces

Init ==
    /\ content = [s \in Slots |-> IF s = 0 THEN Image(Factory) ELSE Erased]
    /\ selected = 0 /\ running = 0
    /\ upload = Nothing
    /\ waiting = 0 /\ switched = 0
    /\ uploads = 0 /\ losses = 0
    /\ disturbed = FALSE /\ exposed = FALSE
-----------------------------------------------------------------------------
(***************************************************************************)
(* A restart: the bootloader takes the selected partition, else the first  *)
(* good one below it, factory last, else the first good one above it.      *)
(***************************************************************************)
Before(q, s) == IF s <= selected THEN s < q /\ q <= selected
                                 ELSE q < s

Boots(s) == /\ Whole(content[s])
            /\ \A q \in Slots : Before(q, s) => ~Whole(content[q])

Reboot ==
    /\ \E s \in Slots : Boots(s) /\ running' = s
    /\ upload' = Nothing /\ waiting' = 0 /\ switched' = 0
    /\ exposed' = FALSE

\* A failed check or a crash.
Abort == Reboot /\ UNCHANGED <<content, selected, uploads, losses, disturbed>>

PowerLoss ==
    /\ losses < MaxLosses /\ losses' = losses + 1
    /\ disturbed' = TRUE
    /\ Reboot
    /\ UNCHANGED <<content, selected, uploads>>

(***************************************************************************)
(* ac400_firmware_updater                                                  *)
(***************************************************************************)

\* esp_ota_get_next_update_partition
After(s) == IF s \in 1 .. Apps - 1 THEN s + 1 ELSE 1

\* Faulty variant: the partition after the one chosen for the next boot.
TargetAfterSelected == After(selected)

\* The next upload goes here; the partition the restart tasks were given, too,
\* as running does not change while they exist.
Target == After(running)

\* Faulty variant: the partition is chosen for the next boot at once.
BeginSwitches(f) ==
    /\ upload = Nothing /\ uploads < MaxUploads
    /\ uploads' = uploads + 1 /\ upload' = f
    /\ content' = [content EXCEPT ![Target] = Erased]
    /\ selected' = Target
    /\ disturbed' = TRUE
    /\ UNCHANGED <<running, tasks, losses, exposed>>

\* Up to esp_ota_begin, which erases the partition.
Begin(f) ==
    /\ upload = Nothing /\ uploads < MaxUploads
    /\ uploads' = uploads + 1 /\ upload' = f
    /\ content' = [content EXCEPT ![Target] = Erased]
    /\ disturbed' = TRUE
    /\ exposed' = (exposed \/ switched > 0)
    /\ UNCHANGED <<selected, running, tasks, losses>>

\* A request without a boundary, or larger than the partition.
BeginFails ==
    /\ upload = Nothing /\ uploads < MaxUploads
    /\ disturbed' = TRUE
    /\ Reboot
    /\ UNCHANGED <<content, selected, uploads, losses>>

\* Faulty variant: a piece too many.
ReceiveOneMore ==
    /\ upload # Nothing /\ content[Target].pieces <= Pieces
    /\ content' = [content EXCEPT ![Target] = [file   |-> upload,
                                               pieces |-> @.pieces + 1]]
    /\ UNCHANGED <<selected, running, upload, tasks, uploads, losses,
                   disturbed, exposed>>

\* httpd_req_recv returns data; write_part_data.
Receive ==
    /\ upload # Nothing /\ content[Target].pieces < Pieces
    /\ content' = [content EXCEPT ![Target] = [file   |-> upload,
                                               pieces |-> @.pieces + 1]]
    /\ UNCHANGED <<selected, running, upload, tasks, uploads, losses,
                   disturbed, exposed>>

\* esp_ota_write checks the first byte.
WriteFails == upload = Junk /\ content[Target].pieces = 0 /\ Abort

\* An error of httpd_req_recv, kept as size_t: the parser reads far beyond the
\* buffer and crashes, or takes what it finds for data of the file.
ReceiveFails ==
    /\ upload # Nothing
    /\ \/ Abort
       \/ /\ upload' = Junk
          /\ UNCHANGED <<content, selected, running, tasks, uploads, losses,
                         disturbed, exposed>>

\* httpd_req_recv returns 0: the body is complete, or the peer has closed.
\* esp_ota_end verifies; nobody looks whether xTaskCreate had the memory.
End ==
    /\ upload # Nothing
    /\ IF Whole(content[Target])
       THEN /\ upload' = Nothing
            /\ \/ waiting' = waiting + 1 /\ disturbed' = FALSE
               \/ UNCHANGED <<waiting, disturbed>>
            /\ UNCHANGED <<content, selected, running, switched, uploads,
                           losses, exposed>>
       ELSE Abort

(***************************************************************************)
(* partition_and_restart                                                   *)
(***************************************************************************)

\* Faulty variant: the partition is verified but not chosen.
SwitchForgotten ==
    /\ waiting > 0
    /\ IF Whole(content[Target])
       THEN /\ waiting' = waiting - 1 /\ switched' = switched + 1
            /\ UNCHANGED <<content, selected, running, upload, uploads, losses,
                           disturbed, exposed>>
       ELSE Abort

\* esp_ota_set_boot_partition verifies again.
Switch ==
    /\ waiting > 0
    /\ IF Whole(content[Target])
       THEN /\ selected' = Target
            /\ waiting' = waiting - 1 /\ switched' = switched + 1
            /\ UNCHANGED <<content, running, upload, uploads, losses,
                           disturbed, exposed>>
       ELSE Abort

Restart == switched > 0 /\ Abort

-----------------------------------------------------------------------------
Next == \/ \E f \in Files : Begin(f)
        \/ BeginFails
        \/ Receive \/ WriteFails \/ ReceiveFails \/ End
        \/ Switch \/ Restart \/ PowerLoss

Spec == Init /\ [][Next]_vars

\* The restart task runs when its delay is over.
FairSpec == Spec /\ WF_vars(Switch) /\ WF_vars(Restart)
-----------------------------------------------------------------------------
TypeOK ==
    /\ content \in [Slots -> Contents]
    /\ selected \in Slots /\ running \in Slots
    /\ upload \in Files \cup {Nothing}
    /\ waiting \in Nat /\ switched \in Nat
    /\ uploads \in 0 .. MaxUploads /\ losses \in 0 .. MaxLosses
    /\ disturbed \in BOOLEAN /\ exposed \in BOOLEAN

\* Whatever is uploaded, cut short, spoiled or interrupted, and whenever the
\* power goes: the partition the system runs from holds a whole image, so the
\* bootloader always finds one.
RunsWhole == Whole(content[running])

\* A restart goes on with the image that ran or with the one just uploaded,
\* never further back, unless the next upload had begun between the switch and
\* its restart.
NeverFurtherBack ==
    [][running' \in {running, Target} \/ exposed]_vars

\* An upload that ended well is what runs in the end, unless another upload
\* begins or the power goes before that.
Activates ==
    \A f \in Images :
        (waiting > 0 /\ content[Target].file = f)
            ~> (content[running].file = f \/ disturbed)

=============================================================================
