----------------------------- MODULE BootControl -----------------------------
(***************************************************************************)
(* Which firmware the device starts: two OTA slots, the two otadata        *)
(* sectors that select one, the bootloader with rollback enabled, k85OS's  *)
(* own bootloader hook (button A held at power-on), app_main's             *)
(* confirmation, the boot menu and the BIOS operations that switch slots.  *)
(*                                                                         *)
(* An otadata sector is erased before it is written, so a power cut in     *)
(* between leaves it empty.  The power may be cut in every one of these    *)
(* writes and between any two steps.                                       *)
(***************************************************************************)
EXTENDS Naturals, FiniteSets

CONSTANT MaxSeq   \* bound of the otadata sequence numbers

\* The bootloader's own entries are numbered 1 and 2.
ASSUME BootControlAssumption == MaxSeq \in Nat /\ MaxSeq >= 2

VARIABLES slots,    \* the image in each slot
          ota,      \* the two otadata sectors
          phase,    \* how far this start of the device has come
          running,  \* the slot whose image runs
          held,     \* button A was held at this power-on
          hookCut   \* history: the hook lost its write, and k85OS has not
                    \* confirmed itself since

vars == <<slots, ota, phase, running, held, hookCut>>

Slots   == {0, 1}
Sectors == {0, 1}
Other(s) == 1 - s

\* "k85os" confirms itself, "faulty" is a k85OS build that crashes before it
\* does, "alien" is third-party firmware, "broken" is no valid image.
Images == {"k85os", "faulty", "alien", "broken"}

States == {"none", "new", "pending", "valid", "aborted"}
Entry(seq, state) == [seq |-> seq, state |-> state]
Blank == Entry(0, "none")

Usable(data, i) == data[i].seq > 0 /\ data[i].state # "aborted"
SlotOf(data, i) == (data[i].seq - 1) % 2

\* bootloader_common_get_active_otadata: the usable sector with the highest
\* sequence number; the empty set when there is none.
Active(data) ==
    {i \in Sectors : /\ Usable(data, i)
                     /\ \/ ~Usable(data, Other(i))
                        \/ data[i].seq > data[Other(i)].seq
                        \/ data[i].seq = data[Other(i)].seq /\ i = 0}

\* bootloader_utility_load_boot_image: the wanted slot, else the other one.
Loaded(s) == IF slots[s] # "broken" THEN s ELSE Other(s)

Init ==
    /\ slots = [s \in Slots |-> IF s = 0 THEN "k85os" ELSE "broken"]
    /\ ota = [i \in Sectors |-> Blank]
    /\ phase = "off"
    /\ running = 0
    /\ held = FALSE
    /\ hookCut = FALSE

-----------------------------------------------------------------------------
\* The device stops and starts again; RAM is lost.
PowerDown == phase' = "off" /\ running' = 0 /\ held' = FALSE

\* Sector i is written, or the power is cut after its erasure.
Put(i, entry, next) ==
    \/ ota' = [ota EXCEPT ![i] = entry] /\ next
    \/ ota' = [ota EXCEPT ![i] = Blank] /\ PowerDown

PowerOn(buttonA) ==
    /\ phase = "off"
    /\ held' = buttonA
    /\ phase' = IF buttonA THEN "hook" ELSE "bootloader"
    /\ UNCHANGED <<slots, ota, running, hookCut>>

-----------------------------------------------------------------------------
(* The bootloader.                                                         *)

\* slot_holds_k85os: the image header names the project.
HoldsK85OS(s) == slots[s] \in {"k85os", "faulty"}

\* Bug to catch: the sequence number is the slot's index.
SeqOfSlotZeroBased(s) == s

SeqOfSlot(s) == s + 1

\* switch_to_k85os: with k85OS in exactly one slot, both sectors are erased
\* and the first is written.
Hook ==
    /\ phase = "hook"
    /\ LET home == {s \in Slots : HoldsK85OS(s)}
       IN IF Cardinality(home) # 1
          THEN phase' = "bootloader" /\ UNCHANGED <<ota, running, held, hookCut>>
          ELSE \/ /\ \E s \in home :
                        ota' = [i \in Sectors |->
                                  IF i = 0 THEN Entry(SeqOfSlot(s), "valid") ELSE Blank]
                  /\ phase' = "bootloader"
                  /\ UNCHANGED <<running, held, hookCut>>
               \/ /\ ota' = [i \in Sectors |-> Blank]
                  /\ PowerDown
                  /\ hookCut' = TRUE
    /\ UNCHANGED slots

Pending(i) == ota[i].state = "pending"

\* An image that was started and has not confirmed itself is given up.
MarkAborted(i) ==
    /\ phase = "bootloader" /\ Pending(i)
    /\ Put(i, Entry(ota[i].seq, "aborted"), UNCHANGED <<phase, running, held>>)
    /\ UNCHANGED <<slots, hookCut>>

Run(s) == running' = s /\ phase' = "app" /\ UNCHANGED held

\* The slot of the active sector is started; a new selection is on probation.
StartSelected(i) ==
    /\ phase = "bootloader" /\ ~\E j \in Sectors : Pending(j)
    /\ i \in Active(ota)
    /\ LET s == Loaded(SlotOf(ota, i))
       IN IF ota[i].state = "new"
          THEN Put(i, Entry(ota[i].seq, "pending"), Run(s))
          ELSE Run(s) /\ UNCHANGED ota
    /\ UNCHANGED <<slots, hookCut>>

\* Nothing is selected: slot 0 is tried first, and virgin otadata is written.
StartUnselected ==
    /\ phase = "bootloader" /\ ~\E j \in Sectors : Pending(j)
    /\ Active(ota) = {}
    /\ LET s == Loaded(0)
       IN IF ota = [i \in Sectors |-> Blank]
          THEN Put(0, Entry(s + 1, "valid"), Run(s))
          ELSE Run(s) /\ UNCHANGED ota
    /\ UNCHANGED <<slots, hookCut>>

-----------------------------------------------------------------------------
(* k85OS.                                                                  *)

\* Bug to catch: nobody calls esp_ota_mark_app_valid_cancel_rollback.
ConfirmForgotten ==
    /\ phase = "app" /\ slots[running] = "k85os"
    /\ phase' = "menu"
    /\ hookCut' = FALSE
    /\ UNCHANGED <<slots, ota, running, held>>

\* Bug to catch: the confirmation is the first thing app_main does, before
\* anything that could crash.
ConfirmTooEarly ==
    /\ phase = "app" /\ HoldsK85OS(running)
    /\ ota' = [i \in Sectors |-> IF i \in Active(ota) THEN Entry(ota[i].seq, "valid") ELSE ota[i]]
    /\ phase' = IF slots[running] = "k85os" THEN "menu" ELSE phase
    /\ UNCHANGED <<slots, running, held, hookCut>>

\* app_main gets as far as esp_ota_mark_app_valid_cancel_rollback, which
\* rewrites the active sector in place.
Confirm ==
    /\ phase = "app" /\ slots[running] = "k85os"
    /\ LET on == phase' = "menu" /\ UNCHANGED <<running, held>>
       IN IF \E i \in Active(ota) : ota[i].state # "valid"
          THEN \E i \in Active(ota) :
                  Put(i, Entry(ota[i].seq, "valid"), on)
          ELSE on /\ UNCHANGED ota
    /\ UNCHANGED slots
    /\ hookCut' = (hookCut /\ phase' # "menu")

\* The boot menu is left with a choice that starts k85OS, BIOS or the tests.
ChooseNormal ==
    /\ phase = "menu"
    /\ phase' = "up"
    /\ UNCHANGED <<slots, ota, running, held, hookCut>>

\* The least number from seq on that stands for slot s.
NextSeq(s, seq) == IF (seq - 1) % 2 = s THEN seq ELSE seq + 1

\* esp_ota_set_boot_partition on a valid image, followed by esp_restart: the
\* sector that is not active is rewritten.
SelectSlot(s) ==
    IF Active(ota) = {}
    THEN Put(0, Entry(s + 1, "new"), PowerDown)
    ELSE \E i \in Active(ota) :
            LET seq == NextSeq(s, ota[i].seq)
            IN /\ seq <= MaxSeq
               /\ Put(Other(i), Entry(seq, "new"), PowerDown)

\* "Alt Firmware": the error of esp_ota_set_boot_partition is ignored, and
\* the device restarts in any case.
ChooseAlt ==
    /\ phase = "menu"
    /\ IF slots[Other(running)] # "broken"
       THEN SelectSlot(Other(running))
       ELSE PowerDown /\ UNCHANGED ota
    /\ UNCHANGED <<slots, hookCut>>

\* Bug to catch: the list of the other slots has the running one in it.
BootRunningSlot ==
    /\ phase = "up"
    /\ SelectSlot(running)
    /\ UNCHANGED <<slots, hookCut>>

\* BIOS: rollback, boot other slot.  An error stops the operation.
BootOtherSlot ==
    /\ phase = "up"
    /\ slots[Other(running)] # "broken"
    /\ SelectSlot(Other(running))
    /\ UNCHANGED <<slots, hookCut>>

\* An install into esp_ota_get_next_update_partition, which is never the
\* running slot; one that fails leaves no valid image.
Flash(image) ==
    /\ phase = "up"
    /\ slots' = [slots EXCEPT ![Other(running)] = image]
    /\ UNCHANGED <<ota, phase, running, held, hookCut>>

\* A crash, a restart, or the power switch, whatever runs.
Reset ==
    /\ phase # "off"
    /\ PowerDown
    /\ UNCHANGED <<slots, ota, hookCut>>

Bootloader ==
    \/ \E i \in Sectors : MarkAborted(i) \/ StartSelected(i)
    \/ StartUnselected

Next ==
    \/ \E buttonA \in BOOLEAN : PowerOn(buttonA)
    \/ Hook
    \/ Bootloader
    \/ Confirm \/ ChooseNormal \/ ChooseAlt
    \/ BootOtherSlot
    \/ \E image \in Images : Flash(image)
    \/ Reset

Spec == Init /\ [][Next]_vars

-----------------------------------------------------------------------------
(* Properties.                                                             *)

TypeOK ==
    /\ slots \in [Slots -> Images]
    /\ ota \in [Sectors -> [seq : 0..MaxSeq, state : States]]
    /\ phase \in {"off", "hook", "bootloader", "app", "menu", "up"}
    /\ running \in Slots
    /\ held \in BOOLEAN /\ hookCut \in BOOLEAN

\* The slot a plain restart will run: probation that was not confirmed ends,
\* then the bootloader chooses.
AfterAbort == [i \in Sectors |-> IF Pending(i) THEN Entry(ota[i].seq, "aborted") ELSE ota[i]]
NextStart ==
    IF Active(AfterAbort) = {} THEN Loaded(0)
    ELSE Loaded(SlotOf(AfterAbort, CHOOSE i \in Active(AfterAbort) : TRUE))

\* The hook's promise (k85_boot_hooks.c): with A held at power-on, the one
\* slot with k85OS runs, whatever otadata and earlier power cuts say.
HeldMeansHome ==
    phase \in {"app", "menu", "up"} /\ held =>
        \A s \in Slots : HoldsK85OS(s) /\ ~HoldsK85OS(Other(s)) => running = s

\* Once k85OS is up, a restart that nobody asked another slot for comes back
\* to it.
UpMeansSelected == phase \in {"menu", "up"} => NextStart = running

\* A switch is all or nothing, also when the power is cut in its otadata
\* write: the next start is the other slot's, or everything is as before.
SwitchIsWhole ==
    [][phase' = "off" /\ phase \in {"menu", "up"} =>
          LET selected == \E i \in Sectors : ota'[i].state = "new"
          IN NextStart' = (IF selected THEN Other(running) ELSE running)]_vars

\* Firmware that does not confirm itself runs once: while it runs, the next
\* start is k85OS's (k85os_idf.cpp:122).  A power cut in the hook, the one
\* operation that erases both sectors, is the exception.
UnconfirmedRunsOnce ==
    phase = "app" /\ slots[running] # "k85os" /\ ~hookCut => slots[NextStart] = "k85os"
=============================================================================
