------------------------- MODULE BootControlProofs --------------------------
(* Proofs about BootControl, for any bound of the sequence numbers: its     *)
(* types; that button A held at power-on brings k85OS back; that a system   *)
(* which is up stays selected, one that is not confirmed runs once, and a   *)
(* switch is whole.  The last three rest on OtaInv, which says what otadata *)
(* may hold in each phase.                                                  *)
EXTENDS BootControl, FiniteSetTheorems, TLAPS

OtaEntries == [seq : 0..MaxSeq, state : States]

OnlyHome(s) == HoldsK85OS(s) /\ ~HoldsK85OS(Other(s))

\* What the hook writes for the slot s.
HomeSelected(s) == [i \in Sectors |-> IF i = 0 THEN Entry(SeqOfSlot(s), "valid") ELSE Blank]

\* k85OS is what runs from the boot menu on.
MenuIsK85OS == phase \in {"menu", "up"} => HoldsK85OS(running)

\* After the hook nothing but the slot of k85OS is selected.
HookSelects ==
    held /\ phase = "bootloader" => \A s \in Slots : OnlyHome(s) => ota = HomeSelected(s)

IInv == MenuIsK85OS /\ HookSelects /\ HeldMeansHome

-----------------------------------------------------------------------------
LEMMA EntryTyped ==
  ASSUME NEW n \in 0..MaxSeq, NEW st \in States
  PROVE  Entry(n, st) \in OtaEntries
  BY DEF Entry, OtaEntries

LEMMA BlankTyped == Blank \in OtaEntries
<1>1. 0 \in 0..MaxSeq /\ "none" \in States
  BY BootControlAssumption DEF BootControlAssumption, States
<1> QED BY <1>1, EntryTyped DEF Blank

LEMMA SlotSeqTyped == ASSUME NEW s \in Slots PROVE s + 1 \in 0..MaxSeq /\ SeqOfSlot(s) = s + 1
  BY BootControlAssumption DEF BootControlAssumption, Slots, SeqOfSlot

\* A write of a sector keeps otadata well formed, also one that is cut.
LEMMA PutTyped ==
  ASSUME TypeOK, NEW i \in Sectors, NEW entry \in OtaEntries,
         ota' = [ota EXCEPT ![i] = entry] \/ ota' = [ota EXCEPT ![i] = Blank]
  PROVE  ota' \in [Sectors -> OtaEntries]
  BY BlankTyped DEF TypeOK, OtaEntries

LEMMA SlotOfTyped ==
  ASSUME TypeOK, NEW i \in Sectors, Usable(ota, i)
  PROVE  SlotOf(ota, i) \in Slots
<1>1. ota[i].seq \in 0..MaxSeq /\ ota[i].seq > 0
  BY DEF TypeOK, Usable
<1>2. ota[i].seq - 1 \in Nat
  BY <1>1, BootControlAssumption DEF BootControlAssumption
<1> QED BY <1>2 DEF SlotOf, Slots

LEMMA OtherTyped == ASSUME NEW s \in Slots PROVE Other(s) \in Slots /\ Other(s) # s
  BY DEF Slots, Other

LEMMA OtherSector == ASSUME NEW i \in Sectors PROVE Other(i) \in Sectors
  BY DEF Sectors, Other

LEMMA LoadedTyped == ASSUME NEW s \in Slots PROVE Loaded(s) \in Slots
  BY OtherTyped DEF Loaded

LEMMA SelectTyped ==
  ASSUME TypeOK, NEW s \in Slots, SelectSlot(s)
  PROVE  ota' \in [Sectors -> OtaEntries] /\ PowerDown
<1>0. "new" \in States /\ 0 \in Sectors
  BY DEF States, Sectors
<1>1. CASE Active(ota) = {}
  <2>1. Put(0, Entry(s + 1, "new"), PowerDown)
    BY <1>1 DEF SelectSlot
  <2>2. Entry(s + 1, "new") \in OtaEntries
    BY <1>0, SlotSeqTyped, EntryTyped
  <2> QED BY <1>0, <2>1, <2>2, PutTyped DEF Put
<1>2. CASE Active(ota) # {}
  <2>1. PICK i \in Active(ota) :
           /\ NextSeq(s, ota[i].seq) <= MaxSeq
           /\ Put(Other(i), Entry(NextSeq(s, ota[i].seq), "new"), PowerDown)
    BY <1>2 DEF SelectSlot
  <2>2. i \in Sectors
    BY DEF Active
  <2>3. NextSeq(s, ota[i].seq) \in 0..MaxSeq
    <3>1. ota[i].seq \in 0..MaxSeq
      BY <2>2 DEF TypeOK
    <3> QED
      BY <2>1, <3>1, BootControlAssumption DEF BootControlAssumption, NextSeq
  <2> QED BY <1>0, <2>1, <2>2, <2>3, EntryTyped, OtherSector, PutTyped DEF Put
<1> QED BY <1>1, <1>2

LEMMA TypeInit == Init => TypeOK
<1> SUFFICES ASSUME Init PROVE TypeOK
  OBVIOUS
<1>1. ota \in [Sectors -> OtaEntries]
  BY BlankTyped DEF Init
<1> QED BY <1>1 DEF Init, TypeOK, OtaEntries, Slots, Images

LEMMA TypeStep == TypeOK /\ [Next]_vars => TypeOK'
<1> SUFFICES ASSUME TypeOK, [Next]_vars PROVE TypeOK'
  OBVIOUS
<1>0. /\ ota \in [Sectors -> OtaEntries] /\ slots \in [Slots -> Images]
      /\ phase \in {"off", "hook", "bootloader", "app", "menu", "up"} /\ running \in Slots
      /\ held \in BOOLEAN /\ hookCut \in BOOLEAN
      /\ 0 \in Slots /\ 0 \in Sectors /\ {"new", "pending", "valid", "aborted"} \subseteq States
  BY DEF TypeOK, OtaEntries, Slots, Sectors, States
<1>a. ASSUME PowerDown
      PROVE  phase' = "off" /\ running' \in Slots /\ held' \in BOOLEAN
  BY <1>0, <1>a DEF PowerDown
<1> SUFFICES /\ ota' \in [Sectors -> OtaEntries] /\ slots' \in [Slots -> Images]
             /\ phase' \in {"off", "hook", "bootloader", "app", "menu", "up"}
             /\ running' \in Slots /\ held' \in BOOLEAN /\ hookCut' \in BOOLEAN
  BY DEF TypeOK, OtaEntries
<1>1. ASSUME NEW buttonA \in BOOLEAN, PowerOn(buttonA) PROVE TypeOK'
  BY <1>0, <1>1 DEF PowerOn, TypeOK, OtaEntries
<1>2. CASE Hook
  <2>1. ASSUME NEW s \in Slots,
               ota' = [i \in Sectors |-> IF i = 0 THEN Entry(SeqOfSlot(s), "valid") ELSE Blank]
        PROVE  ota' \in [Sectors -> OtaEntries]
    BY <1>0, <2>1, BlankTyped, EntryTyped, SlotSeqTyped
  <2>2. ASSUME ota' = [i \in Sectors |-> Blank] PROVE ota' \in [Sectors -> OtaEntries]
    BY <2>2, BlankTyped
  <2> QED BY <1>0, <1>a, <1>2, <2>1, <2>2 DEF Hook
<1>3. ASSUME NEW i \in Sectors, MarkAborted(i)
      PROVE  TypeOK'
  <2>1. Entry(ota[i].seq, "aborted") \in OtaEntries
    BY <1>0, EntryTyped DEF OtaEntries
  <2>2. ota' \in [Sectors -> OtaEntries]
    BY <1>3, <2>1, PutTyped DEF MarkAborted, Put
  <2> QED BY <1>0, <1>a, <1>3, <2>2 DEF MarkAborted, Put, TypeOK, OtaEntries
<1>4. ASSUME NEW i \in Sectors, StartSelected(i)
      PROVE  TypeOK'
  <2> DEFINE s == Loaded(SlotOf(ota, i))
  <2>1. s \in Slots
    BY <1>4, SlotOfTyped, LoadedTyped DEF StartSelected, Active
  <2>2. Entry(ota[i].seq, "pending") \in OtaEntries
    BY <1>0, EntryTyped DEF OtaEntries
  <2>3. ota' \in [Sectors -> OtaEntries] /\ (Run(s) \/ PowerDown)
    BY <1>0, <1>4, <2>2, PutTyped DEF StartSelected, Put
  <2> QED BY <1>0, <1>a, <1>4, <2>1, <2>3 DEF StartSelected, Run, TypeOK, OtaEntries
<1>5. CASE StartUnselected
  <2> DEFINE s == Loaded(0)
  <2>1. s \in Slots
    BY <1>0, LoadedTyped
  <2>2. Entry(s + 1, "valid") \in OtaEntries
    BY <1>0, <2>1, SlotSeqTyped, EntryTyped
  <2>3. ota' \in [Sectors -> OtaEntries] /\ (Run(s) \/ PowerDown)
    BY <1>0, <1>5, <2>2, PutTyped DEF StartUnselected, Put
  <2> QED BY <1>0, <1>a, <1>5, <2>1, <2>3 DEF StartUnselected, Run
<1>6. CASE Confirm
  <2>1. ota' \in [Sectors -> OtaEntries]
    <3>1. ASSUME NEW i \in Sectors PROVE Entry(ota[i].seq, "valid") \in OtaEntries
      BY <1>0, EntryTyped DEF OtaEntries
    <3> QED BY <1>0, <1>6, <3>1, PutTyped DEF Confirm, Put, Active
  <2>2. \/ phase' = "menu" /\ UNCHANGED <<running, held>>
        \/ PowerDown
    BY <1>6 DEF Confirm, Put
  <2> QED BY <1>0, <1>a, <1>6, <2>1, <2>2 DEF Confirm
<1>7. CASE ChooseNormal
  BY <1>0, <1>7 DEF ChooseNormal
<1>8. CASE ChooseAlt \/ BootOtherSlot
  BY <1>0, <1>a, <1>8, OtherTyped, SelectTyped DEF ChooseAlt, BootOtherSlot
<1>9. ASSUME NEW image \in Images, Flash(image) PROVE TypeOK'
  BY <1>0, <1>9 DEF Flash, TypeOK, OtaEntries
<1>10. CASE Reset
  BY <1>0, <1>a, <1>10 DEF Reset
<1>11. CASE UNCHANGED vars
  BY <1>0, <1>11 DEF vars
<1> QED
  BY <1>1, <1>2, <1>3, <1>4, <1>5, <1>6, <1>7, <1>8, <1>9, <1>10, <1>11
  DEF Next, Bootloader, TypeOK, OtaEntries

\* The type invariant.
THEOREM TypeCorrect == Spec => []TypeOK
<1> QED BY TypeInit, TypeStep, PTL DEF Spec

-----------------------------------------------------------------------------
(* The hook.                                                               *)

LEMMA HomeIsOne ==
  ASSUME NEW s \in Slots, OnlyHome(s)
  PROVE  /\ {t \in Slots : HoldsK85OS(t)} = {s}
         /\ Cardinality({t \in Slots : HoldsK85OS(t)}) = 1
<1>1. \A t \in Slots : HoldsK85OS(t) <=> t = s
  BY DEF OnlyHome, Slots, Other
<1>2. {t \in Slots : HoldsK85OS(t)} = {s}
  BY <1>1
<1> QED BY <1>2, FS_Singleton

\* What the hook has selected is what the bootloader starts.
LEMMA HomeStarts ==
  ASSUME NEW s \in Slots, OnlyHome(s), ota = HomeSelected(s)
  PROVE  /\ Active(ota) = {0} /\ ota[0].state = "valid"
         /\ \A i \in Sectors : ~Pending(i)
         /\ Loaded(SlotOf(ota, 0)) = s
<1>1. /\ ota[0] = Entry(s + 1, "valid") /\ ota[1] = Blank
      /\ ota[0].seq = s + 1 /\ ota[0].state = "valid"
      /\ ota[1].seq = 0 /\ ota[1].state = "none"
  BY DEF HomeSelected, SeqOfSlot, Entry, Blank, Sectors
<1>2. s = 0 \/ s = 1
  BY DEF Slots
<1>3. Active(ota) = {0}
  BY <1>1, <1>2 DEF Active, Usable, Sectors, Other
<1>4. \A i \in Sectors : ~Pending(i)
  BY <1>1 DEF Pending, Sectors
<1>5. SlotOf(ota, 0) = s
  BY <1>1, <1>2 DEF SlotOf
<1>6. slots[s] # "broken"
  BY DEF OnlyHome, HoldsK85OS
<1> QED BY <1>1, <1>3, <1>4, <1>5, <1>6 DEF Loaded

LEMMA IStep == TypeOK /\ IInv /\ [Next]_vars => IInv'
<1> SUFFICES ASSUME TypeOK, IInv, [Next]_vars PROVE IInv'
  OBVIOUS
<1> USE DEF IInv, MenuIsK85OS, HookSelects, HeldMeansHome
<1>0. 0 \in Slots /\ 1 \in Slots /\ running \in Slots /\ held \in BOOLEAN
  BY DEF TypeOK, Slots
<1>a. ASSUME PowerDown PROVE IInv'
  BY <1>a DEF PowerDown
<1>b. ASSUME slots' = slots
      PROVE  \A s \in Slots : HoldsK85OS(s)' = HoldsK85OS(s) /\ OnlyHome(s)' = OnlyHome(s)
  BY <1>b DEF HoldsK85OS, OnlyHome
\* Whatever starts from the bootloader, it is the one k85OS if A is held.
<1>c. ASSUME phase = "bootloader", slots' = slots, NEW s \in Slots, Run(s),
             held => \A t \in Slots : OnlyHome(t) => s = t
      PROVE  IInv'
  BY <1>b, <1>c DEF Run, OnlyHome
<1>1. ASSUME NEW buttonA \in BOOLEAN, PowerOn(buttonA) PROVE IInv'
  BY <1>1 DEF PowerOn
<1>2. CASE Hook
  <2>1. CASE phase' = "bootloader"
    <3>1. ASSUME NEW s \in Slots, OnlyHome(s)
          PROVE  ota' = HomeSelected(s)
      <4>1. /\ {t \in Slots : HoldsK85OS(t)} = {s}
            /\ Cardinality({t \in Slots : HoldsK85OS(t)}) = 1
        BY <3>1, HomeIsOne
      <4> QED BY <1>2, <2>1, <4>1 DEF Hook, HomeSelected, PowerDown
    <3> QED
      BY <1>2, <1>b, <2>1, <3>1 DEF Hook, HomeSelected, SeqOfSlot
  <2>2. CASE PowerDown
    BY <1>a, <2>2
  <2> QED BY <1>2, <2>1, <2>2 DEF Hook
<1>3. ASSUME NEW i \in Sectors, MarkAborted(i) PROVE IInv'
  <2>1. CASE PowerDown
    BY <1>a, <2>1
  <2>2. CASE UNCHANGED <<phase, running, held>>
    <3>1. phase = "bootloader" /\ Pending(i) /\ slots' = slots
      BY <1>3 DEF MarkAborted
    <3>2. ~(held /\ \E s \in Slots : OnlyHome(s))
      BY <3>1, HomeStarts
    <3> QED BY <1>b, <2>2, <3>1, <3>2
  <2> QED BY <1>3, <2>1, <2>2 DEF MarkAborted, Put
<1>4. ASSUME NEW i \in Sectors, StartSelected(i) PROVE IInv'
  <2> DEFINE s == Loaded(SlotOf(ota, i))
  <2>1. s \in Slots
    BY <1>4, SlotOfTyped, LoadedTyped DEF StartSelected, Active
  <2>2. phase = "bootloader" /\ i \in Active(ota) /\ slots' = slots
    BY <1>4 DEF StartSelected
  <2>3. held => \A t \in Slots : OnlyHome(t) => s = t
    BY <2>2, HomeStarts
  <2>4. Run(s) \/ PowerDown
    BY <1>4 DEF StartSelected, Put
  <2> HIDE DEF s
  <2> QED BY <1>a, <1>c, <2>1, <2>2, <2>3, <2>4
<1>5. CASE StartUnselected
  <2>1. phase = "bootloader" /\ Active(ota) = {} /\ slots' = slots
    BY <1>5 DEF StartUnselected
  <2>2. ~(held /\ \E s \in Slots : OnlyHome(s))
    BY <2>1, HomeStarts
  <2>3. Loaded(0) \in Slots
    BY <1>0, LoadedTyped
  <2>4. Run(Loaded(0)) \/ PowerDown
    BY <1>5 DEF StartUnselected, Put
  <2> QED BY <1>a, <1>c, <2>1, <2>2, <2>3, <2>4
<1>6. CASE Confirm
  <2>1. phase = "app" /\ slots[running] = "k85os" /\ slots' = slots
    BY <1>6 DEF Confirm
  <2>2. PowerDown \/ (phase' = "menu" /\ UNCHANGED <<running, held>>)
    BY <1>6 DEF Confirm, Put
  <2> QED BY <1>a, <1>b, <2>1, <2>2 DEF HoldsK85OS
<1>7. CASE ChooseNormal
  <2>1. phase = "menu" /\ phase' = "up" /\ UNCHANGED <<slots, running, held>>
    BY <1>7 DEF ChooseNormal
  <2> QED BY <2>1 DEF HoldsK85OS, OnlyHome
<1>8. CASE ChooseAlt \/ BootOtherSlot
  <2>1. PowerDown
    BY <1>0, <1>8, OtherTyped, SelectTyped DEF ChooseAlt, BootOtherSlot
  <2> QED BY <1>a, <2>1
\* The running slot holds k85OS and is not written: no other can be the one.
<1>9. ASSUME NEW image \in Images, Flash(image) PROVE IInv'
  <2>1. phase = "up" /\ UNCHANGED <<phase, running, held>>
    BY <1>9 DEF Flash
  <2>2. slots'[running] = slots[running] /\ slots[running] \in {"k85os", "faulty"}
    BY <1>0, <1>9, <2>1, OtherTyped DEF Flash, TypeOK, HoldsK85OS
  <2>3. HoldsK85OS(running)'
    BY <2>1, <2>2 DEF HoldsK85OS
  <2>4. \A s \in Slots : s # running => running = Other(s)
    BY <1>0 DEF Slots, Other
  <2> QED BY <2>1, <2>3, <2>4
<1>10. CASE Reset
  BY <1>a, <1>10 DEF Reset
<1>11. CASE UNCHANGED vars
  BY <1>11 DEF vars, HomeSelected, SeqOfSlot, HoldsK85OS, OnlyHome
<1> QED
  BY <1>1, <1>2, <1>3, <1>4, <1>5, <1>6, <1>7, <1>8, <1>9, <1>10, <1>11 DEF Next, Bootloader

\* With A held at power-on the one slot with k85OS runs, whatever otadata held
\* and wherever the power was cut before.
THEOREM ButtonBringsHome == Spec => []HeldMeansHome
<1>1. Init => IInv
  BY DEF Init, IInv, MenuIsK85OS, HookSelects, HeldMeansHome
<1> QED BY <1>1, TypeInit, TypeStep, IStep, PTL DEF Spec, IInv

-----------------------------------------------------------------------------
(* Otadata.  Either it is blank, or one sector, the anchor, is valid and     *)
(* selects an image that can start; the other sector is passive or on trial. *)

\* Sector i is valid and its slot can be started; it holds k85OS, unless the
\* hook was cut.
Anchored(i) ==
    /\ ota[i].state = "valid" /\ ota[i].seq > 0
    /\ slots[SlotOf(ota, i)] # "broken"
    /\ ~hookCut => slots[SlotOf(ota, i)] = "k85os"

\* Sector j cannot be chosen while sector i is there.
Passive(j, i) ==
    /\ ota[j].state \notin {"new", "pending"}
    /\ Usable(ota, j) => ota[j].seq < ota[i].seq

\* Sector j selects the other slot and has not been confirmed.
OnTrial(j, i) ==
    /\ ota[j].state \in {"new", "pending"}
    /\ ota[j].seq > ota[i].seq
    /\ SlotOf(ota, j) = Other(SlotOf(ota, i))
    /\ slots[SlotOf(ota, j)] # "broken"

Settled(i) ==
    /\ Anchored(i) /\ Passive(Other(i), i)
    /\ phase \in {"app", "menu", "up"} => running = SlotOf(ota, i)
    /\ phase \in {"menu", "up"} => slots[running] = "k85os"

Trial(i) ==
    /\ Anchored(i) /\ OnTrial(Other(i), i)
    /\ phase \notin {"menu", "up"}
    /\ phase = "app" => running = Other(SlotOf(ota, i)) /\ Pending(Other(i))

Virgin ==
    /\ ota = [i \in Sectors |-> Blank]
    /\ phase \in {"off", "hook", "bootloader"}
    /\ ~hookCut => slots[0] = "k85os"

SomeK85OS == \E s \in Slots : slots[s] = "k85os"

OtaInv == SomeK85OS /\ (Virgin \/ \E i \in Sectors : Settled(i) \/ Trial(i))

\* The usable sector with the higher number is the active one.
LEMMA ActiveIs ==
  ASSUME NEW data \in [Sectors -> OtaEntries], NEW i \in Sectors, Usable(data, i),
         Usable(data, Other(i)) => data[Other(i)].seq < data[i].seq
  PROVE  Active(data) = {i}
<1>1. /\ data[i].seq \in Nat /\ data[Other(i)].seq \in Nat
      /\ Other(i) \in Sectors /\ Other(Other(i)) = i /\ Other(i) # i
  BY BootControlAssumption DEF BootControlAssumption, OtaEntries, Sectors, Other
<1>2. \A j \in Sectors : j = i \/ j = Other(i)
  BY DEF Sectors, Other
<1> QED BY <1>1, <1>2 DEF Active

LEMMA SettledNext ==
  ASSUME TypeOK, NEW i \in Sectors, Settled(i)
  PROVE  /\ Active(ota) = {i}
         /\ \A j \in Sectors : ~Pending(j) /\ ota[j].state # "new"
         /\ NextStart = SlotOf(ota, i)
<1>1. ota \in [Sectors -> OtaEntries]
  BY DEF TypeOK, OtaEntries
<1>2. Active(ota) = {i}
  BY <1>1, ActiveIs DEF Settled, Anchored, Passive, Usable
<1>3. \A j \in Sectors : ~Pending(j) /\ ota[j].state # "new"
  <2>1. \A j \in Sectors : j = i \/ j = Other(i)
    BY DEF Sectors, Other
  <2> QED BY <2>1 DEF Settled, Anchored, Passive, Pending
<1>4. AfterAbort = ota
  BY <1>1, <1>3 DEF AfterAbort
<1>5. Loaded(SlotOf(ota, i)) = SlotOf(ota, i)
  BY DEF Settled, Anchored, Loaded
<1> QED BY <1>2, <1>3, <1>4, <1>5 DEF NextStart

LEMMA TrialNext ==
  ASSUME TypeOK, NEW i \in Sectors, Trial(i)
  PROVE  /\ Active(ota) = {Other(i)}
         /\ Other(i) \in Sectors /\ Other(Other(i)) = i /\ Other(i) # i
         /\ ~Pending(i) /\ ota[i].state # "new"
         /\ Loaded(SlotOf(ota, Other(i))) = SlotOf(ota, Other(i))
         /\ NextStart = IF Pending(Other(i)) THEN SlotOf(ota, i) ELSE Other(SlotOf(ota, i))
<1> DEFINE j == Other(i)
<1>0. j \in Sectors /\ Other(j) = i /\ j # i
  BY DEF Sectors, Other
<1>1. ota \in [Sectors -> OtaEntries] /\ ota[i].seq \in Nat /\ ota[j].seq \in Nat
  BY <1>0, BootControlAssumption DEF BootControlAssumption, TypeOK, OtaEntries
<1>2. Usable(ota, j) /\ ota[i].seq < ota[j].seq
  BY <1>1 DEF Trial, OnTrial, Anchored, Usable
<1>3. Active(ota) = {j}
  BY <1>0, <1>1, <1>2, ActiveIs
<1>4. ~Pending(i) /\ ota[i].state # "new"
  BY DEF Trial, Anchored, Pending
<1>5. Loaded(SlotOf(ota, j)) = Other(SlotOf(ota, i))
  BY DEF Trial, OnTrial, Loaded
<1>6. CASE Pending(j)
  <2>1. AfterAbort \in [Sectors -> OtaEntries]
    BY <1>1, EntryTyped DEF AfterAbort, OtaEntries, States
  <2>2. AfterAbort[i] = ota[i] /\ AfterAbort[j].state = "aborted"
    BY <1>0, <1>4, <1>6 DEF AfterAbort, Entry
  <2>3. Active(AfterAbort) = {i}
    BY <1>0, <2>1, <2>2, ActiveIs DEF Usable, Trial, Anchored
  <2>4. SlotOf(AfterAbort, i) = SlotOf(ota, i)
    BY <2>2 DEF SlotOf
  <2>5. Loaded(SlotOf(ota, i)) = SlotOf(ota, i)
    BY DEF Trial, Anchored, Loaded
  <2> QED BY <1>0, <1>3, <1>4, <1>5, <1>6, <2>3, <2>4, <2>5 DEF NextStart, Trial, OnTrial
<1>7. CASE ~Pending(j)
  <2>1. \A k \in Sectors : ~Pending(k)
    BY <1>4, <1>7 DEF Sectors, Other
  <2>2. AfterAbort = ota
    BY <1>1, <2>1 DEF AfterAbort
  <2> QED BY <1>0, <1>3, <1>4, <1>5, <1>7, <2>2 DEF NextStart, Trial, OnTrial
<1> QED BY <1>6, <1>7

\* What a written sector means is told by its number and its state alone.
LEMMA Written ==
  ASSUME TypeOK, NEW i \in Sectors, NEW entry, ota' = [ota EXCEPT ![i] = entry]
  PROVE  ota'[i] = entry /\ ota'[Other(i)] = ota[Other(i)] /\ Other(i) \in Sectors
  BY DEF TypeOK, Sectors, Other

\* An anchor stays one while its sector and its slot do.
LEMMA AnchorStays ==
  ASSUME NEW i \in Sectors, Anchored(i), ota'[i] = ota[i], slots' = slots, hookCut' = hookCut
  PROVE  Anchored(i)' /\ SlotOf(ota, i)' = SlotOf(ota, i)
  BY DEF Anchored, SlotOf

\* The loss of the other sector in a power cut leaves the anchor alone.
LEMMA CutSettles ==
  ASSUME TypeOK, NEW i \in Sectors, Anchored(i), PowerDown, UNCHANGED <<slots, hookCut>>,
         \/ ota' = [ota EXCEPT ![Other(i)] = Blank]
         \/ ota' = ota /\ Passive(Other(i), i)
  PROVE  Settled(i)'
<1>1. Other(i) \in Sectors /\ Other(Other(i)) = i /\ Other(i) # i
  BY DEF Sectors, Other
<1>2. ota'[i] = ota[i] /\ (ota'[Other(i)] = Blank \/ (ota' = ota /\ Passive(Other(i), i)))
  BY <1>1 DEF TypeOK
<1>3. Passive(Other(i), i)'
  BY <1>2 DEF Passive, Usable, Blank, Entry
<1> QED BY <1>2, <1>3, AnchorStays DEF Settled, PowerDown

\* The slot selected is the other one than the anchor's, and its number higher.
LEMMA NextSeqIs ==
  ASSUME TypeOK, NEW i \in Sectors, ota[i].seq > 0, NEW entry,
         entry = Entry(NextSeq(Other(SlotOf(ota, i)), ota[i].seq), "new")
  PROVE  entry.seq > ota[i].seq /\ (entry.seq - 1) % 2 = Other(SlotOf(ota, i))
<1> DEFINE q == ota[i].seq
<1>1. q \in Nat /\ q > 0
  BY BootControlAssumption DEF BootControlAssumption, TypeOK
<1>2. (q - 1) % 2 \in {0, 1} /\ q % 2 = 1 - ((q - 1) % 2)
  BY <1>1
<1>3. entry.seq = q + 1
  BY <1>2 DEF NextSeq, Entry, SlotOf, Other
<1> QED BY <1>1, <1>2, <1>3 DEF SlotOf, Other

\* A switch from the menus: the other slot is on trial, or nothing has changed.
LEMMA SwitchStep ==
  ASSUME TypeOK, TypeOK', NEW i \in Sectors, Settled(i), phase \in {"menu", "up"},
         SelectSlot(Other(running)), slots[Other(running)] # "broken", UNCHANGED <<slots, hookCut>>
  PROVE  PowerDown /\ (Settled(i)' \/ (Trial(i)' /\ ota'[Other(i)].state = "new"))
<1> DEFINE j == Other(i)
           entry == Entry(NextSeq(Other(SlotOf(ota, i)), ota[i].seq), "new")
<1>1. Active(ota) = {i}
  BY SettledNext
<1>2. j \in Sectors /\ Other(j) = i /\ j # i
  BY DEF Sectors, Other
<1>3. running = SlotOf(ota, i) /\ Anchored(i)
  BY DEF Settled
<1>4. Put(j, entry, PowerDown)
  BY <1>1, <1>3 DEF SelectSlot
<1>5. CASE ota' = [ota EXCEPT ![j] = entry] /\ PowerDown
  <2>1. ota'[i] = ota[i] /\ ota'[j] = entry
    BY <1>2, <1>5 DEF TypeOK
  <2>2. Anchored(i)' /\ SlotOf(ota, i)' = SlotOf(ota, i)
    BY <1>3, <2>1, AnchorStays
  <2>3. entry.seq > ota[i].seq /\ (entry.seq - 1) % 2 = Other(SlotOf(ota, i)) /\ entry.state = "new"
    BY <1>3, NextSeqIs DEF Anchored, Entry
  <2>4. SlotOf(ota, j)' = Other(SlotOf(ota, i))
    BY <2>1, <2>3 DEF SlotOf
  <2>5. OnTrial(j, i)'
    BY <1>3, <2>1, <2>2, <2>3, <2>4 DEF OnTrial
  <2> QED BY <1>5, <2>1, <2>2, <2>3, <2>5 DEF Trial, PowerDown
<1>6. CASE ota' = [ota EXCEPT ![j] = Blank] /\ PowerDown
  BY <1>3, <1>6, CutSettles
<1> QED BY <1>4, <1>5, <1>6 DEF Put

LEMMA OtaInit == Init => OtaInv
  BY DEF Init, OtaInv, SomeK85OS, Virgin, Slots

LEMMA OtaStep == TypeOK /\ TypeOK' /\ OtaInv /\ [Next]_vars => OtaInv'
<1> SUFFICES ASSUME TypeOK, TypeOK', OtaInv, [Next]_vars PROVE OtaInv'
  OBVIOUS
<1>0. 0 \in Slots /\ 0 \in Sectors /\ running \in Slots /\ SomeK85OS
  BY DEF TypeOK, Slots, Sectors, OtaInv
<1>a. \A i \in Sectors : Other(i) \in Sectors /\ Other(Other(i)) = i /\ Other(i) # i
  BY DEF Sectors, Other
<1>b. slots' = slots => SomeK85OS'
  BY <1>0 DEF SomeK85OS
\* Nothing that the invariant speaks of has changed but the place.
<1>c. ASSUME UNCHANGED <<slots, ota, hookCut>>, phase' \in {"off", "hook", "bootloader"}
      PROVE  OtaInv'
  BY <1>b, <1>c DEF OtaInv, Virgin, Settled, Trial, Anchored, Passive, OnTrial, Usable, SlotOf
<1>1. ASSUME NEW buttonA \in BOOLEAN, PowerOn(buttonA) PROVE OtaInv'
  BY <1>1, <1>c DEF PowerOn
<1>2. CASE Hook
  <2>1. CASE UNCHANGED <<ota, running, held, hookCut>> /\ phase' = "bootloader"
    BY <1>2, <2>1, <1>c DEF Hook
  <2>2. ASSUME NEW s \in Slots, {t \in Slots : HoldsK85OS(t)} = {s}, ota' = HomeSelected(s),
               phase' = "bootloader"
        PROVE  OtaInv'
    <3>1. slots[s] = "k85os" /\ slots' = slots
      BY <1>0, <1>2, <2>2 DEF SomeK85OS, HoldsK85OS, Hook
    <3>2. /\ ota'[0].seq = s + 1 /\ ota'[0].state = "valid"
          /\ ota'[1].seq = 0 /\ ota'[1].state = "none"
      BY <2>2 DEF HomeSelected, Entry, SeqOfSlot, Blank, Sectors
    <3>3. SlotOf(ota, 0)' = s
      BY <3>2 DEF SlotOf, Slots
    <3>4. Anchored(0)'
      BY <3>1, <3>2, <3>3 DEF Anchored, Slots
    <3>5. Passive(Other(0), 0)'
      BY <3>2 DEF Passive, Usable, Other
    <3> QED BY <1>0, <1>b, <2>2, <3>1, <3>4, <3>5 DEF OtaInv, Settled
  <2>3. CASE ota' = [i \in Sectors |-> Blank] /\ PowerDown /\ hookCut' = TRUE
    BY <1>2, <1>b, <2>3 DEF Hook, OtaInv, Virgin, PowerDown
  <2>4. ASSUME NEW s \in Slots, Cardinality({t \in Slots : HoldsK85OS(t)}) = 1,
               s \in {t \in Slots : HoldsK85OS(t)}
        PROVE  {t \in Slots : HoldsK85OS(t)} = {s}
    <3>1. {t \in Slots : HoldsK85OS(t)} \in SUBSET Slots /\ IsFiniteSet(Slots)
      <4>1. IsFiniteSet({0})
        BY FS_Singleton
      <4>2. IsFiniteSet({0} \cup {1})
        BY <4>1, FS_AddElement
      <4>3. Slots = {0} \cup {1}
        BY DEF Slots
      <4> QED BY <4>2, <4>3
    <3> QED BY <2>4, <3>1, FS_Singleton, FS_Subset
  <2> QED BY <1>2, <2>1, <2>2, <2>3, <2>4 DEF Hook, HomeSelected
<1>3. ASSUME NEW k \in Sectors, MarkAborted(k) PROVE OtaInv'
  <2>1. phase = "bootloader" /\ Pending(k) /\ UNCHANGED <<slots, hookCut>>
    BY <1>3 DEF MarkAborted
  <2>2. ~Virgin
    BY <2>1 DEF Virgin, Pending, Blank, Entry
  <2>3. PICK i \in Sectors : Trial(i)
    BY <2>1, <2>2, SettledNext DEF OtaInv
  <2>4. k = Other(i)
    BY <2>1, <2>3, TrialNext DEF Sectors, Other
  <2>5. CASE ota' = [ota EXCEPT ![k] = Entry(ota[k].seq, "aborted")] /\ UNCHANGED <<phase, running, held>>
    <3>1. ota'[i] = ota[i] /\ ota'[k].state = "aborted"
      BY <1>a, <2>4, <2>5 DEF TypeOK, Entry
    <3>2. Anchored(i)' /\ Passive(Other(i), i)'
      BY <2>1, <2>3, <2>4, <3>1, AnchorStays DEF Trial, Passive, Usable
    <3> QED BY <1>b, <2>1, <2>5, <3>2 DEF OtaInv, Settled
  <2>6. CASE ota' = [ota EXCEPT ![k] = Blank] /\ PowerDown
    BY <1>b, <2>1, <2>3, <2>4, <2>6, CutSettles DEF OtaInv, Trial
  <2> QED BY <1>3, <2>5, <2>6 DEF MarkAborted, Put
<1>4. ASSUME NEW k \in Sectors, StartSelected(k) PROVE OtaInv'
  <2>1. phase = "bootloader" /\ k \in Active(ota) /\ UNCHANGED <<slots, hookCut>>
    BY <1>4 DEF StartSelected
  <2>2. ~Virgin
    BY <2>1 DEF Virgin, Active, Usable, Blank, Entry
  <2>3. ASSUME NEW i \in Sectors, Settled(i) PROVE OtaInv'
    <3>1. k = i /\ ota[k].state # "new"
      BY <2>1, <2>3, SettledNext
    <3>2. UNCHANGED ota /\ Run(SlotOf(ota, i))
      BY <1>4, <2>3, <3>1 DEF StartSelected, Settled, Anchored, Loaded
    <3>3. Settled(i)'
      BY <2>1, <2>3, <3>2, AnchorStays DEF Settled, Passive, Usable, Run
    <3> QED BY <1>b, <2>1, <3>3 DEF OtaInv
  <2>4. ASSUME NEW i \in Sectors, Trial(i) PROVE OtaInv'
    <3>1. k = Other(i) /\ Loaded(SlotOf(ota, k)) = SlotOf(ota, k)
      BY <2>1, <2>4, TrialNext
    <3>2. ota[k].state = "new"
      BY <1>4, <2>4, <3>1 DEF StartSelected, Trial, OnTrial, Pending
    <3>3. CASE ota' = [ota EXCEPT ![k] = Entry(ota[k].seq, "pending")] /\ Run(SlotOf(ota, k))
      <4>1. ota'[i] = ota[i] /\ ota'[k].seq = ota[k].seq /\ ota'[k].state = "pending"
        BY <1>a, <3>1, <3>3 DEF TypeOK, Entry
      <4>2. Anchored(i)' /\ SlotOf(ota, i)' = SlotOf(ota, i) /\ SlotOf(ota, k)' = SlotOf(ota, k)
        BY <2>1, <2>4, <4>1, AnchorStays DEF Trial, SlotOf
      <4>3. OnTrial(Other(i), i)' /\ Pending(Other(i))'
        BY <2>1, <2>4, <3>1, <4>1, <4>2 DEF Trial, OnTrial, Pending
      <4>4. running' = Other(SlotOf(ota, i)) /\ phase' = "app"
        BY <2>4, <3>1, <3>3 DEF Run, Trial, OnTrial
      <4> QED BY <1>b, <2>1, <4>2, <4>3, <4>4 DEF OtaInv, Trial
    <3>4. CASE ota' = [ota EXCEPT ![k] = Blank] /\ PowerDown
      BY <1>b, <2>1, <2>4, <3>1, <3>4, CutSettles DEF OtaInv, Trial
    <3> QED BY <1>4, <3>1, <3>2, <3>3, <3>4 DEF StartSelected, Put
  <2> QED BY <2>2, <2>3, <2>4 DEF OtaInv
<1>5. CASE StartUnselected
  <2>1. phase = "bootloader" /\ Active(ota) = {} /\ UNCHANGED <<slots, hookCut>>
    BY <1>5 DEF StartUnselected
  <2>2. Virgin
    BY <2>1, SettledNext, TrialNext DEF OtaInv
  <2> DEFINE s == Loaded(0)
  <2>3. s \in Slots /\ slots[s] # "broken" /\ (~hookCut => slots[s] = "k85os")
    BY <1>0, <2>2 DEF SomeK85OS, Loaded, Slots, Other, Virgin
  <2>4. CASE ota' = [ota EXCEPT ![0] = Entry(s + 1, "valid")] /\ Run(s)
    <3>1. /\ ota'[0].seq = s + 1 /\ ota'[0].state = "valid"
          /\ ota'[1].seq = 0 /\ ota'[1].state = "none"
      BY <2>2, <2>4 DEF Virgin, Entry, Blank, Sectors
    <3>2. SlotOf(ota, 0)' = s
      BY <2>3, <3>1 DEF SlotOf, Slots
    <3>3. Anchored(0)' /\ Passive(Other(0), 0)'
      BY <2>1, <2>3, <3>1, <3>2 DEF Anchored, Passive, Usable, Other, Slots
    <3> QED BY <1>0, <1>b, <2>1, <2>4, <3>2, <3>3 DEF OtaInv, Settled, Run
  <2>5. CASE ota' = [ota EXCEPT ![0] = Blank] /\ PowerDown
    <3>1. ota' = ota
      BY <2>2, <2>5 DEF Virgin
    <3> QED BY <1>c, <2>1, <2>5, <3>1 DEF PowerDown
  <2> QED BY <1>5, <2>2, <2>4, <2>5 DEF StartUnselected, Put, Virgin
<1>6. CASE Confirm
  <2>1. phase = "app" /\ slots[running] = "k85os" /\ slots' = slots
    BY <1>6 DEF Confirm
  <2>2. ASSUME NEW i \in Sectors, Settled(i) PROVE OtaInv'
    <3>1. ota' = ota /\ phase' = "menu" /\ running' = running
      BY <1>6, <2>2, SettledNext DEF Confirm, Settled, Anchored
    <3>2. Anchored(i)' /\ running = SlotOf(ota, i) /\ SlotOf(ota, i)' = SlotOf(ota, i)
      BY <2>1, <2>2, <3>1 DEF Settled, Anchored, SlotOf
    <3> QED BY <1>b, <2>1, <2>2, <3>1, <3>2 DEF OtaInv, Settled, Passive, Usable
  <2>3. ASSUME NEW i \in Sectors, Trial(i) PROVE OtaInv'
    <3> DEFINE j == Other(i)
    <3>1. /\ Active(ota) = {j} /\ ota[j].state # "valid"
          /\ j \in Sectors /\ Other(j) = i /\ j # i
          /\ running = SlotOf(ota, j)
      BY <2>1, <2>3, TrialNext DEF Trial, OnTrial
    <3>2. CASE /\ ota' = [ota EXCEPT ![j] = Entry(ota[j].seq, "valid")]
               /\ phase' = "menu" /\ UNCHANGED <<running, held>>
      <4>1. ota'[i] = ota[i] /\ ota'[j].seq = ota[j].seq /\ ota'[j].state = "valid"
        BY <3>1, <3>2 DEF TypeOK, Entry
      <4>2. SlotOf(ota, j)' = SlotOf(ota, j)
        BY <4>1 DEF SlotOf
      <4>3. ota[i].seq \in Nat /\ ota[j].seq \in Nat
        BY <3>1, BootControlAssumption DEF BootControlAssumption, TypeOK
      <4>4. Anchored(j)'
        BY <2>1, <2>3, <3>1, <4>1, <4>2, <4>3 DEF Anchored, Trial, OnTrial
      <4>5. Passive(Other(j), j)'
        BY <2>3, <3>1, <4>1 DEF Passive, Trial, OnTrial, Anchored
      <4> QED BY <1>b, <2>1, <3>1, <3>2, <4>2, <4>4, <4>5 DEF OtaInv, Settled
    <3>3. CASE ota' = [ota EXCEPT ![j] = Blank] /\ PowerDown
      <4>1. hookCut' = hookCut
        BY <1>6, <3>3 DEF Confirm, PowerDown, TypeOK
      <4> QED BY <1>b, <2>1, <2>3, <3>3, <4>1, CutSettles DEF OtaInv, Trial
    <3> QED BY <1>6, <3>1, <3>2, <3>3 DEF Confirm, Put
  <2> QED BY <2>1, <2>2, <2>3 DEF OtaInv, Virgin
<1>7. CASE ChooseNormal
  <2>1. PICK i \in Sectors : Settled(i)
    BY <1>7 DEF ChooseNormal, OtaInv, Virgin, Trial
  <2>2. phase = "menu" /\ phase' = "up" /\ UNCHANGED <<slots, ota, running, hookCut>>
    BY <1>7 DEF ChooseNormal
  <2>3. Settled(i)'
    BY <2>1, <2>2, AnchorStays DEF Settled, Passive, Usable
  <2> QED BY <1>b, <2>2, <2>3 DEF OtaInv
<1>8. CASE ChooseAlt \/ BootOtherSlot
  <2>1. UNCHANGED <<slots, hookCut>> /\ phase \in {"menu", "up"}
    BY <1>8 DEF ChooseAlt, BootOtherSlot
  <2>2. PICK i \in Sectors : Settled(i)
    BY <2>1 DEF OtaInv, Virgin, Trial
  <2>3. CASE SelectSlot(Other(running)) /\ slots[Other(running)] # "broken"
    BY <1>b, <2>1, <2>2, <2>3, SwitchStep DEF OtaInv
  <2>4. CASE PowerDown /\ UNCHANGED ota
    BY <1>c, <2>1, <2>4 DEF PowerDown
  <2> QED BY <1>8, <2>3, <2>4 DEF ChooseAlt, BootOtherSlot
<1>9. ASSUME NEW image \in Images, Flash(image) PROVE OtaInv'
  <2>1. /\ phase = "up" /\ UNCHANGED <<ota, phase, running, hookCut>>
        /\ slots'[running] = slots[running]
    BY <1>0, <1>9, OtherTyped DEF Flash, TypeOK
  <2>2. PICK i \in Sectors : Settled(i)
    BY <2>1 DEF OtaInv, Virgin, Trial
  <2>3. slots[running] = "k85os" /\ running = SlotOf(ota, i)
    BY <2>1, <2>2 DEF Settled
  <2>4. Settled(i)'
    BY <2>1, <2>2, <2>3 DEF Settled, Anchored, Passive, Usable, SlotOf
  <2> QED BY <1>0, <2>1, <2>3, <2>4 DEF OtaInv, SomeK85OS
<1>10. CASE Reset
  BY <1>10, <1>c DEF Reset, PowerDown
<1>11. CASE UNCHANGED vars
  BY <1>11 DEF vars, OtaInv, SomeK85OS, Virgin, Settled, Trial, Anchored, Passive, OnTrial, Usable, SlotOf, Pending
<1> QED
  BY <1>1, <1>2, <1>3, <1>4, <1>5, <1>6, <1>7, <1>8, <1>9, <1>10, <1>11 DEF Next, Bootloader

LEMMA OtaAlways == Spec => [](TypeOK /\ OtaInv)
<1> QED BY TypeInit, TypeStep, OtaInit, OtaStep, PTL DEF Spec

-----------------------------------------------------------------------------
\* Once k85OS is up, a restart comes back to it: probation is over and the sector
\* that was confirmed is the one the bootloader will choose.
THEOREM UpStaysSelected == Spec => []UpMeansSelected
<1>1. TypeOK /\ OtaInv => UpMeansSelected
  BY SettledNext DEF OtaInv, Virgin, Trial, Settled, UpMeansSelected
<1> QED BY <1>1, OtaAlways, PTL

\* Firmware that does not confirm itself runs once, whatever it does and wherever
\* the power is cut, the hook excepted.
THEOREM TrialEnds == Spec => []UnconfirmedRunsOnce
<1>1. TypeOK /\ OtaInv => UnconfirmedRunsOnce
  <2> SUFFICES ASSUME TypeOK, OtaInv, phase = "app", slots[running] # "k85os", ~hookCut
               PROVE  slots[NextStart] = "k85os"
    BY DEF UnconfirmedRunsOnce
  <2>1. PICK i \in Sectors : Settled(i) \/ Trial(i)
    BY DEF OtaInv, Virgin
  <2>2. ~Settled(i)
    BY DEF Settled, Anchored
  <2> QED BY <2>1, <2>2, TrialNext DEF Trial, Anchored
<1> QED BY <1>1, OtaAlways, PTL

\* What the next start is after a step out of the menus.
LEMMA OffState ==
  TypeOK => \A i \in Sectors :
     /\ Settled(i) => NextStart = SlotOf(ota, i) /\ ~\E j \in Sectors : ota[j].state = "new"
     /\ Trial(i) /\ ota[Other(i)].state = "new" =>
           NextStart = Other(SlotOf(ota, i)) /\ \E j \in Sectors : ota[j].state = "new"
  BY SettledNext, TrialNext DEF Pending

\* A switch of the slot happens wholly or not at all.
THEOREM SwitchAllOrNothing == Spec => SwitchIsWhole
<1> DEFINE Off == \A i \in Sectors :
       /\ Settled(i) => NextStart = SlotOf(ota, i) /\ ~\E j \in Sectors : ota[j].state = "new"
       /\ Trial(i) /\ ota[Other(i)].state = "new" =>
             NextStart = Other(SlotOf(ota, i)) /\ \E j \in Sectors : ota[j].state = "new"
       Whole == phase' = "off" /\ phase \in {"menu", "up"} =>
          LET selected == \E i \in Sectors : ota'[i].state = "new"
          IN NextStart' = (IF selected THEN Other(running) ELSE running)
<1>1. TypeOK => Off
  BY OffState
<1>2. TypeOK /\ OtaInv /\ TypeOK' /\ Off' /\ [Next]_vars => Whole
  <2> SUFFICES ASSUME TypeOK, OtaInv, TypeOK', Off', [Next]_vars, phase' = "off", phase \in {"menu", "up"}
               PROVE  LET selected == \E i \in Sectors : ota'[i].state = "new"
                      IN NextStart' = (IF selected THEN Other(running) ELSE running)
    OBVIOUS
  <2>1. PICK i \in Sectors : Settled(i)
    BY DEF OtaInv, Virgin, Trial
  <2>2. running = SlotOf(ota, i) /\ Other(i) \in Sectors /\ Anchored(i) /\ Passive(Other(i), i)
    BY <2>1 DEF Settled, Sectors, Other
  <2>3. UNCHANGED <<slots, hookCut>>
    BY DEF Next, Bootloader, PowerOn, Hook, MarkAborted, StartSelected, StartUnselected, Confirm,
           ChooseNormal, ChooseAlt, BootOtherSlot, Flash, Reset, vars
  <2>4. \/ UNCHANGED ota /\ PowerDown
        \/ SelectSlot(Other(running)) /\ slots[Other(running)] # "broken"
    BY DEF Next, Bootloader, PowerOn, Hook, MarkAborted, StartSelected, StartUnselected, Confirm,
           ChooseNormal, ChooseAlt, BootOtherSlot, Flash, Reset, vars
  <2>5. Settled(i)' \/ (Trial(i)' /\ ota'[Other(i)].state = "new")
    BY <2>1, <2>2, <2>3, <2>4, CutSettles, SwitchStep
  <2>6. SlotOf(ota, i)' = SlotOf(ota, i)
    <3>1. ota'[i] = ota[i]
      <4>1. CASE SelectSlot(Other(running))
        <5>1. Active(ota) = {i}
          BY <2>1, SettledNext
        <5>2. \E entry : ota' = [ota EXCEPT ![Other(i)] = entry]
          BY <4>1, <5>1 DEF SelectSlot, Put
        <5> QED BY <5>2 DEF TypeOK, Sectors, Other
      <4> QED BY <2>4, <4>1
    <3> QED BY <3>1 DEF SlotOf
  <2> QED BY <2>2, <2>5, <2>6
<1>3. TypeOK /\ OtaInv /\ (TypeOK /\ OtaInv)' /\ [Next]_vars => [Whole]_vars
  <2>1. (TypeOK => Off)'
    BY <1>1, PTL
  <2> QED BY <1>2, <2>1
<1> QED BY <1>3, OtaAlways, PTL DEF Spec, SwitchIsWhole
=============================================================================
