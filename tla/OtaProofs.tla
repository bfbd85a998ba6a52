----------------------------- MODULE OtaProofs -----------------------------
(***************************************************************************)
(* Proofs about Ota for every number and size of releases, partition size, *)
(* range of sequence numbers and number of faults, with and without a      *)
(* bootloader that rolls back.                                             *)
(*                                                                         *)
(* The argument: the firmware never marks an image Valid, so entry 1 is    *)
(* never Valid; the bootloader marks entry 0 on the first boot, so entry 0 *)
(* always is.  Hence update_slot and set_current_slot both always choose   *)
(* slot 1, and the image flashed by cable in slot 0 is never touched.      *)
(***************************************************************************)
EXTENDS Ota, TLAPS

Entry0 == [ota_seq |-> 1, ota_state |-> "Valid", crc |-> 1]

(***************************************************************************)
(* The image flashed by cable is still in slot 0.                          *)
(***************************************************************************)
FactoryKept == \A c \in 1 .. Chunks[1] : flash[0][c] = 1

(***************************************************************************)
(* Before the first boot both entries are blank; from then on entry 0 is   *)
(* the bootloader's.  Nobody marks entry 1 Valid.                          *)
(***************************************************************************)
EntriesKept ==
  /\ entries[1].ota_state # "Valid"
  /\ \/ pc = "reset" /\ entries[0] = Erased /\ entries[1] = Erased
     \/ entries[0] = Entry0

(***************************************************************************)
(* An update under way goes to slot 1.                                     *)
(***************************************************************************)
SlotOne ==
  pc \in {"request", "download", "commit", "program"} => update.slot = 1

OtaInv ==
  /\ TypeOK
  /\ FactoryKept
  /\ EntriesKept
  /\ SlotOne
  /\ pc \notin {"bricked", "panicked"}

\* What Boot makes of running when it starts partition s.
Started(s) ==
  [slot |-> s, release |-> Image(flash[s]),
   newest |-> IF Image(flash[s]) > running.newest
              THEN Image(flash[s]) ELSE running.newest]

-----------------------------------------------------------------------------
(***************************************************************************)
(* Facts about the constants.                                              *)
(***************************************************************************)
LEMMA Constants ==
  /\ 1 \in Releases
  /\ \A r \in Releases : r \in Nat \ {0}
  /\ Chunks \in [Releases -> Nat \ {0}] /\ Chunks[1] \in Nat
  /\ SlotSize \in Nat /\ Chunks[1] <= SlotSize
  /\ SeqNone \in Nat /\ SeqNone > 2
  /\ MaxFaults \in Nat
  /\ MaxRelease \in Nat \ {0}
BY OtaAssumption DEF Releases

\* The fields of update.
LEMMA UpdateFields ==
  ASSUME TypeOK
  PROVE  /\ update.slot \in Slots /\ update.image \in Nat
         /\ update.offset \in Nat /\ update.offset <= SlotSize
<1>1. update \in [slot : Slots, offset : 0 .. SlotSize,
                 image : 0 .. MaxRelease, seq : 0 .. SeqNone]
  BY DEF TypeOK
<1> QED
  BY <1>1, Constants

(***************************************************************************)
(* Image yields a release or 0, and a release if one is there.             *)
(***************************************************************************)
LEMMA ImageType ==
  ASSUME NEW cells
  PROVE  /\ Image(cells) \in 0 .. MaxRelease
         /\ Image(cells) # 0 => Image(cells) \in Releases
         /\ (\E r \in Releases :
               \A c \in 1 .. Chunks[r] : c <= SlotSize /\ cells[c] = r)
              => Image(cells) # 0
<1> DEFINE Holds(r) == \A c \in 1 .. Chunks[r] : c <= SlotSize /\ cells[c] = r
<1>1. CASE \E r \in Releases : Holds(r)
  <2>1. Image(cells) = CHOOSE r \in Releases : Holds(r)
    BY <1>1 DEF Image
  <2> HIDE DEF Holds
  <2>2. Image(cells) \in Releases
    BY <1>1, <2>1
  <2> QED
    BY <2>2, Constants DEF Releases
<1>2. CASE ~\E r \in Releases : Holds(r)
  <2>1. Image(cells) = 0
    BY <1>2 DEF Image
  <2> QED
    BY <1>2, <2>1, Constants
<1> QED
  BY <1>1, <1>2

(***************************************************************************)
(* Of the entries the bootloader may select, one has the highest ota_seq.  *)
(***************************************************************************)
LEMMA ActiveType ==
  ASSUME NEW e \in [Slots -> OtaSelectEntry], Selectable(e) # {}
  PROVE  /\ Active(e) \in Selectable(e)
         /\ Active(e) \in Slots
         /\ \A t \in Selectable(e) : e[t].ota_seq <= e[Active(e)].ota_seq
<1>1. Selectable(e) \subseteq {0, 1}
  BY DEF Selectable, Slots
<1>2. \A s \in {0, 1} : e[s].ota_seq \in Int
  BY Constants DEF Slots, OtaSelectEntry
<1>3. \E s \in Selectable(e) :
        \A t \in Selectable(e) : e[t].ota_seq <= e[s].ota_seq
  BY <1>1, <1>2
<1>4. /\ Active(e) \in Selectable(e)
      /\ \A t \in Selectable(e) : e[t].ota_seq <= e[Active(e)].ota_seq
  BY <1>3 DEF Active
<1> QED
  BY <1>1, <1>4 DEF Slots

(***************************************************************************)
(* Rolling back changes the state of an entry that is pending, or nothing. *)
(***************************************************************************)
LEMMA AbortsType ==
  ASSUME NEW e \in [Slots -> OtaSelectEntry]
  PROVE  /\ Aborts(e) \in [Slots -> OtaSelectEntry]
         /\ \A s \in Slots :
              \/ Aborts(e)[s] = e[s]
              \/ /\ e[s].ota_state = "PendingVerify"
                 /\ Aborts(e)[s].ota_state = "Aborted"
BY DEF Aborts, OtaSelectEntry, OtaSelectEntryState

(***************************************************************************)
(* The partition the bootloader tries first exists.                        *)
(***************************************************************************)
LEMMA FirstChoiceType ==
  ASSUME NEW e \in [Slots -> OtaSelectEntry]
  PROVE  FirstChoice(e) \in Slots
<1>1. CASE Selectable(e) = {}
  BY <1>1 DEF FirstChoice, Slots
<1>2. CASE Selectable(e) # {}
  <2>1. e[Active(e)] \in OtaSelectEntry
    BY <1>2, ActiveType
  <2>2. e[Active(e)].ota_seq \in Int
    BY <2>1, Constants DEF OtaSelectEntry
  <2>3. \A x \in Int : (x - 1) % 2 \in {0, 1}
    OBVIOUS
  <2> QED
    BY <1>2, <2>2, <2>3 DEF FirstChoice, Slots
<1> QED
  BY <1>1, <1>2

(***************************************************************************)
(* With an image in partition 0 the bootloader always finds one.           *)
(***************************************************************************)
LEMMA BootFindsImage ==
  ASSUME NEW e \in [Slots -> OtaSelectEntry], NEW f, Image(f[0]) # 0
  PROVE  BootSlot(e, f) \in Slots /\ Image(f[BootSlot(e, f)]) # 0
<1> DEFINE first == FirstChoice(Aborts(e))
<1>1. first \in {0, 1}
  BY AbortsType, FirstChoiceType DEF Slots
<1>2. BootSlot(e, f) = IF Image(f[first]) # 0 THEN first ELSE 1 - first
  BY DEF BootSlot
<1> HIDE DEF first
<1>3. CASE first = 0
  BY <1>2, <1>3 DEF Slots
<1>4. CASE first = 1
  BY <1>2, <1>4 DEF Slots
<1> QED
  BY <1>1, <1>3, <1>4

(***************************************************************************)
(* What the bootloader does to the entries of a device that OtaInv allows. *)
(***************************************************************************)
BeforeBoot(e) ==
  /\ e[1].ota_state # "Valid"
  /\ \/ e[0] = Entry0
     \/ e[0] = Erased /\ e[1] = Erased

(***************************************************************************)
(* After the bootloader, entry 0 is its own and entry 1 is still not Valid.*)
(***************************************************************************)
LEMMA BootKeepsEntries ==
  ASSUME NEW e \in [Slots -> OtaSelectEntry], BeforeBoot(e)
  PROVE  /\ BootEntries(e) \in [Slots -> OtaSelectEntry]
         /\ BootEntries(e)[0] = Entry0
         /\ BootEntries(e)[1].ota_state # "Valid"
<1> USE DEF BeforeBoot
<1> DEFINE a == Aborts(e)
<1>1. a \in [Slots -> OtaSelectEntry] /\ a[0] = e[0]
  BY AbortsType DEF Entry0, Erased, Slots
<1>2. a[1].ota_state # "Valid"
  BY AbortsType DEF Slots
<1>3. Entry0 \in OtaSelectEntry
  BY Constants DEF Entry0, OtaSelectEntry, OtaSelectEntryState
<1>4. CASE e[0] = Erased /\ e[1] = Erased
  <2>1. a[1] = Erased
    BY <1>4, AbortsType DEF Slots, Erased
  <2>2. \A s \in Slots : SelectInvalid(a[s]) /\ SlotSeq(a[s]) = SeqNone
    BY <1>1, <1>4, <2>1, Constants
       DEF SelectInvalid, SlotSeq, ChecksumOk, Erased, Unchecked, Slots
  <2>3. BootEntries(e) = [a EXCEPT ![0] = Entry0]
    BY <2>2 DEF BootEntries, Entry0
  <2> HIDE DEF a
  <2> QED
    BY <1>1, <1>2, <1>3, <2>3 DEF Slots
<1>5. CASE e[0] = Entry0
  <2>1. ~SelectInvalid(a[0])
    BY <1>1, <1>5, Constants DEF SelectInvalid, Entry0
  <2>2. \/ BootEntries(e) = a
        \/ /\ Selectable(a) # {}
           /\ a[Active(a)].ota_state = "New"
           /\ BootEntries(e)
                = [a EXCEPT ![Active(a)].ota_state = "PendingVerify"]
    BY <2>1 DEF BootEntries, Slots
  <2>3. CASE BootEntries(e) = a
    BY <1>1, <1>2, <1>5, <2>3
  <2>4. CASE /\ Selectable(a) # {}
             /\ a[Active(a)].ota_state = "New"
             /\ BootEntries(e)
                  = [a EXCEPT ![Active(a)].ota_state = "PendingVerify"]
    <3> DEFINE act == Active(a)
    <3>1. act \in Slots
      BY <1>1, <2>4, ActiveType
    <3>2. act # 0
      BY <1>1, <1>5, <2>4 DEF Entry0
    <3>3. BootEntries(e) = [a EXCEPT ![act].ota_state = "PendingVerify"]
      BY <2>4
    <3> HIDE DEF a, act
    <3>4. act = 1
      BY <3>1, <3>2 DEF Slots
    <3>5. BootEntries(e) \in [Slots -> OtaSelectEntry]
      BY <1>1, <3>1, <3>3 DEF OtaSelectEntry, OtaSelectEntryState
    <3>6. BootEntries(e)[0] = a[0]
      BY <1>1, <3>3, <3>4 DEF Slots
    <3>7. BootEntries(e)[1].ota_state = "PendingVerify"
      BY <1>1, <3>3, <3>4 DEF Slots, OtaSelectEntry
    <3> QED
      BY <1>1, <1>5, <3>5, <3>6, <3>7
  <2> QED
    BY <2>2, <2>3, <2>4
<1> QED
  BY <1>4, <1>5

(***************************************************************************)
(* While entry 0 is Valid and entry 1 is not, update_slot and              *)
(* set_current_slot both answer slot 1.                                    *)
(***************************************************************************)
LEMMA BothChooseSlotOne ==
  ASSUME NEW e, e[0] = Entry0, e[1].ota_state # "Valid"
  PROVE  /\ UpdateSlot(e) = 1
         /\ CurrentSlot([s \in Slots |-> Reset(e[s])]) = 1
<1>1. IsValid(e[0]) /\ ~IsValid(e[1])
  BY DEF IsValid, Entry0
<1>2. Reset(e[0]) = e[0]
  BY DEF Reset, ChecksumOk, Entry0
<1>3. ~IsValid(Reset(e[1]))
  BY <1>1 DEF Reset, IsValid
<1> QED
  BY <1>1, <1>2, <1>3 DEF UpdateSlot, CurrentSlot, Slots

(***************************************************************************)
(* set_current_slot's new sequence number fits, at worst as SeqNone.       *)
(***************************************************************************)
LEMMA NextSeqType ==
  ASSUME NEW e \in [Slots -> OtaSelectEntry]
  PROVE  NextSeq(e) \in 0 .. SeqNone
<1> DEFINE seqs == {e[s].ota_seq : s \in Slots} \ {SeqNone}
<1>1. \A s \in {0, 1} : e[s].ota_seq \in 0 .. SeqNone
  BY DEF Slots, OtaSelectEntry
<1>2. seqs \subseteq 0 .. SeqNone - 1
  BY <1>1, Constants DEF Slots
<1>3. CASE seqs = {}
  BY <1>3, Constants DEF NextSeq
<1>4. CASE seqs # {}
  <2>1. \E m \in seqs : \A k \in seqs : k <= m
    <3>1. seqs \subseteq {e[0].ota_seq, e[1].ota_seq}
      BY DEF Slots
    <3> HIDE DEF seqs
    <3> QED
      BY <1>1, <1>4, <3>1, Constants
  <2>2. NextSeq(e) = (CHOOSE m \in seqs : \A k \in seqs : k <= m) + 1
    BY <1>4 DEF NextSeq
  <2> HIDE DEF seqs
  <2>3. (CHOOSE m \in seqs : \A k \in seqs : k <= m) \in 0 .. SeqNone - 1
    BY <1>2, <2>1
  <2> QED
    BY <2>2, <2>3, Constants
<1> QED
  BY <1>3, <1>4

-----------------------------------------------------------------------------
(***************************************************************************)
(* FactoryKept, over the typed flash, means an image in slot 0.            *)
(***************************************************************************)
LEMMA FactoryImage ==
  ASSUME FactoryKept
  PROVE  Image(flash[0]) # 0
<1>1. \A c \in 1 .. Chunks[1] : c <= SlotSize /\ flash[0][c] = 1
  BY Constants DEF FactoryKept
<1> QED
  BY <1>1, Constants, ImageType

(***************************************************************************)
(* The inductive invariant.                                                *)
(***************************************************************************)
LEMMA OtaInvariant == Spec => []OtaInv
<1>1. Init => OtaInv
  <2> SUFFICES ASSUME Init
               PROVE  OtaInv
    OBVIOUS
  <2>1. Erased \in OtaSelectEntry
    BY Constants DEF Erased, OtaSelectEntry, OtaSelectEntryState
  <2>2. entries \in [Slots -> OtaSelectEntry]
    BY <2>1 DEF Init
  <2>3. flash \in [Slots -> [1 .. SlotSize -> 0 .. MaxRelease]]
    BY Constants DEF Init
  <2>4. running \in [slot : Slots, release : Releases, newest : Releases]
    BY Constants DEF Init, Slots
  <2>5. update \in [slot : Slots, offset : 0 .. SlotSize,
                    image : 0 .. MaxRelease, seq : 0 .. SeqNone]
    BY Constants DEF Init, NoUpdate, Slots
  <2>6. latest \in Releases /\ faults \in 0 .. MaxFaults
    BY Constants DEF Init
  <2>7. pending \in BOOLEAN
    BY Zenon DEF Init
  <2>8. FactoryKept
    BY Constants DEF Init, FactoryKept, Slots
  <2>9. EntriesKept
    BY DEF Init, EntriesKept, Erased, Slots
  <2>10. pc = "reset"
    BY DEF Init
  <2> QED
    BY <2>2, <2>3, <2>4, <2>5, <2>6, <2>7, <2>8, <2>9, <2>10
       DEF OtaInv, TypeOK, SlotOne
<1>2. OtaInv /\ [Next]_vars => OtaInv'
  <2> SUFFICES ASSUME OtaInv, [Next]_vars
               PROVE  OtaInv'
    OBVIOUS
  <2> USE DEF OtaInv
  <2>0. NoUpdate \in [slot : Slots, offset : 0 .. SlotSize,
                      image : 0 .. MaxRelease, seq : 0 .. SeqNone]
    BY Constants DEF NoUpdate, Slots
  <2>1. CASE Boot
    <3>1. Image(flash[0]) # 0
      BY FactoryImage
    <3> DEFINE s == BootSlot(entries, flash)
    <3>2. s \in Slots /\ Image(flash[s]) # 0
      BY <3>1, BootFindsImage DEF TypeOK
    <3>3. Image(flash[s]) \in Releases
      BY <3>2, ImageType
    <3>4. pc' = "check" /\ running' = Started(s)
      BY <2>1, <3>2 DEF Boot, Started
    <3>5. running' \in [slot : Slots, release : Releases, newest : Releases]
      BY <3>2, <3>3, <3>4 DEF Started, TypeOK
    <3>6. /\ entries' \in [Slots -> OtaSelectEntry]
          /\ entries'[0] = Entry0
          /\ entries'[1].ota_state # "Valid"
      <4>1. entries \in [Slots -> OtaSelectEntry]
        BY DEF TypeOK
      <4>2. BeforeBoot(entries)
        BY DEF EntriesKept, BeforeBoot
      <4>3. entries' = BootEntries(entries)
        BY <2>1 DEF Boot
      <4>4. /\ BootEntries(entries) \in [Slots -> OtaSelectEntry]
            /\ BootEntries(entries)[0] = Entry0
            /\ BootEntries(entries)[1].ota_state # "Valid"
        BY <4>1, <4>2, BootKeepsEntries
      <4> QED
        BY <4>3, <4>4
    <3>7. UNCHANGED <<flash, update, pending, latest, faults>>
      BY <2>1 DEF Boot
    <3> QED
      BY <3>4, <3>5, <3>6, <3>7 DEF TypeOK, FactoryKept, EntriesKept, SlotOne
  <2>2. CASE CheckRelease
    <3>1. /\ UpdateSlot(entries) = 1 /\ pc' \in {"request", "spawn"}
          /\ UNCHANGED <<entries, flash, running, pending, latest, faults>>
      BY <2>2, BothChooseSlotOne DEF CheckRelease, EntriesKept
    <3>2. \/ update' = [NoUpdate EXCEPT !.slot = 1]
          \/ update' = update /\ pc' = "spawn"
      BY <2>2, <3>1 DEF CheckRelease
    <3>3. /\ update' \in [slot : Slots, offset : 0 .. SlotSize,
                          image : 0 .. MaxRelease, seq : 0 .. SeqNone]
          /\ SlotOne'
      BY <2>0, <3>1, <3>2 DEF TypeOK, SlotOne, Slots, NoUpdate
    <3>4. EntriesKept'
      BY <2>2, <3>1 DEF EntriesKept, CheckRelease
    <3> QED
      BY <3>1, <3>3, <3>4 DEF TypeOK, FactoryKept
  <2>3. CASE RequestFirmware
    <3>1. update' \in [slot : Slots, offset : 0 .. SlotSize,
                       image : 0 .. MaxRelease, seq : 0 .. SeqNone]
      <4>1. latest \in 0 .. MaxRelease
        BY Constants DEF TypeOK, Releases
      <4> QED
        BY <2>3, <4>1 DEF RequestFirmware, TypeOK
    <3>2. SlotOne'
      BY <2>3 DEF RequestFirmware, TypeOK, SlotOne
    <3> QED
      BY <2>3, <3>1, <3>2 DEF RequestFirmware, TypeOK, FactoryKept, EntriesKept
  <2>4. CASE WriteUpdate
    <3>1. update.slot = 1 /\ update.offset + 1 \in 1 .. SlotSize
      BY <2>4, UpdateFields, Constants DEF WriteUpdate, SlotOne
    <3>2. /\ flash' \in [Slots -> [1 .. SlotSize -> 0 .. MaxRelease]]
          /\ flash'[0] = flash[0]
      BY <2>4, <3>1 DEF WriteUpdate, TypeOK, Slots
    <3>3. update' \in [slot : Slots, offset : 0 .. SlotSize,
                       image : 0 .. MaxRelease, seq : 0 .. SeqNone]
      <4>1. update.offset + 1 \in 0 .. SlotSize
        BY <3>1, Constants
      <4> QED
        BY <2>4, <4>1 DEF WriteUpdate, TypeOK
    <3>4. SlotOne'
      BY <2>4, <3>1 DEF WriteUpdate, TypeOK, SlotOne
    <3> QED
      BY <2>4, <3>2, <3>3, <3>4 DEF WriteUpdate, TypeOK, FactoryKept, EntriesKept
  <2>5. ASSUME DeepSleep, UNCHANGED flash, pc # "reset",
               faults' \in 0 .. MaxFaults
        PROVE  OtaInv'
    BY <2>0, <2>5, Zenon
       DEF DeepSleep, TypeOK, FactoryKept, EntriesKept, SlotOne
  <2>6. CASE TooLarge \/ Reboot
    BY <2>5, <2>6 DEF TooLarge, Reboot, TypeOK
  <2>7. CASE StartupFails
    <3>1. faults' \in 0 .. MaxFaults
      BY <2>7, Constants DEF StartupFails, TypeOK
    <3> QED
      BY <2>5, <2>7, <3>1 DEF StartupFails
  <2>8. CASE DownloadEnds
    BY <2>8 DEF DownloadEnds, TypeOK, FactoryKept, EntriesKept, SlotOne
  <2>9. CASE DownloadCutShort
    <3>1. faults' \in 0 .. MaxFaults
      BY <2>9, Constants DEF DownloadCutShort, TypeOK
    <3> QED
      BY <2>9, <3>1 DEF DownloadCutShort, TypeOK, FactoryKept, EntriesKept,
                        SlotOne
  <2>10. CASE CommitErase
    <3> DEFINE e == [s \in Slots |-> Reset(entries[s])]
    <3>1. update.slot = 1 /\ CurrentSlot(e) = 1 /\ entries[0] = Entry0
      BY <2>10, BothChooseSlotOne DEF CommitErase, SlotOne, EntriesKept
    <3>2. e \in [Slots -> OtaSelectEntry]
      BY Constants DEF TypeOK, Reset, OtaSelectEntry, OtaSelectEntryState
    <3>3. /\ entries' = [entries EXCEPT ![1] = Erased]
          /\ update' = [update EXCEPT !.seq = NextSeq(e)]
          /\ pc' = "program"
          /\ UNCHANGED <<flash, running, pending, latest, faults>>
      BY <2>10, <3>1 DEF CommitErase
    <3>4. NextSeq(e) \in 0 .. SeqNone
      BY <3>2, NextSeqType
    <3> HIDE DEF e
    <3>5. /\ update' \in [slot : Slots, offset : 0 .. SlotSize,
                          image : 0 .. MaxRelease, seq : 0 .. SeqNone]
          /\ update'.slot = 1
      BY <3>1, <3>3, <3>4 DEF TypeOK
    <3>6. Erased \in OtaSelectEntry
      BY Constants DEF Erased, OtaSelectEntry, OtaSelectEntryState
    <3>7. /\ entries' \in [Slots -> OtaSelectEntry]
          /\ entries'[0] = Entry0 /\ entries'[1] = Erased
      BY <3>1, <3>3, <3>6 DEF TypeOK, Slots
    <3>8. EntriesKept'
      BY <3>7 DEF EntriesKept, Erased
    <3> QED
      BY <3>3, <3>5, <3>7, <3>8 DEF TypeOK, FactoryKept, SlotOne
  <2>11. CASE CommitProgram
    <3>1. update.slot = 1 /\ entries[0] = Entry0
      BY <2>11 DEF CommitProgram, SlotOne, EntriesKept
    <3>2. NewEntry(update.seq) \in OtaSelectEntry
      BY DEF NewEntry, OtaSelectEntry, OtaSelectEntryState, TypeOK
    <3>3. /\ entries' \in [Slots -> OtaSelectEntry]
          /\ entries'[0] = Entry0 /\ entries'[1] = NewEntry(update.seq)
      BY <2>11, <3>1, <3>2 DEF CommitProgram, TypeOK, Slots
    <3>4. EntriesKept'
      BY <3>3 DEF EntriesKept, NewEntry
    <3>5. pending' \in BOOLEAN /\ pc' = "spawn"
      BY <2>11, Zenon DEF CommitProgram
    <3>6. UNCHANGED <<flash, running, update, latest, faults>>
      BY <2>11 DEF CommitProgram
    <3> QED
      BY <3>3, <3>4, <3>5, <3>6 DEF TypeOK, FactoryKept, SlotOne
  <2>12. CASE Spawn
    BY <2>12 DEF Spawn, TypeOK, FactoryKept, EntriesKept, SlotOne
  <2>13. CASE Publish
    <3>1. latest' \in Releases
      BY <2>13, Constants DEF Publish, TypeOK, Releases
    <3> QED
      BY <2>13, <3>1 DEF Publish, TypeOK, FactoryKept, EntriesKept, SlotOne
  <2>14. CASE PowerLoss
    <3>1. /\ pc' = "reset" /\ update' = NoUpdate /\ UNCHANGED <<running, latest>>
          /\ faults' \in 0 .. MaxFaults /\ entries[0] = Entry0
      BY <2>14, Constants DEF PowerLoss, TypeOK, EntriesKept
    <3>2. pending' \in BOOLEAN
      BY <2>14, Zenon DEF PowerLoss
    <3>3. /\ flash' \in [Slots -> [1 .. SlotSize -> 0 .. MaxRelease]]
          /\ flash'[0] = flash[0]
      <4>1. CASE flash' = flash
        BY <4>1 DEF TypeOK
      <4>2. CASE pc = "download" /\ update.offset < SlotSize /\ flash' # flash
        <5>1. update.slot = 1 /\ update.offset + 1 \in 1 .. SlotSize
          <6>1. update.slot = 1 /\ update.offset \in 0 .. SlotSize
            BY <4>2 DEF SlotOne, TypeOK
          <6> QED
            BY <4>2, <6>1, Constants
        <5> DEFINE k == update.offset + 1
        <5>2. PICK torn \in TornChunks(k) :
                flash' = [flash EXCEPT ![1][k] = torn]
          BY <2>14, <4>2, <5>1 DEF PowerLoss
        <5>3. torn \in 0 .. MaxRelease
          <6>1. flash[1] \in [1 .. SlotSize -> 0 .. MaxRelease]
            BY DEF TypeOK, Slots
          <6>2. flash[1][k] \in 0 .. MaxRelease
            BY <5>1, <6>1
          <6>3. torn = flash[1][k] \/ torn = 0
            BY <5>1, <5>2 DEF TornChunks
          <6> QED
            BY <6>2, <6>3, Constants
        <5>4. k \in 1 .. SlotSize
          BY <5>1
        <5> HIDE DEF k
        <5> QED
          BY <5>2, <5>3, <5>4 DEF TypeOK, Slots
      <4> QED
        BY <2>14, <4>1, <4>2 DEF PowerLoss
    <3>4. /\ entries' \in [Slots -> OtaSelectEntry]
          /\ entries'[0] = Entry0 /\ entries'[1].ota_state # "Valid"
      <4>1. CASE entries' = entries
        BY <3>1, <4>1 DEF TypeOK, EntriesKept
      <4>2. CASE pc = "program"
        <5>1. update.slot = 1
          BY <4>2 DEF SlotOne
        <5>2. PICK torn \in TornEntries :
                entries' = [entries EXCEPT ![1] = torn]
          BY <2>14, <4>2, <5>1 DEF PowerLoss
        <5>3. torn \in OtaSelectEntry /\ torn.ota_state # "Valid"
          BY <5>1 DEF TornEntries, TypeOK, EntriesKept, Slots, OtaSelectEntry,
                      OtaSelectEntryState, Unchecked
        <5> QED
          BY <3>1, <5>2, <5>3 DEF TypeOK, Slots
      <4> QED
        BY <2>14, <4>1, <4>2 DEF PowerLoss
    <3> QED
      BY <2>0, <3>1, <3>2, <3>3, <3>4
         DEF TypeOK, FactoryKept, EntriesKept, SlotOne
  <2>15. CASE Clobbered
    BY <2>15 DEF Clobbered, TypeOK, FactoryKept, EntriesKept, SlotOne
  <2>16. CASE PowerCycle
    <3>1. pending' \in BOOLEAN
      BY <2>16, Zenon DEF PowerCycle
    <3> QED
      BY <2>0, <2>16, <3>1
         DEF PowerCycle, TypeOK, FactoryKept, EntriesKept, SlotOne
  <2>17. CASE UNCHANGED vars
    BY <2>17 DEF vars, TypeOK, FactoryKept, EntriesKept, SlotOne
  <2> QED
    BY <2>1, <2>2, <2>3, <2>4, <2>6, <2>7, <2>8, <2>9, <2>10, <2>11, <2>12,
       <2>13, <2>14, <2>15, <2>16, <2>17 DEF Next, Main
<1> QED
  BY <1>1, <1>2, PTL DEF Spec

(***************************************************************************)
(* Type correctness: no write goes past the end of a partition.            *)
(***************************************************************************)
THEOREM TypeCorrect == Spec => []TypeOK
<1>1. OtaInv => TypeOK
  BY DEF OtaInv
<1> QED
  BY <1>1, OtaInvariant, PTL

(***************************************************************************)
(* The device can always boot: power loss, download and commit leave the   *)
(* bootloader an image that it finds.                                      *)
(***************************************************************************)
THEOREM AlwaysBootable == Spec => []Bootable
<1>1. OtaInv => Bootable
  <2> SUFFICES ASSUME OtaInv
               PROVE  Bootable
    OBVIOUS
  <2>1. Image(flash[0]) # 0
    BY FactoryImage DEF OtaInv
  <2> QED
    BY <2>1, BootFindsImage DEF OtaInv, TypeOK, Bootable
<1> QED
  BY <1>1, OtaInvariant, PTL

(***************************************************************************)
(* set_current_slot's assertion never fails.                               *)
(***************************************************************************)
THEOREM SlotsAlwaysAgree == Spec => []SlotsAgree
<1>1. OtaInv => SlotsAgree
  <2> SUFFICES ASSUME OtaInv, pc = "commit"
               PROVE  CurrentSlot([s \in Slots |-> Reset(entries[s])])
                        = update.slot
    BY DEF OtaInv, SlotsAgree
  <2> QED
    BY BothChooseSlotOne DEF OtaInv, EntriesKept, SlotOne
<1> QED
  BY <1>1, OtaInvariant, PTL

-----------------------------------------------------------------------------
(***************************************************************************)
(* The flash holds, and the device has run, only what was published.  The  *)
(* release that was announced is newer than the running one, and so is the *)
(* one that is then downloaded: releases are only ever added.              *)
(***************************************************************************)
FlashPublished == \A s \in Slots : \A c \in 1 .. SlotSize : flash[s][c] <= latest

NewerInv ==
  /\ FlashPublished
  /\ running.newest <= latest
  /\ pc = "request" => running.release < latest
  /\ pc \in {"download", "commit", "program"} =>
       /\ running.release < update.image
       /\ running.newest <= update.image
       /\ update.image <= latest

(***************************************************************************)
(* From the commit to the next restart entry 1 is the one just written.    *)
(* Its sequence number comes after entry 0's.                              *)
(***************************************************************************)
PendingInv ==
  /\ pc = "program" => update.seq > 1
  /\ pending =>
       /\ pc \in {"spawn", "serve", "halted"}
       /\ update.slot = 1
       /\ update.seq > 1
       /\ entries[0] = Entry0
       /\ entries[1] = NewEntry(update.seq)

(***************************************************************************)
(* The next sequence number is higher than any that is in use.             *)
(***************************************************************************)
LEMMA NextSeqHigher ==
  ASSUME NEW e \in [Slots -> OtaSelectEntry], NEW s \in Slots,
         e[s].ota_seq # SeqNone
  PROVE  NextSeq(e) > e[s].ota_seq
<1> DEFINE seqs == {e[t].ota_seq : t \in Slots} \ {SeqNone}
<1>1. \A t \in {0, 1} : e[t].ota_seq \in Int
  BY Constants DEF Slots, OtaSelectEntry
<1>2. e[s].ota_seq \in seqs /\ seqs \subseteq {e[0].ota_seq, e[1].ota_seq}
  BY DEF Slots
<1>3. NextSeq(e) = (CHOOSE m \in seqs : \A k \in seqs : k <= m) + 1
  BY <1>2 DEF NextSeq
<1> HIDE DEF seqs
<1>4. \E m \in seqs : \A k \in seqs : k <= m
  BY <1>1, <1>2
<1>5. PICK m \in seqs : /\ m = CHOOSE n \in seqs : \A k \in seqs : k <= n
                        /\ \A k \in seqs : k <= m
  BY <1>4
<1>6. m \in Int /\ e[s].ota_seq \in Int
  BY <1>1, <1>2 DEF Slots
<1>7. NextSeq(e) = m + 1
  BY <1>3, <1>5, Zenon
<1>8. e[s].ota_seq <= m
  BY <1>2, <1>5, Zenon
<1> QED
  BY <1>6, <1>7, <1>8

\* An image in flash is of a release that was published.
LEMMA ImagePublished ==
  ASSUME OtaInv, FlashPublished, NEW s \in Slots, Image(flash[s]) # 0
  PROVE  Image(flash[s]) <= latest
<1> DEFINE r == Image(flash[s])
           Holds(q) == \A c \in 1 .. Chunks[q] : c <= SlotSize /\ flash[s][c] = q
<1>1. \E q \in Releases : Holds(q)
  BY DEF Image
<1>2. r = CHOOSE q \in Releases : Holds(q)
  BY <1>1 DEF Image
<1>3. r \in Releases /\ Holds(r)
  <2> HIDE DEF Holds, r
  <2> QED
    BY <1>1, <1>2
<1> HIDE DEF r
<1>4. 1 \in 1 .. Chunks[r]
  BY <1>3, Constants
<1>5. 1 <= SlotSize /\ flash[s][1] = r
  BY <1>3, <1>4
<1>6. 1 \in 1 .. SlotSize
  BY <1>5, Constants
<1> QED
  BY <1>5, <1>6 DEF FlashPublished, r

\* Steps that leave the flash alone, or erase a chunk of it.
LEMMA FlashStaysPublished ==
  ASSUME OtaInv, NewerInv, [Next]_vars
  PROVE  FlashPublished'
<1>0. /\ latest \in Nat /\ latest' \in Nat /\ latest <= latest'
      /\ flash \in [Slots -> [1 .. SlotSize -> 0 .. MaxRelease]]
  <2>1. latest \in Nat
    BY Constants DEF OtaInv, TypeOK, Releases
  <2>2. latest' = latest \/ latest' = latest + 1
    BY DEF Next, Main, Boot, CheckRelease, RequestFirmware, WriteUpdate,
           TooLarge, DownloadEnds, CommitErase, CommitProgram, Spawn, Publish,
           DownloadCutShort, Reboot, StartupFails, PowerLoss, Clobbered,
           PowerCycle, DeepSleep, vars
  <2> QED
    BY <2>1, <2>2 DEF OtaInv, TypeOK
<1>1. ASSUME NEW s \in Slots, NEW k \in 1 .. SlotSize, NEW v \in 0 .. latest,
             flash' = [flash EXCEPT ![s][k] = v]
      PROVE  FlashPublished'
  <2> SUFFICES ASSUME NEW t \in Slots, NEW c \in 1 .. SlotSize
               PROVE  flash'[t][c] <= latest'
    BY DEF FlashPublished
  <2>1. flash'[t][c] = IF t = s /\ c = k THEN v ELSE flash[t][c]
    BY <1>0, <1>1
  <2>2. flash[t][c] <= latest /\ flash[t][c] \in Int
    BY <1>0, Constants DEF NewerInv, FlashPublished
  <2> QED
    BY <1>0, <2>1, <2>2
<1>2. CASE UNCHANGED flash
  <2> SUFFICES ASSUME NEW t \in Slots, NEW c \in 1 .. SlotSize
               PROVE  flash'[t][c] <= latest'
    BY DEF FlashPublished
  <2>1. flash[t][c] <= latest /\ flash[t][c] \in Int
    BY <1>0, Constants DEF NewerInv, FlashPublished
  <2> QED
    BY <1>0, <1>2, <2>1
<1>3. CASE WriteUpdate
  <2>1. /\ update.slot \in Slots /\ update.offset + 1 \in 1 .. SlotSize
        /\ update.image \in 0 .. latest
    BY <1>0, <1>3, UpdateFields, Constants DEF WriteUpdate, NewerInv, OtaInv
  <2> QED
    BY <1>1, <1>3, <2>1 DEF WriteUpdate
<1>4. CASE PowerLoss
  <2>1. CASE pc = "download" /\ update.offset < SlotSize
    <3> DEFINE k == update.offset + 1
    <3>1. update.slot \in Slots /\ k \in 1 .. SlotSize
      BY <2>1, UpdateFields, Constants DEF OtaInv
    <3>2. PICK torn \in TornChunks(k) :
            flash' = [flash EXCEPT ![update.slot][k] = torn]
      BY <1>4, <2>1 DEF PowerLoss
    <3>3. torn \in 0 .. latest
      BY <1>0, <3>1, <3>2, Constants DEF TornChunks, NewerInv, FlashPublished
    <3> HIDE DEF k
    <3> QED
      BY <1>1, <3>1, <3>2, <3>3
  <2>2. CASE ~(pc = "download" /\ update.offset < SlotSize)
    BY <1>2, <1>4, <2>2 DEF PowerLoss
  <2> QED
    BY <2>1, <2>2
<1>5. CASE ~WriteUpdate /\ ~PowerLoss
  <2>1. UNCHANGED flash
    BY <1>5 DEF Next, Main, Boot, CheckRelease, RequestFirmware, TooLarge,
                DownloadEnds, CommitErase, CommitProgram, Spawn, Publish,
                DownloadCutShort, Reboot, StartupFails, Clobbered, PowerCycle,
                vars
  <2> QED
    BY <1>2, <2>1
<1> QED
  BY <1>3, <1>4, <1>5

(***************************************************************************)
(* NewerInv, given the types.                                              *)
(***************************************************************************)
LEMMA NewerInvariant == Spec => []NewerInv
<1>1. Init => NewerInv
  BY Constants DEF Init, NewerInv, FlashPublished
<1>2. OtaInv /\ NewerInv /\ [Next]_vars => NewerInv'
  <2> SUFFICES ASSUME OtaInv, NewerInv, [Next]_vars
               PROVE  NewerInv'
    OBVIOUS
  <2>0. /\ latest \in Int /\ running.release \in Int /\ update.image \in Int
        /\ running.newest \in Int
        /\ update \in [slot : Slots, offset : 0 .. SlotSize,
                       image : 0 .. MaxRelease, seq : 0 .. SeqNone]
    BY Constants DEF OtaInv, TypeOK, Releases
  <2>f. FlashPublished'
    BY FlashStaysPublished
  <2>1. CASE Boot
    <3> DEFINE s == BootSlot(entries, flash)
    <3>1. s \in Slots /\ Image(flash[s]) # 0
      BY FactoryImage, BootFindsImage DEF OtaInv, TypeOK
    <3>2. Image(flash[s]) <= latest /\ Image(flash[s]) \in Int
      BY <3>1, ImagePublished, ImageType DEF NewerInv
    <3>3. pc' = "check" /\ running' = Started(s) /\ UNCHANGED latest
      BY <2>1, <3>1 DEF Boot, Started
    <3>4. running'.newest <= latest
      BY <2>0, <3>2, <3>3 DEF Started, NewerInv
    <3> QED
      BY <2>f, <3>3, <3>4 DEF NewerInv
  <2>2. CASE CheckRelease
    BY <2>2, <2>f DEF CheckRelease, NewerInv
  <2>3. CASE RequestFirmware
    BY <2>0, <2>3, <2>f DEF RequestFirmware, NewerInv
  <2>4. CASE WriteUpdate
    BY <2>0, <2>4, <2>f DEF WriteUpdate, NewerInv
  <2>5. CASE TooLarge \/ Reboot \/ StartupFails \/ PowerLoss \/ PowerCycle
    <3>1. pc' = "reset" /\ UNCHANGED <<running, latest>>
      BY <2>5 DEF TooLarge, Reboot, StartupFails, PowerLoss, PowerCycle,
                  DeepSleep
    <3> QED
      BY <2>f, <3>1 DEF NewerInv
  <2>6. CASE DownloadEnds \/ DownloadCutShort
    BY <2>6, <2>f DEF DownloadEnds, DownloadCutShort, NewerInv
  <2>7. CASE CommitErase
    <3>1. /\ pc' \in {"panicked", "program"} /\ update'.image = update.image
          /\ UNCHANGED <<running, latest>>
      BY <2>0, <2>7 DEF CommitErase
    <3> QED
      BY <2>7, <2>f, <3>1 DEF CommitErase, NewerInv
  <2>8. CASE CommitProgram \/ Spawn \/ Clobbered
    BY <2>8, <2>f DEF CommitProgram, Spawn, Clobbered, NewerInv
  <2>9. CASE Publish
    BY <2>0, <2>9, <2>f DEF Publish, NewerInv
  <2>10. CASE UNCHANGED vars
    BY <2>10, <2>f DEF vars, NewerInv
  <2> QED
    BY <2>1, <2>2, <2>3, <2>4, <2>5, <2>6, <2>7, <2>8, <2>9, <2>10
       DEF Next, Main
<1> QED
  BY <1>1, <1>2, OtaInvariant, PTL DEF Spec

(***************************************************************************)
(* PendingInv, given the types and where updates go.                       *)
(***************************************************************************)
LEMMA PendingInvariant == Spec => []PendingInv
<1>1. Init => PendingInv
  BY DEF Init, PendingInv
<1>2. OtaInv /\ PendingInv /\ [Next]_vars => PendingInv'
  <2> SUFFICES ASSUME OtaInv, PendingInv, [Next]_vars
               PROVE  PendingInv'
    OBVIOUS
  <2>0. update \in [slot : Slots, offset : 0 .. SlotSize,
                    image : 0 .. MaxRelease, seq : 0 .. SeqNone]
    BY DEF OtaInv, TypeOK
  <2>1. CASE Boot \/ CheckRelease \/ RequestFirmware \/ WriteUpdate
               \/ DownloadEnds \/ DownloadCutShort
    <3>1. ~pending /\ pending' = pending /\ pc' # "program"
      BY <2>1 DEF Boot, CheckRelease, RequestFirmware, WriteUpdate,
                  DownloadEnds, DownloadCutShort, PendingInv
    <3> QED
      BY <3>1 DEF PendingInv
  <2>2. CASE TooLarge \/ Reboot \/ StartupFails \/ PowerLoss \/ PowerCycle
    <3>1. pending' = FALSE /\ pc' = "reset"
      BY <2>2 DEF TooLarge, Reboot, StartupFails, PowerLoss, PowerCycle,
                  DeepSleep
    <3> QED
      BY <3>1 DEF PendingInv
  <2>3. CASE CommitErase
    <3> DEFINE e == [s \in Slots |-> Reset(entries[s])]
    <3>1. ~pending /\ pending' = pending
      BY <2>3 DEF CommitErase, PendingInv
    <3>2. /\ e \in [Slots -> OtaSelectEntry]
          /\ e[0].ota_seq = 1 /\ 1 # SeqNone /\ 0 \in Slots
      <4>1. entries[0] = Entry0
        BY <2>3 DEF CommitErase, OtaInv, EntriesKept
      <4>2. Reset(entries[0]) = Entry0
        BY <4>1 DEF Reset, ChecksumOk, Entry0
      <4> QED
        BY <4>2, Constants DEF OtaInv, TypeOK, Reset, OtaSelectEntry,
                               OtaSelectEntryState, Slots, Entry0
    <3>3. pc' = "program" => update' = [update EXCEPT !.seq = NextSeq(e)]
      BY <2>3 DEF CommitErase
    <3> HIDE DEF e
    <3>4. NextSeq(e) > 1
      BY <3>2, NextSeqHigher
    <3>5. pc' = "program" => update'.seq > 1
      BY <2>0, <3>3, <3>4
    <3> QED
      BY <3>1, <3>5 DEF PendingInv
  <2>4. CASE CommitProgram
    <3>1. update.slot = 1 /\ entries[0] = Entry0
      BY <2>4 DEF CommitProgram, OtaInv, SlotOne, EntriesKept
    <3>2. /\ entries'[0] = Entry0
          /\ entries'[1] = NewEntry(update.seq)
      BY <2>4, <3>1 DEF CommitProgram, OtaInv, TypeOK, Slots
    <3>3. update' = update /\ pc' = "spawn" /\ update.seq > 1
      BY <2>4 DEF CommitProgram, PendingInv
    <3> QED
      BY <3>1, <3>2, <3>3 DEF PendingInv
  <2>5. CASE Spawn \/ Clobbered \/ Publish \/ UNCHANGED vars
    <3>1. /\ UNCHANGED <<entries, update, pending>>
          /\ \/ pc' = pc
             \/ pc = "spawn" /\ pc' = "serve"
             \/ pc' = "halted"
      BY <2>5 DEF Spawn, Clobbered, Publish, vars
    <3> QED
      BY <3>1 DEF PendingInv
  <2> QED
    BY <2>1, <2>2, <2>3, <2>4, <2>5 DEF Next, Main
<1> QED
  BY <1>1, <1>2, OtaInvariant, PTL DEF Spec

(***************************************************************************)
(* What is committed is newer than what runs and no older than anything    *)
(* the device has ever run, whatever is published between the requests.    *)
(***************************************************************************)
THEOREM OnlyForward == Spec => []DownloadsGoForward
<1>1. NewerInv => DownloadsGoForward
  BY DEF NewerInv, DownloadsGoForward
<1> QED
  BY <1>1, NewerInvariant, PTL

(***************************************************************************)
(* A committed entry is the active one, until sequence numbers run out;    *)
(* which partition that makes the bootloader start is another matter.      *)
(***************************************************************************)
THEOREM CommittedIsActive == Spec => []CommitIsActive
<1>1. OtaInv /\ PendingInv => CommitIsActive
  <2> SUFFICES ASSUME OtaInv, PendingInv, pending, update.seq # SeqNone
               PROVE  /\ Selectable(entries) # {}
                      /\ Active(entries) = update.slot
    BY DEF CommitIsActive
  <2>1. /\ update.slot = 1 /\ update.seq > 1 /\ update.seq \in Int
        /\ entries \in [Slots -> OtaSelectEntry]
        /\ entries[0] = Entry0 /\ entries[1] = NewEntry(update.seq)
    BY Constants DEF PendingInv, OtaInv, TypeOK
  <2>2. Selectable(entries) = {0, 1}
    BY <2>1, Constants DEF Selectable, SelectInvalid, ChecksumOk, Entry0,
                           NewEntry, Slots
  <2>3. entries[0].ota_seq = 1 /\ entries[1].ota_seq = update.seq
    BY <2>1 DEF Entry0, NewEntry
  <2>4. /\ Active(entries) \in {0, 1}
        /\ entries[1].ota_seq <= entries[Active(entries)].ota_seq
    BY <2>1, <2>2, ActiveType
  <2>5. Active(entries) # 0
    BY <2>1, <2>3, <2>4
  <2> QED
    BY <2>1, <2>2, <2>4, <2>5
<1> QED
  BY <1>1, OtaInvariant, PendingInvariant, PTL

-----------------------------------------------------------------------------
(***************************************************************************)
(* Partition 0 is never written, for any number of updates and faults, and *)
(* with or without rollback: downloads, and the chunk a power loss tears,  *)
(* are in slot 1.                                                          *)
(***************************************************************************)
THEOREM CableImageIsKept == Spec => CableImageKept
<1>1. OtaInv /\ [Next]_vars => [flash'[0] = flash[0]]_vars
  <2> SUFFICES ASSUME OtaInv, Next
               PROVE  flash'[0] = flash[0]
    OBVIOUS
  <2>1. CASE WriteUpdate
    BY <2>1 DEF WriteUpdate, OtaInv, SlotOne, TypeOK, Slots
  <2>2. CASE PowerLoss
    BY <2>2 DEF PowerLoss, OtaInv, SlotOne, TypeOK, Slots
  <2>3. CASE \/ Boot \/ CheckRelease \/ RequestFirmware \/ TooLarge
             \/ DownloadEnds \/ CommitErase \/ CommitProgram \/ Spawn
    BY <2>3 DEF Boot, CheckRelease, RequestFirmware, TooLarge, DownloadEnds,
                CommitErase, CommitProgram, Spawn
  <2>4. CASE \/ Publish \/ DownloadCutShort \/ Reboot \/ StartupFails
             \/ Clobbered \/ PowerCycle
    BY <2>4 DEF Publish, DownloadCutShort, Reboot, StartupFails, Clobbered,
                PowerCycle
  <2> QED
    BY <2>1, <2>2, <2>3, <2>4 DEF Next, Main
<1> QED
  BY <1>1, OtaInvariant, PTL DEF Spec, CableImageKept

=============================================================================
