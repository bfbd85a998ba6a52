-------------------------------- MODULE Ota --------------------------------
(***************************************************************************)
(* The over-the-air update: src/src/ota.rs as main_fallible in             *)
(* src/src/bin/blind.rs drives it on every boot, over the flash that       *)
(* survives a restart, with the ESP-IDF bootloader that reads what it      *)
(* leaves behind.                                                          *)
(*                                                                         *)
(* Firmware is abstracted to release numbers in the order of BUILD_DATE,   *)
(* and an image to a number of equal chunks.  A checksum is abstracted to  *)
(* the sequence number it was computed from: CRC-32 of four bytes is       *)
(* injective.                                                              *)
(***************************************************************************)
EXTENDS Integers

CONSTANTS
  MaxRelease,  \* bound: releases published; 1 is the one flashed by cable
  Chunks,      \* chunks in the image of each release
  SlotSize,    \* chunks an OTA partition has room for
  SeqNone,     \* the empty ota_seq, 0xFFFFFFFF
  Rollback,    \* is the bootloader built with rollback?
  Sized,       \* does the server announce a Content-Length?
  MaxFaults    \* bound: power losses and network errors

Releases == 1 .. MaxRelease

ASSUME OtaAssumption ==
  /\ MaxRelease \in Nat \ {0}
  /\ Chunks \in [Releases -> Nat \ {0}]
  /\ SlotSize \in Nat /\ Chunks[1] <= SlotSize
  /\ SeqNone \in Nat /\ SeqNone > 2
  /\ Rollback \in BOOLEAN
  /\ Sized \in BOOLEAN
  /\ MaxFaults \in Nat

VARIABLES
  pc,       \* where main_fallible is
  entries,  \* the two OtaSelectEntry of the otadata partition
  flash,    \* chunks of the two OTA partitions; 0 is no release's
  running,  \* slot and release the bootloader started; newest ever run
  update,   \* Ota.update_state, the image being fetched, the new ota_seq
  pending,  \* UPDATE_PENDING
  latest,   \* newest release on the server
  faults    \* faults so far, for the bound

vars == <<pc, entries, flash, running, update, pending, latest, faults>>

Slots == {0, 1}

-----------------------------------------------------------------------------
(***************************************************************************)
(* OtaSelectEntry.  An erased entry reads as all ones and fails its        *)
(* checksum; reset() gives the same fields a good one.                     *)
(***************************************************************************)
OtaSelectEntryState ==
  {"New", "PendingVerify", "Valid", "Invalid", "Aborted", "Undefined"}

Unchecked == -1

OtaSelectEntry ==
  [ota_seq : 0 .. SeqNone, ota_state : OtaSelectEntryState,
   crc : 0 .. SeqNone \cup {Unchecked}]

Erased ==
  [ota_seq |-> SeqNone, ota_state |-> "Undefined", crc |-> Unchecked]

ChecksumOk(entry) == entry.crc = entry.ota_seq

Reset(entry) ==
  IF ChecksumOk(entry) THEN entry
  ELSE [ota_seq |-> SeqNone, ota_state |-> "Undefined", crc |-> SeqNone]

IsValid(entry) == entry.ota_state = "Valid"

SlotSeq(entry) == IF ChecksumOk(entry) THEN entry.ota_seq ELSE SeqNone

(***************************************************************************)
(* Ota::update_slot: the slot to download into.                            *)
(***************************************************************************)
UpdateSlotMutant(e) ==
  LET seq == [s \in Slots |-> SlotSeq(e[s])]
  IN  IF seq[0] = SeqNone /\ seq[1] = SeqNone THEN 1
      ELSE IF seq[0] = SeqNone \/ (seq[1] # SeqNone /\ seq[0] <= seq[1]) THEN 0
      ELSE 1

UpdateSlot(e) ==
  LET seq == [s \in Slots |-> SlotSeq(e[s])]
  IN  IF ~IsValid(e[0]) THEN 0
      ELSE IF ~IsValid(e[1]) THEN 1
      ELSE IF seq[0] = SeqNone /\ seq[1] = SeqNone THEN 1
      ELSE IF seq[0] = SeqNone \/ (seq[1] # SeqNone /\ seq[0] <= seq[1]) THEN 0
      ELSE 1

(***************************************************************************)
(* Ota::set_current_slot: the new ota_seq and the slot it is written to,   *)
(* from the two entries after reset().                                     *)
(***************************************************************************)
NextSeqMutant(e) ==
  LET seq == {e[s].ota_seq : s \in Slots} \ {SeqNone}
  IN  IF seq = {} THEN 1 ELSE CHOOSE m \in seq : \A k \in seq : k <= m

NextSeq(e) ==
  LET seq == {e[s].ota_seq : s \in Slots} \ {SeqNone}
  IN  IF seq = {} THEN 1 ELSE (CHOOSE m \in seq : \A k \in seq : k <= m) + 1

SeqSlot(e) ==
  IF \/ e[0].ota_seq = SeqNone
     \/ e[1].ota_seq # SeqNone /\ e[1].ota_seq > e[0].ota_seq
  THEN 0 ELSE 1

CurrentSlot(e) ==
  IF IsValid(e[0]) /\ IsValid(e[1]) THEN SeqSlot(e)
  ELSE IF IsValid(e[1]) THEN 0 ELSE 1

-----------------------------------------------------------------------------
(***************************************************************************)
(* The ESP-IDF bootloader.  It boots the selectable entry with the highest *)
(* ota_seq, from partition (ota_seq - 1) % 2, or the other partition if    *)
(* there is no good image in that one (images carry their own digest).     *)
(* When no entry was ever written it takes partition 0 and says so in      *)
(* entry 0.  With rollback it lets a New image run once.                   *)
(***************************************************************************)
Image(cells) ==
  IF \E r \in Releases : \A c \in 1 .. Chunks[r] : c <= SlotSize /\ cells[c] = r
  THEN CHOOSE r \in Releases :
         \A c \in 1 .. Chunks[r] : c <= SlotSize /\ cells[c] = r
  ELSE 0

SelectInvalid(entry) ==
  entry.ota_seq = SeqNone \/ entry.ota_state \in {"Invalid", "Aborted"}

Selectable(e) == {s \in Slots : ~SelectInvalid(e[s]) /\ ChecksumOk(e[s])}

Active(e) ==
  CHOOSE s \in Selectable(e) :
    \A t \in Selectable(e) : e[t].ota_seq <= e[s].ota_seq

Aborts(e) ==
  [s \in Slots |->
     IF Rollback /\ e[s].ota_state = "PendingVerify"
       THEN [e[s] EXCEPT !.ota_state = "Aborted"] ELSE e[s]]

FirstChoice(e) ==
  IF Selectable(e) = {} THEN 0 ELSE (e[Active(e)].ota_seq - 1) % 2

BootSlot(e, f) ==
  LET first == FirstChoice(Aborts(e))
  IN  IF Image(f[first]) # 0 THEN first ELSE 1 - first

BootEntries(e) ==
  LET a == Aborts(e)
  IN  IF \A s \in Slots : SelectInvalid(a[s]) /\ SlotSeq(a[s]) = SeqNone
      THEN [a EXCEPT ![0] = [ota_seq |-> 1, ota_state |-> "Valid", crc |-> 1]]
      ELSE IF Rollback /\ Selectable(a) # {}
                 /\ a[Active(a)].ota_state = "New"
      THEN [a EXCEPT ![Active(a)].ota_state = "PendingVerify"]
      ELSE a

-----------------------------------------------------------------------------
NoUpdate == [slot |-> 0, offset |-> 0, image |-> 0, seq |-> 0]

Init ==
  /\ pc = "reset"
  /\ entries = [s \in Slots |-> Erased]
  /\ flash = [s \in Slots |->
                [c \in 1 .. SlotSize |->
                   IF s = 0 /\ c <= Chunks[1] THEN 1 ELSE 0]]
  /\ running = [slot |-> 0, release |-> 1, newest |-> 1]
  /\ update = NoUpdate
  /\ pending = FALSE
  /\ latest = 1
  /\ faults = 0

Boot ==
  /\ pc = "reset"
  /\ LET s == BootSlot(entries, flash)
         image == Image(flash[s])
     IN  IF image = 0
         THEN pc' = "bricked" /\ UNCHANGED running
         ELSE /\ pc' = "check"
              /\ running' = [slot |-> s, release |-> image,
                             newest |-> IF image > running.newest
                                        THEN image ELSE running.newest]
  /\ entries' = BootEntries(entries)
  /\ UNCHANGED <<flash, update, pending, latest, faults>>

(***************************************************************************)
(* The server publishes a release at any time, also between the two        *)
(* requests of one update.                                                 *)
(***************************************************************************)
Publish ==
  /\ latest < MaxRelease
  /\ latest' = latest + 1
  /\ UNCHANGED <<pc, entries, flash, running, update, pending, faults>>

(***************************************************************************)
(* main_fallible: fetch the build date and, if it is newer, prepare.       *)
(***************************************************************************)
CheckReleaseMutant ==
  /\ pc = "check"
  /\ IF latest >= running.release
     THEN /\ update' = [NoUpdate EXCEPT !.slot = UpdateSlot(entries)]
          /\ pc' = "request"
     ELSE pc' = "spawn" /\ UNCHANGED update
  /\ UNCHANGED <<entries, flash, running, pending, latest, faults>>

CheckRelease ==
  /\ pc = "check"
  /\ IF latest > running.release
     THEN /\ update' = [NoUpdate EXCEPT !.slot = UpdateSlot(entries)]
          /\ pc' = "request"
     ELSE pc' = "spawn" /\ UNCHANGED update
  /\ UNCHANGED <<entries, flash, running, pending, latest, faults>>

RequestFirmware ==
  /\ pc = "request"
  /\ update' = [update EXCEPT !.image = latest]
  /\ pc' = "download"
  /\ UNCHANGED <<entries, flash, running, pending, latest, faults>>

(***************************************************************************)
(* Ota::write_update, for each buffer of the response.  An image that does *)
(* not fit ends in Error::TooLarge and main's deep sleep.                  *)
(***************************************************************************)
WriteUpdateMutant ==
  /\ pc = "download"
  /\ update.offset < Chunks[update.image]
  /\ flash' = [flash EXCEPT ![update.slot][update.offset + 1] = update.image]
  /\ update' = [update EXCEPT !.offset = @ + 1]
  /\ UNCHANGED <<pc, entries, running, pending, latest, faults>>

WriteUpdate ==
  /\ pc = "download"
  /\ update.offset < Chunks[update.image]
  /\ update.offset + 1 <= SlotSize
  /\ flash' = [flash EXCEPT ![update.slot][update.offset + 1] = update.image]
  /\ update' = [update EXCEPT !.offset = @ + 1]
  /\ UNCHANGED <<pc, entries, running, pending, latest, faults>>

(***************************************************************************)
(* Deep sleep, from main's error path or from /reboot: RAM is lost.        *)
(***************************************************************************)
DeepSleep ==
  /\ pc' = "reset"
  /\ update' = NoUpdate
  /\ pending' = FALSE
  /\ UNCHANGED <<entries, running, latest>>

TooLargeMutant ==
  /\ pc = "download"
  /\ update.offset < Chunks[update.image]
  /\ update.offset + 1 >= SlotSize
  /\ DeepSleep
  /\ UNCHANGED <<flash, faults>>

TooLarge ==
  /\ pc = "download"
  /\ update.offset < Chunks[update.image]
  /\ update.offset + 1 > SlotSize
  /\ DeepSleep
  /\ UNCHANGED <<flash, faults>>

DownloadEnds ==
  /\ pc = "download"
  /\ update.offset = Chunks[update.image]
  /\ pc' = "commit"
  /\ UNCHANGED <<entries, flash, running, update, pending, latest, faults>>

(***************************************************************************)
(* Without a Content-Length a connection that closes early looks like the  *)
(* end of the body.                                                        *)
(***************************************************************************)
DownloadCutShort ==
  /\ pc = "download"
  /\ ~Sized
  /\ update.offset < Chunks[update.image]
  /\ faults < MaxFaults
  /\ faults' = faults + 1
  /\ pc' = "commit"
  /\ UNCHANGED <<entries, flash, running, update, pending, latest>>

(***************************************************************************)
(* Ota::commit_update, in the two steps in which FlashStorage::write       *)
(* replaces the sector of the entry: erase, then program.                  *)
(***************************************************************************)
CommitErase ==
  /\ pc = "commit"
  /\ LET e == [s \in Slots |-> Reset(entries[s])]
     IN  IF CurrentSlot(e) # update.slot
         THEN pc' = "panicked" /\ UNCHANGED <<entries, update>>
         ELSE /\ entries' = [entries EXCEPT ![update.slot] = Erased]
              /\ update' = [update EXCEPT !.seq = NextSeq(e)]
              /\ pc' = "program"
  /\ UNCHANGED <<flash, running, pending, latest, faults>>

NewEntryMutant(seq) ==
  [ota_seq |-> seq, ota_state |-> "New", crc |-> Unchecked]

NewEntry(seq) == [ota_seq |-> seq, ota_state |-> "New", crc |-> seq]

CommitProgram ==
  /\ pc = "program"
  /\ entries' = [entries EXCEPT ![update.slot] = NewEntry(update.seq)]
  /\ pending' = TRUE
  /\ pc' = "spawn"
  /\ UNCHANGED <<flash, running, update, latest, faults>>

Spawn ==
  /\ pc = "spawn"
  /\ pc' = "serve"
  /\ UNCHANGED <<entries, flash, running, update, pending, latest, faults>>

Reboot ==
  /\ pc = "serve"
  /\ DeepSleep
  /\ UNCHANGED <<flash, faults>>

(***************************************************************************)
(* Any error before the tasks are spawned (DNS, HTTP, parsing, flash).     *)
(***************************************************************************)
StartupFails ==
  /\ pc \in {"check", "request", "download", "spawn"}
  /\ faults < MaxFaults
  /\ faults' = faults + 1
  /\ DeepSleep
  /\ UNCHANGED flash

(***************************************************************************)
(* Power fails.  The chunk or the entry being written is erased, half      *)
(* programmed with its checksum still missing, or untouched.               *)
(***************************************************************************)
TornEntries ==
  {entries[update.slot]}
    \cup {[ota_seq |-> update.seq, ota_state |-> st, crc |-> Unchecked] :
            st \in {"New", "Undefined"}}

TornChunks(c) == {flash[update.slot][c], 0}

PowerLoss ==
  /\ pc \notin {"reset", "bricked"}
  /\ faults < MaxFaults
  /\ faults' = faults + 1
  /\ pc' = "reset"
  /\ update' = NoUpdate
  /\ pending' = FALSE
  /\ \/ pc = "download" /\ update.offset < SlotSize
          /\ \E torn \in TornChunks(update.offset + 1) :
               flash' = [flash EXCEPT ![update.slot][update.offset + 1] = torn]
          /\ UNCHANGED entries
     \/ pc = "program"
          /\ \E torn \in TornEntries :
               entries' = [entries EXCEPT ![update.slot] = torn]
          /\ UNCHANGED flash
     \/ ~(pc = "download" /\ update.offset < SlotSize) /\ pc # "program"
          /\ UNCHANGED <<entries, flash>>
  /\ UNCHANGED <<running, latest>>

(***************************************************************************)
(* Code is fetched from the running partition: once that is overwritten    *)
(* the next fetch may fault.  A fault, like a panic, halts the CPU until   *)
(* somebody cycles the power.                                              *)
(***************************************************************************)
Clobbered ==
  /\ pc \in {"download", "commit", "program", "spawn", "serve"}
  /\ Image(flash[running.slot]) # running.release
  /\ pc' = "halted"
  /\ UNCHANGED <<entries, flash, running, update, pending, latest, faults>>

PowerCycle ==
  /\ pc \in {"halted", "panicked"}
  /\ pc' = "reset"
  /\ update' = NoUpdate
  /\ pending' = FALSE
  /\ UNCHANGED <<entries, flash, running, latest, faults>>

-----------------------------------------------------------------------------
Main ==
  \/ Boot
  \/ CheckRelease
  \/ RequestFirmware
  \/ WriteUpdate
  \/ TooLarge
  \/ DownloadEnds
  \/ CommitErase
  \/ CommitProgram
  \/ Spawn

Next ==
  \/ Main
  \/ Publish
  \/ DownloadCutShort
  \/ Reboot
  \/ StartupFails
  \/ PowerLoss
  \/ Clobbered
  \/ PowerCycle

Spec == Init /\ [][Next]_vars

(***************************************************************************)
(* Fairness: main_fallible runs on; errors are accounted for as faults.    *)
(***************************************************************************)
FairSpec == Spec /\ WF_vars(Main)

-----------------------------------------------------------------------------
(***************************************************************************)
(* Every variable keeps the type of the value it models.                   *)
(***************************************************************************)
TypeOK ==
  /\ pc \in {"reset", "bricked", "check", "request", "download", "commit",
             "program", "panicked", "spawn", "serve", "halted"}
  /\ entries \in [Slots -> OtaSelectEntry]
  /\ flash \in [Slots -> [1 .. SlotSize -> 0 .. MaxRelease]]
  /\ running \in [slot : Slots, release : Releases, newest : Releases]
  /\ update \in [slot : Slots, offset : 0 .. SlotSize,
                 image : 0 .. MaxRelease, seq : 0 .. SeqNone]
  /\ pending \in BOOLEAN
  /\ latest \in Releases
  /\ faults \in 0 .. MaxFaults

(***************************************************************************)
(* Wherever power fails and whatever was downloaded, one partition still   *)
(* holds an image the bootloader accepts, and it finds it.                 *)
(***************************************************************************)
Bootable == Image(flash[BootSlot(entries, flash)]) # 0

(***************************************************************************)
(* The firmware flashed by cable is never overwritten, over any number of  *)
(* updates, faults and restarts: update_slot and the bootloader's mark in  *)
(* entry 0 together keep every write out of partition 0.                   *)
(***************************************************************************)
CableImageKept == [][flash'[0] = flash[0]]_vars

(***************************************************************************)
(* set_current_slot agrees with the slot update_slot chose a download      *)
(* earlier: its assert_eq never fires.                                     *)
(***************************************************************************)
SlotsAgree ==
  /\ pc # "panicked"
  /\ pc = "commit" =>
       CurrentSlot([s \in Slots |-> Reset(entries[s])]) = update.slot

(***************************************************************************)
(* Once an update is pending the entry just written is the active one, of  *)
(* the highest valid sequence number, unless that has reached the value    *)
(* that means empty.  This is about entries only: the bootloader starts    *)
(* the partition that the parity of the number gives.                      *)
(***************************************************************************)
CommitIsActive ==
  pending /\ update.seq # SeqNone =>
    /\ Selectable(entries) # {}
    /\ Active(entries) = update.slot

(***************************************************************************)
(* What is downloaded and committed is newer than the firmware running and *)
(* no older than any the device has ever run, even when a release is       *)
(* published between the two requests and when the bootloader has gone     *)
(* back to an older partition.                                             *)
(***************************************************************************)
DownloadsGoForward ==
  pc \in {"commit", "program"} =>
    /\ running.release < update.image
    /\ running.newest <= update.image

LatestFits == Chunks[latest] <= SlotSize

(***************************************************************************)
(* A device that is rebooted again and again, with finitely many faults,   *)
(* ends up on the newest release if that fits a partition: a download cut  *)
(* short, a clobbered partition, a commit that selects the other partition *)
(* or a sequence number that has run out delays that and does not prevent  *)
(* it.                                                                     *)
(***************************************************************************)
EventuallyUpdated ==
  []<>(pc = "reset") /\ <>[]LatestFits => <>[](running.release = latest)

(***************************************************************************)
(* main's answer to every error, deep sleep and another attempt, gets the  *)
(* device to where its tasks are spawned again and again.  It stays away   *)
(* only if the newest release is too large, when every boot ends in        *)
(* Error::TooLarge before the tasks are spawned, or if the running         *)
(* firmware has been overwritten and nobody cycles the power.              *)
(***************************************************************************)
EventuallyServes ==
  []<>(pc = "serve") \/ <>[]~LatestFits \/ <>[](pc = "halted")

(***************************************************************************)
(* update_slot's comment: "we don't want to overwrite the current running  *)
(* firmware".                                                              *)
(***************************************************************************)
RunningSlotUntouched == pc = "download" => update.slot # running.slot

=============================================================================
