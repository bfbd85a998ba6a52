-------------------------------- MODULE Nvs --------------------------------
(***************************************************************************)
(* The WiFi credentials in the nvs partition: src/src/nvs.rs as            *)
(* main_fallible in src/src/bin/blind.rs uses it on every boot.  A         *)
(* firmware built with SSID and PASSWORD saves them; one built without     *)
(* reads them back.                                                        *)
(*                                                                         *)
(* All of the fields lie in one flash sector, and FlashStorage::write      *)
(* replaces a field by reading the sector, erasing it and programming it   *)
(* again from its first byte on.  A string is abstracted to a name and its *)
(* length; erased flash reads as all ones.                                 *)
(***************************************************************************)
EXTENDS Naturals

CONSTANTS
  Pairs,     \* [ssid, password] pairs that firmware is built with
  NoPair,    \* firmware built without credentials
  Length,    \* the length of each ssid and password
  MaxLosses  \* bound: power losses

Strings == {p.ssid : p \in Pairs} \cup {p.password : p \in Pairs}

BlankLength == 255

ASSUME NvsAssumption ==
  /\ NoPair \notin Pairs
  /\ \A p \in Pairs : p = [ssid |-> p.ssid, password |-> p.password]
  /\ Length \in [Strings -> 1 .. BlankLength - 1]
  /\ Strings \cap {"blank", "torn", "garbled", "not utf8"} = {}
  /\ MaxLosses \in Nat

VARIABLES
  pc,           \* where main_fallible is
  fw,           \* the pair the running firmware was built with, or NoPair
  sector,       \* the fields in flash
  buf,          \* what is about to be programmed, or NoBuf
  k,            \* number of the next write of the save
  creds,        \* the pair handed to wifi::connect
  provisioned,  \* history: the pair whose save completed last
  losses        \* power losses so far, for the bound

vars == <<pc, fw, sector, buf, k, creds, provisioned, losses>>

Firmwares == Pairs \cup {NoPair}

(***************************************************************************)
(* The fields in the order of their offsets.  MAGIC is "valid"; anything   *)
(* else is not.                                                            *)
(***************************************************************************)
Blank ==
  [magic |-> "blank", ssid_len |-> BlankLength, ssid |-> "blank",
   password_len |-> BlankLength, password |-> "blank"]

NoBuf == [Blank EXCEPT !.magic = "none"]

(***************************************************************************)
(* What a power loss leaves of a sector that was being programmed: the     *)
(* first fields, perhaps the first bytes of the next, all ones after that. *)
(***************************************************************************)
Cut(image, ssid_len, ssid, password_len, password) ==
  [magic |-> image.magic, ssid_len |-> ssid_len, ssid |-> ssid,
   password_len |-> password_len, password |-> password]

TornSectors(image) ==
  LET Lost == BlankLength
      Ssid == image.ssid_len
      Password == image.password_len
  IN  {Blank, image,
       Cut(image, Lost, "blank", Lost, "blank"),
       Cut(image, Ssid, "blank", Lost, "blank"),
       Cut(image, Ssid, "torn", Lost, "blank"),
       Cut(image, Ssid, image.ssid, Lost, "blank"),
       Cut(image, Ssid, image.ssid, Password, "blank"),
       Cut(image, Ssid, image.ssid, Password, "torn")}

(***************************************************************************)
(* The writes of a save, in order: the sector after write number n.        *)
(***************************************************************************)
SaveWrites == 6

WriteUnclearedMutant(s, pair, n) ==
  CASE n = 1 -> s
    [] n = 2 -> [s EXCEPT !.ssid_len = Length[pair.ssid]]
    [] n = 3 -> [s EXCEPT !.ssid = pair.ssid]
    [] n = 4 -> [s EXCEPT !.password_len = Length[pair.password]]
    [] n = 5 -> [s EXCEPT !.password = pair.password]
    [] n = 6 -> [s EXCEPT !.magic = "valid"]

WriteUnmarkedMutant(s, pair, n) ==
  CASE n \in {1, 6} -> [s EXCEPT !.magic = "clear"]
    [] n = 2 -> [s EXCEPT !.ssid_len = Length[pair.ssid]]
    [] n = 3 -> [s EXCEPT !.ssid = pair.ssid]
    [] n = 4 -> [s EXCEPT !.password_len = Length[pair.password]]
    [] n = 5 -> [s EXCEPT !.password = pair.password]

Write(s, pair, n) ==
  CASE n = 1 -> [s EXCEPT !.magic = "clear"]
    [] n = 2 -> [s EXCEPT !.ssid_len = Length[pair.ssid]]
    [] n = 3 -> [s EXCEPT !.ssid = pair.ssid]
    [] n = 4 -> [s EXCEPT !.password_len = Length[pair.password]]
    [] n = 5 -> [s EXCEPT !.password = pair.password]
    [] n = 6 -> [s EXCEPT !.magic = "valid"]

Init ==
  /\ pc = "boot"
  /\ fw \in Firmwares
  /\ sector = Blank
  /\ buf = NoBuf
  /\ k = 1
  /\ creds = NoPair
  /\ provisioned = NoPair
  /\ losses = 0

-----------------------------------------------------------------------------
(***************************************************************************)
(* The two steps of a write.                                               *)
(***************************************************************************)
Erase(image) ==
  /\ buf = NoBuf
  /\ buf' = image
  /\ sector' = Blank

Program ==
  /\ buf # NoBuf
  /\ sector' = buf
  /\ buf' = NoBuf

(***************************************************************************)
(* Firmware with credentials: set_valid(false), four writes and            *)
(* set_valid(true), on every boot.                                         *)
(***************************************************************************)
StartSave ==
  /\ pc = "boot"
  /\ fw # NoPair
  /\ pc' = "save"
  /\ k' = 1
  /\ UNCHANGED <<fw, sector, buf, creds, provisioned, losses>>

SaveErase ==
  /\ pc = "save"
  /\ Erase(Write(sector, fw, k))
  /\ provisioned' = NoPair
  /\ UNCHANGED <<pc, fw, k, creds, losses>>

SaveProgramMutant ==
  /\ pc = "save"
  /\ Program
  /\ k' = k + 1
  /\ UNCHANGED <<pc, fw, creds, provisioned, losses>>

SaveProgram ==
  /\ pc = "save"
  /\ k < SaveWrites
  /\ Program
  /\ k' = k + 1
  /\ UNCHANGED <<pc, fw, creds, provisioned, losses>>

SaveCompletes ==
  /\ pc = "save"
  /\ k = SaveWrites
  /\ Program
  /\ pc' = "up"
  /\ creds' = fw
  /\ provisioned' = fw
  /\ UNCHANGED <<fw, k, losses>>

(***************************************************************************)
(* Firmware without credentials.  A length of all ones does not fit the    *)
(* buffer (an error); bytes of all ones are not UTF-8 (the partition is    *)
(* marked invalid, then an error).                                         *)
(***************************************************************************)
Text(len, bytes) ==
  IF bytes \in {"blank", "torn"} THEN "not utf8"
  ELSE IF Length[bytes] = len THEN bytes ELSE "garbled"

Fits(s) == s.ssid_len # BlankLength /\ s.password_len # BlankLength

StoredPair(s) ==
  [ssid |-> Text(s.ssid_len, s.ssid),
   password |-> Text(s.password_len, s.password)]

Utf8(s) ==
  StoredPair(s).ssid # "not utf8" /\ StoredPair(s).password # "not utf8"

LoadCredentials ==
  /\ pc = "boot"
  /\ fw = NoPair
  /\ sector.magic = "valid"
  /\ Fits(sector)
  /\ Utf8(sector)
  /\ creds' = StoredPair(sector)
  /\ pc' = "up"
  /\ UNCHANGED <<fw, sector, buf, k, provisioned, losses>>

LoadFails ==
  /\ pc = "boot"
  /\ fw = NoPair
  /\ sector.magic # "valid" \/ ~Fits(sector)
  /\ pc' = "failed"
  /\ UNCHANGED <<fw, sector, buf, k, creds, provisioned, losses>>

LoadFindsGarbage ==
  /\ pc = "boot"
  /\ fw = NoPair
  /\ sector.magic = "valid"
  /\ Fits(sector)
  /\ ~Utf8(sector)
  /\ pc' = "revoke"
  /\ Erase([sector EXCEPT !.magic = "clear"])
  /\ UNCHANGED <<fw, k, creds, provisioned, losses>>

Revoke ==
  /\ pc = "revoke"
  /\ Program
  /\ pc' = "failed"
  /\ UNCHANGED <<fw, k, creds, provisioned, losses>>

-----------------------------------------------------------------------------
(***************************************************************************)
(* main's deep sleep after an error.                                       *)
(***************************************************************************)
Retry ==
  /\ pc = "failed"
  /\ pc' = "boot"
  /\ UNCHANGED <<fw, sector, buf, k, creds, provisioned, losses>>

(***************************************************************************)
(* A restart of a running device, with the same firmware or with what an   *)
(* update or a cable has installed meanwhile.                              *)
(***************************************************************************)
Restart ==
  /\ pc = "up"
  /\ pc' = "boot"
  /\ fw' \in Firmwares
  /\ creds' = NoPair
  /\ k' = 1
  /\ UNCHANGED <<sector, buf, provisioned, losses>>

(***************************************************************************)
(* A power loss at any point, after which the same or, flashed by cable,   *)
(* another firmware runs.                                                  *)
(***************************************************************************)
PowerLoss ==
  /\ losses < MaxLosses
  /\ losses' = losses + 1
  /\ pc' = "boot"
  /\ fw' \in Firmwares
  /\ sector' \in IF buf = NoBuf THEN {sector} ELSE TornSectors(buf)
  /\ buf' = NoBuf
  /\ k' = 1
  /\ creds' = NoPair
  /\ UNCHANGED provisioned

Next ==
  \/ StartSave
  \/ SaveErase
  \/ SaveProgram
  \/ SaveCompletes
  \/ LoadCredentials
  \/ LoadFails
  \/ LoadFindsGarbage
  \/ Revoke
  \/ Retry
  \/ Restart
  \/ PowerLoss

Spec == Init /\ [][Next]_vars

-----------------------------------------------------------------------------
(***************************************************************************)
(* Every variable keeps the type of the value it models.                   *)
(***************************************************************************)
Sectors ==
  [magic : {"blank", "clear", "valid", "none"},
   ssid_len : 1 .. BlankLength,
   ssid : Strings \cup {"blank", "torn"},
   password_len : 1 .. BlankLength,
   password : Strings \cup {"blank", "torn"}]

TypeOK ==
  /\ pc \in {"boot", "save", "up", "revoke", "failed"}
  /\ fw \in Firmwares
  /\ sector \in Sectors /\ sector.magic # "none"
  /\ buf \in Sectors
  /\ k \in 1 .. SaveWrites
  /\ creds \in Firmwares
  /\ provisioned \in Firmwares
  /\ losses \in 0 .. MaxLosses

(***************************************************************************)
(* The nvs partition implements CredentialStore.  What a firmware without  *)
(* credentials would read is nothing or one whole pair some firmware was   *)
(* built with: never the name of one network and the password of another,  *)
(* never a half-written string, wherever power failed.                     *)
(***************************************************************************)
Readable(s) ==
  IF s.magic = "valid" /\ Fits(s) /\ Utf8(s) THEN StoredPair(s) ELSE NoPair

Store == INSTANCE CredentialStore WITH stored <- Readable(sector)

ImplementsStore == Store!Spec

(***************************************************************************)
(* "after the first run these will be saved to NVS and will perist through *)
(* future flashes": once a save has completed and until the next begins,   *)
(* firmware without credentials comes up with exactly that pair.           *)
(***************************************************************************)
Persists ==
  provisioned # NoPair =>
    /\ Readable(sector) = provisioned
    /\ fw = NoPair => pc \notin {"failed", "revoke"}

=============================================================================
