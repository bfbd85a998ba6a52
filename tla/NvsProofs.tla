----------------------------- MODULE NvsProofs -----------------------------
(***************************************************************************)
(* Proofs about Nvs for every set of credentials, every length of their    *)
(* strings and any number of power losses: the sector implements           *)
(* CredentialStore, and a completed save persists.                         *)
(***************************************************************************)
EXTENDS Nvs, TLAPS

(***************************************************************************)
(* How far the save of fw has come in sector s, after its first n writes.  *)
(***************************************************************************)
Written(s, n) ==
  /\ n >= 1 => s.magic = IF n = 6 THEN "valid" ELSE "clear"
  /\ n >= 2 => s.ssid_len = Length[fw.ssid]
  /\ n >= 3 => s.ssid = fw.ssid
  /\ n >= 4 => s.password_len = Length[fw.password]
  /\ n >= 5 => s.password = fw.password

(***************************************************************************)
(* The contents of flash and buffer at every point of main_fallible.       *)
(***************************************************************************)
SectorInv ==
  /\ Readable(sector) \in Firmwares
  /\ pc = "save" => fw \in Pairs
  /\ pc = "save" /\ buf = NoBuf => Written(sector, k - 1)
  /\ pc = "save" /\ buf # NoBuf => sector = Blank /\ Written(buf, k)
  /\ pc = "revoke" => buf # NoBuf /\ sector = Blank /\ buf.magic = "clear"
  /\ pc \in {"boot", "up", "failed"} => buf = NoBuf

(***************************************************************************)
(* While a completed save is on record nothing has been erased since.      *)
(***************************************************************************)
HistoryInv ==
  provisioned # NoPair =>
    /\ Readable(sector) = provisioned
    /\ buf = NoBuf
    /\ pc # "revoke"
    /\ fw = NoPair => pc # "failed"

NvsInv == TypeOK /\ SectorInv /\ HistoryInv

-----------------------------------------------------------------------------
(***************************************************************************)
(* Erased flash, or a sector without MAGIC, holds no pair.                 *)
(***************************************************************************)
LEMMA NotValid ==
  ASSUME NEW s, s.magic # "valid"
  PROVE  Readable(s) = NoPair
BY DEF Readable

(***************************************************************************)
(* The bound on power losses is a number.                                  *)
(***************************************************************************)
LEMMA LossBound == MaxLosses \in Nat
BY NvsAssumption

(***************************************************************************)
(* Erased flash holds no pair and is not the empty buffer.                 *)
(***************************************************************************)
LEMMA BlankReads == Readable(Blank) = NoPair /\ Blank # NoBuf
BY NotValid DEF Blank, NoBuf

(***************************************************************************)
(* The strings of a pair are told apart from what erased flash reads as.   *)
(***************************************************************************)
LEMMA PairStrings ==
  ASSUME NEW p \in Pairs
  PROVE  /\ p = [ssid |-> p.ssid, password |-> p.password]
         /\ p.ssid \in Strings /\ p.password \in Strings
         /\ p.ssid \notin {"blank", "torn", "not utf8"}
         /\ p.password \notin {"blank", "torn", "not utf8"}
         /\ Length[p.ssid] \in 1 .. BlankLength - 1
         /\ Length[p.password] \in 1 .. BlankLength - 1
         /\ p # NoPair
<1>1. p.ssid \in Strings /\ p.password \in Strings
  BY DEF Strings
<1>2. Strings \cap {"blank", "torn", "garbled", "not utf8"} = {}
  BY NvsAssumption
<1>3. Length \in [Strings -> 1 .. BlankLength - 1]
  BY NvsAssumption
<1>4. p = [ssid |-> p.ssid, password |-> p.password] /\ p # NoPair
  BY NvsAssumption
<1> QED
  BY <1>1, <1>2, <1>3, <1>4

(***************************************************************************)
(* A complete save reads back as the pair that was saved.                  *)
(***************************************************************************)
Holds(s, p) ==
  /\ s.magic = "valid"
  /\ s.ssid_len = Length[p.ssid] /\ s.ssid = p.ssid
  /\ s.password_len = Length[p.password] /\ s.password = p.password

(***************************************************************************)
(* Reading a sector that holds a pair yields that pair.                    *)
(***************************************************************************)
LEMMA WholePair ==
  ASSUME NEW p \in Pairs, NEW s, Holds(s, p)
  PROVE  Readable(s) = p
<1>1. /\ p = [ssid |-> p.ssid, password |-> p.password]
      /\ p.ssid \notin {"blank", "torn", "not utf8"}
      /\ p.password \notin {"blank", "torn", "not utf8"}
      /\ Length[p.ssid] \in 1 .. BlankLength - 1
      /\ Length[p.password] \in 1 .. BlankLength - 1
  BY PairStrings
<1>2. /\ Text(s.ssid_len, s.ssid) = p.ssid
      /\ Text(s.password_len, s.password) = p.password
  BY <1>1 DEF Holds, Text
<1>3. StoredPair(s) = p
  BY <1>1, <1>2 DEF StoredPair
<1>4. Fits(s)
  <2>1. \A n \in 1 .. BlankLength - 1 : n # BlankLength
    BY DEF BlankLength
  <2> QED
    BY <1>1, <2>1 DEF Holds, Fits
<1>5. Utf8(s)
  BY <1>1, <1>3 DEF Utf8
<1> QED
  BY <1>3, <1>4, <1>5 DEF Readable, Holds

(***************************************************************************)
(* Interrupting the programming of a sector without MAGIC leaves none, and *)
(* interrupting the last write of a save leaves all or nothing.            *)
(***************************************************************************)
LEMMA TornClear ==
  ASSUME NEW image, image.magic = "clear", NEW t \in TornSectors(image)
  PROVE  Readable(t) = NoPair
<1>1. t.magic # "valid"
  BY DEF TornSectors, Cut, Blank
<1> QED
  BY <1>1, NotValid

(***************************************************************************)
(* A cut before the last byte shows: a length that does not fit, or bytes  *)
(* that are not UTF-8.                                                     *)
(***************************************************************************)
LEMMA TornPair ==
  ASSUME NEW p \in Pairs, NEW image, Holds(image, p),
         NEW t \in TornSectors(image)
  PROVE  Readable(t) \in {NoPair, p}
<1>1. \/ t = image
      \/ t.password_len = BlankLength
      \/ t.password = "torn"
      \/ t.password = "blank"
  BY DEF TornSectors, Cut, Blank
<1>2. CASE t = image
  BY <1>2, WholePair
<1>3. CASE t.password_len = BlankLength
  BY <1>3 DEF Readable, Fits
<1>4. CASE t.password \in {"torn", "blank"}
  <2>1. Text(t.password_len, t.password) = "not utf8"
    BY <1>4 DEF Text
  <2>2. ~Utf8(t)
    BY <2>1 DEF Utf8, StoredPair
  <2> QED
    BY <2>2 DEF Readable
<1> QED
  BY <1>1, <1>2, <1>3, <1>4

(***************************************************************************)
(* Every tear of a typed sector is typed.                                  *)
(***************************************************************************)
LEMMA TornType ==
  ASSUME NEW image \in Sectors, image.magic # "none",
         NEW t \in TornSectors(image)
  PROVE  t \in Sectors /\ t.magic # "none"
BY DEF TornSectors, Cut, Sectors, Blank, BlankLength

(***************************************************************************)
(* Erased flash and the empty buffer are typed.                            *)
(***************************************************************************)
LEMMA BlankType ==
  /\ Blank \in Sectors /\ Blank.magic # "none"
  /\ NoBuf \in Sectors /\ NoBuf.magic = "none"
BY DEF Sectors, Blank, NoBuf, BlankLength

(***************************************************************************)
(* Write number n of a save, on a sector the first n - 1 have been made    *)
(* on.                                                                     *)
(***************************************************************************)
LEMMA WriteStep ==
  ASSUME fw \in Pairs, NEW s \in Sectors, s.magic # "none",
         NEW n \in 1 .. SaveWrites, Written(s, n - 1)
  PROVE  /\ Write(s, fw, n) \in Sectors
         /\ Write(s, fw, n).magic # "none"
         /\ Written(Write(s, fw, n), n)
<1>1. /\ fw.ssid \in Strings /\ fw.password \in Strings
      /\ Length[fw.ssid] \in 1 .. BlankLength
      /\ Length[fw.password] \in 1 .. BlankLength
  <2>1. \A m \in 1 .. BlankLength - 1 : m \in 1 .. BlankLength
    BY DEF BlankLength
  <2> QED
    BY <2>1, PairStrings
<1>2. n \in {1, 2, 3, 4, 5, 6}
  BY DEF SaveWrites
<1>3. CASE n = 1
  BY <1>3 DEF Write, Written, Sectors
<1>4. CASE n = 2
  BY <1>1, <1>4 DEF Write, Written, Sectors
<1>5. CASE n = 3
  BY <1>1, <1>5 DEF Write, Written, Sectors
<1>6. CASE n = 4
  BY <1>1, <1>6 DEF Write, Written, Sectors
<1>7. CASE n = 5
  BY <1>1, <1>7 DEF Write, Written, Sectors
<1>8. CASE n = 6
  BY <1>8 DEF Write, Written, Sectors
<1> QED
  BY <1>2, <1>3, <1>4, <1>5, <1>6, <1>7, <1>8

(***************************************************************************)
(* When the last write of a save is in the buffer it holds the pair.       *)
(***************************************************************************)
LEMMA WrittenHolds ==
  ASSUME NEW s, Written(s, 6)
  PROVE  Holds(s, fw)
BY DEF Written, Holds

-----------------------------------------------------------------------------
(***************************************************************************)
(* NvsInv is inductive.                                                    *)
(***************************************************************************)
LEMMA NvsInductive ==
  ASSUME NvsInv, [Next]_vars
  PROVE  NvsInv'
<1> USE DEF NvsInv
<1>1. CASE StartSave
  <2>1. TypeOK'
    BY <1>1 DEF StartSave, TypeOK, SaveWrites
  <2>2. SectorInv'
    BY <1>1 DEF StartSave, SectorInv, TypeOK, Firmwares, Written
  <2>3. HistoryInv'
    BY <1>1 DEF StartSave, HistoryInv
  <2> QED
    BY <2>1, <2>2, <2>3
<1>2. CASE SaveErase
  <2>1. fw \in Pairs /\ buf = NoBuf /\ Written(sector, k - 1)
    BY <1>2 DEF SaveErase, Erase, SectorInv
  <2>2. /\ buf' \in Sectors /\ buf'.magic # "none" /\ Written(buf', k)
        /\ sector' = Blank
    <3>1. sector \in Sectors /\ sector.magic # "none" /\ k \in 1 .. SaveWrites
      BY DEF TypeOK
    <3>2. buf' = Write(sector, fw, k) /\ sector' = Blank
      BY <1>2 DEF SaveErase, Erase
    <3> QED
      BY <2>1, <3>1, <3>2, WriteStep
  <2>3. buf' # NoBuf
    BY <2>2, BlankType
  <2>4. /\ pc' = pc /\ fw' = fw /\ k' = k /\ provisioned' = NoPair
        /\ creds' = creds /\ losses' = losses /\ pc = "save"
    BY <1>2 DEF SaveErase
  <2>5. TypeOK'
    BY <2>2, <2>4, BlankType DEF TypeOK, Firmwares
  <2>6. Written(buf, k)'
    BY <2>2, <2>4 DEF Written
  <2>7. SectorInv'
    BY <2>1, <2>2, <2>3, <2>4, <2>6, BlankReads DEF SectorInv, Firmwares
  <2>8. HistoryInv'
    BY <2>4 DEF HistoryInv
  <2> QED
    BY <2>5, <2>7, <2>8
<1>3. CASE SaveProgram
  <2>1. /\ fw \in Pairs /\ Written(buf, k) /\ k \in 1 .. 5
    BY <1>3 DEF SaveProgram, Program, SectorInv, TypeOK, SaveWrites
  <2>2. /\ pc' = pc /\ fw' = fw /\ provisioned' = provisioned
        /\ creds' = creds /\ losses' = losses /\ k' = k + 1
        /\ sector' = buf /\ buf' = NoBuf /\ pc = "save" /\ buf # NoBuf
    BY <1>3 DEF SaveProgram, Program
  <2>3. buf.magic = "clear"
    BY <2>1 DEF Written
  <2>4. TypeOK'
    BY <2>1, <2>2, <2>3, BlankType DEF TypeOK, SaveWrites
  <2>5. Readable(sector') = NoPair
    BY <2>2, <2>3, NotValid
  <2>6. Written(sector, k - 1)'
    BY <2>1, <2>2 DEF Written
  <2>7. SectorInv'
    BY <2>1, <2>2, <2>5, <2>6 DEF SectorInv, Firmwares
  <2>8. HistoryInv'
    BY <2>2 DEF HistoryInv
  <2> QED
    BY <2>4, <2>7, <2>8
<1>4. CASE SaveCompletes
  <2>1. fw \in Pairs /\ Written(buf, 6)
    BY <1>4 DEF SaveCompletes, Program, SectorInv, SaveWrites
  <2>2. /\ pc' = "up" /\ fw' = fw /\ provisioned' = fw /\ creds' = fw
        /\ losses' = losses /\ k' = k /\ sector' = buf /\ buf' = NoBuf
    BY <1>4 DEF SaveCompletes, Program
  <2>3. Readable(sector') = fw /\ buf.magic = "valid"
    BY <2>1, <2>2, WrittenHolds, WholePair DEF Holds
  <2>4. fw # NoPair
    BY <2>1, PairStrings
  <2>5. TypeOK'
    BY <2>2, <2>3, BlankType DEF TypeOK
  <2>6. SectorInv'
    BY <2>1, <2>2, <2>3 DEF SectorInv, Firmwares
  <2>7. HistoryInv'
    BY <2>2, <2>3, <2>4 DEF HistoryInv
  <2> QED
    BY <2>5, <2>6, <2>7
<1>5. CASE LoadCredentials
  <2>1. creds' = Readable(sector)
    BY <1>5 DEF LoadCredentials, Readable
  <2>2. TypeOK'
    BY <1>5, <2>1 DEF LoadCredentials, TypeOK, SectorInv
  <2>3. SectorInv'
    BY <1>5 DEF LoadCredentials, SectorInv
  <2>4. HistoryInv'
    BY <1>5 DEF LoadCredentials, HistoryInv
  <2> QED
    BY <2>2, <2>3, <2>4
<1>6. CASE LoadFails
  <2>1. Readable(sector) = NoPair
    BY <1>6 DEF LoadFails, Readable
  <2>2. TypeOK' /\ SectorInv'
    BY <1>6 DEF LoadFails, TypeOK, SectorInv
  <2>3. HistoryInv'
    BY <1>6, <2>1 DEF LoadFails, HistoryInv
  <2> QED
    BY <2>2, <2>3
<1>7. CASE LoadFindsGarbage
  <2>1. Readable(sector) = NoPair
    BY <1>7 DEF LoadFindsGarbage, Readable
  <2>2. /\ pc' = "revoke" /\ fw' = fw /\ k' = k /\ creds' = creds
        /\ provisioned' = provisioned /\ losses' = losses
        /\ sector' = Blank /\ buf' = [sector EXCEPT !.magic = "clear"]
    BY <1>7 DEF LoadFindsGarbage, Erase
  <2>3. buf' \in Sectors /\ buf'.magic = "clear"
    BY <2>2 DEF TypeOK, Sectors
  <2>4. buf' # NoBuf
    BY <2>3, BlankType
  <2>5. TypeOK'
    BY <2>2, <2>3, BlankType DEF TypeOK
  <2>6. SectorInv'
    BY <2>2, <2>3, <2>4, BlankReads DEF SectorInv, Firmwares
  <2>7. HistoryInv'
    BY <2>1, <2>2 DEF HistoryInv
  <2> QED
    BY <2>5, <2>6, <2>7
<1>8. CASE Revoke
  <2>1. /\ pc' = "failed" /\ fw' = fw /\ k' = k /\ creds' = creds
        /\ provisioned' = provisioned /\ losses' = losses
        /\ sector' = buf /\ buf' = NoBuf /\ buf.magic = "clear"
        /\ pc = "revoke"
    BY <1>8 DEF Revoke, Program, SectorInv
  <2>2. Readable(sector') = NoPair
    BY <2>1, NotValid
  <2>3. TypeOK'
    BY <2>1, BlankType DEF TypeOK
  <2>4. SectorInv'
    BY <2>1, <2>2 DEF SectorInv, Firmwares
  <2>5. HistoryInv'
    BY <2>1 DEF HistoryInv
  <2> QED
    BY <2>3, <2>4, <2>5
<1>9. CASE Retry
  BY <1>9 DEF Retry, TypeOK, SectorInv, HistoryInv
<1>10. CASE Restart
  BY <1>10 DEF Restart, TypeOK, SectorInv, HistoryInv, SaveWrites, Firmwares
<1>11. CASE PowerLoss
  <2>1. /\ pc' = "boot" /\ fw' \in Firmwares /\ buf' = NoBuf /\ k' = 1
        /\ creds' = NoPair /\ provisioned' = provisioned
        /\ losses' \in 0 .. MaxLosses
    BY <1>11, LossBound DEF PowerLoss, TypeOK
  <2>2. /\ sector' \in Sectors /\ sector'.magic # "none"
        /\ Readable(sector') \in Firmwares
        /\ buf = NoBuf => sector' = sector
    <3>1. CASE buf = NoBuf
      BY <1>11, <3>1 DEF PowerLoss, TypeOK, SectorInv
    <3>2. CASE buf # NoBuf /\ buf.magic = "clear"
      BY <1>11, <3>2, TornClear, TornType DEF PowerLoss, TypeOK, Firmwares
    <3>3. CASE buf # NoBuf /\ buf.magic # "clear"
      <4>1. fw \in Pairs /\ Written(buf, k) /\ k \in 1 .. 6
        BY <3>3 DEF SectorInv, TypeOK, SaveWrites
      <4>2. k = 6
        BY <3>3, <4>1 DEF Written
      <4>3. Holds(buf, fw) /\ buf.magic = "valid"
        BY <4>1, <4>2, WrittenHolds DEF Holds
      <4>4. sector' \in TornSectors(buf)
        BY <1>11, <3>3 DEF PowerLoss
      <4> QED
        BY <3>3, <4>1, <4>3, <4>4, TornPair, TornType DEF TypeOK, Firmwares
    <3> QED
      BY <3>1, <3>2, <3>3
  <2>3. TypeOK'
    BY <2>1, <2>2, BlankType DEF TypeOK, Firmwares, SaveWrites
  <2>4. SectorInv'
    BY <2>1, <2>2 DEF SectorInv
  <2>5. HistoryInv'
    BY <2>1, <2>2 DEF HistoryInv
  <2> QED
    BY <2>3, <2>4, <2>5
<1>12. CASE UNCHANGED vars
  BY <1>12 DEF vars, TypeOK, SectorInv, HistoryInv, Written
<1> QED
  BY <1>1, <1>2, <1>3, <1>4, <1>5, <1>6, <1>7, <1>8, <1>9, <1>10, <1>11,
     <1>12 DEF Next

(***************************************************************************)
(* Every state of the save, the load and what tears leave of them.         *)
(***************************************************************************)
LEMMA NvsInvariant == Spec => []NvsInv
<1>1. Init => NvsInv
  <2> SUFFICES ASSUME Init
               PROVE  NvsInv
    OBVIOUS
  <2>1. TypeOK
    BY BlankType, LossBound DEF Init, TypeOK, Firmwares, SaveWrites
  <2>2. SectorInv
    BY BlankReads DEF Init, SectorInv, Firmwares
  <2>3. HistoryInv
    BY DEF Init, HistoryInv
  <2> QED
    BY <2>1, <2>2, <2>3 DEF NvsInv
<1> QED
  BY <1>1, NvsInductive, PTL DEF Spec

(***************************************************************************)
(* Type correctness: no write or tear leaves a field that main_fallible    *)
(* could not have written or erased, and what it hands to wifi::connect is *)
(* a pair that some firmware was built with, never a garbled one.          *)
(***************************************************************************)
THEOREM TypeCorrect == Spec => []TypeOK
<1>1. NvsInv => TypeOK
  BY DEF NvsInv
<1> QED
  BY <1>1, NvsInvariant, PTL

(***************************************************************************)
(* A completed save survives every restart and power loss until the next   *)
(* save begins, and firmware without credentials comes up with it.         *)
(***************************************************************************)
THEOREM SavePersists == Spec => []Persists
<1>1. NvsInv => Persists
  BY DEF NvsInv, HistoryInv, Persists
<1> QED
  BY <1>1, NvsInvariant, PTL

(***************************************************************************)
(* The sector implements the register of whole pairs: no interleaving of   *)
(* writes, tears and firmwares makes a mixed or partial pair readable.     *)
(***************************************************************************)
THEOREM StoreImplemented == Spec => ImplementsStore
<1>1. Init => Store!Init
  BY BlankReads DEF Init, Store!Init
<1>2. NvsInv /\ [Next]_vars => [Store!Next]_(Readable(sector))
  <2> SUFFICES ASSUME NvsInv, [Next]_vars
               PROVE  \/ Readable(sector') = Readable(sector)
                      \/ Readable(sector') = NoPair
                      \/ /\ Readable(sector) = NoPair
                         /\ Readable(sector') \in Pairs
    BY DEF Store!Next, Store!Forget, Store!Save
  <2>0. Readable(sector') \in Firmwares
    <3>1. NvsInv'
      BY NvsInductive
    <3> QED
      BY <3>1 DEF NvsInv, SectorInv
  <2> USE DEF NvsInv
  <2>1. CASE sector' = sector
    BY <2>1
  <2>2. CASE sector' = Blank
    BY <2>2, BlankReads
  <2>3. CASE SaveProgram \/ SaveCompletes \/ Revoke
    <3>1. sector = Blank /\ sector' = buf
      BY <2>3 DEF SaveProgram, SaveCompletes, Revoke, Program, SectorInv
    <3>2. Readable(sector) = NoPair
      BY <3>1, BlankReads
    <3>3. Readable(sector') \in Firmwares
      BY <2>0
    <3> QED
      BY <3>2, <3>3 DEF Firmwares
  <2>4. CASE PowerLoss /\ sector' # sector
    <3>1. buf # NoBuf
      BY <2>4 DEF PowerLoss
    <3>2. sector = Blank
      BY <3>1 DEF SectorInv, TypeOK
    <3>3. Readable(sector) = NoPair
      BY <3>2, BlankReads
    <3>4. Readable(sector') \in Firmwares
      BY <2>0
    <3> QED
      BY <3>3, <3>4 DEF Firmwares
  <2> QED
    BY <2>1, <2>2, <2>3, <2>4
       DEF Next, vars, StartSave, SaveErase, Erase, LoadCredentials, LoadFails,
           LoadFindsGarbage, Retry, Restart
<1> QED
  BY <1>1, <1>2, NvsInvariant, PTL DEF Spec, ImplementsStore, Store!Spec

=============================================================================
