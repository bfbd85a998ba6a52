----------------------------- MODULE WifiProofs -----------------------------
(***************************************************************************)
(* Proofs about Wifi, for any networks and access points and any number of *)
(* faults: types, the consistency of the cached access point, and what     *)
(* shutting WiFi down means.                                               *)
(***************************************************************************)
EXTENDS Wifi, TLAPS

(***************************************************************************)
(* The inductive invariant, in parts.                                      *)
(*                                                                         *)
(* An access point that is on the air belongs to its network.              *)
(***************************************************************************)
AirInv == \A s \in Ssids : air[s] # None => air[s].ssid = s

(***************************************************************************)
(* Only a task that called connect_async has a link; before connect there  *)
(* is no task, and main is past the wait for the link only if the task has *)
(* begun.                                                                  *)
(***************************************************************************)
LinkInv ==
  /\ radio.ap # None => task \in {"up", "dead"}
  /\ main = "boot" => task = "none"
  /\ main \in {"address", "request", "serve"} => task \notin {"none", "start"}

(***************************************************************************)
(* A cached access point is one of the cached network, and an authentic-   *)
(* ation without an access point is the default, unless it is the leftover *)
(* of another network that the task will clear when it starts.             *)
(***************************************************************************)
AuthOf(ap) == IF ap.auth = UnknownAuth THEN DefaultAuth ELSE ap.auth

CacheInv ==
  /\ rtc.bssid # None =>
       \E ap \in Aps : /\ ap.ssid = rtc.ssid
                       /\ ap.bssid = rtc.bssid
                       /\ rtc.auth = AuthOf(ap)
  /\ rtc.bssid = None /\ rtc.ssid \in {None, ssid} => rtc.auth = DefaultAuth
  /\ task \notin {"none", "start"} => rtc.ssid = ssid
  /\ task = "scan" => rtc.bssid = None
  /\ task \in {"stop", "configure", "connect", "up"} => rtc.bssid # None

(***************************************************************************)
(* From the acknowledgement of a shutdown until somebody asks for a        *)
(* restart the task waits and the radio is off.                            *)
(***************************************************************************)
HandleInv ==
  ~handle.asked =>
    /\ ~handle.restart
    /\ handle.complete \/ handle.owner = "off" =>
         task = "restart" /\ ~radio.started

Inv ==
  /\ TypeOK
  /\ AirInv
  /\ LinkInv
  /\ CacheInv
  /\ HandleInv

-----------------------------------------------------------------------------
(***************************************************************************)
(* The values after power-on and after a restart have their types.         *)
(***************************************************************************)
LEMMA StartTypes ==
  PowerOnRtc \in Rtcs /\ RadioOff \in Radios /\ NoStack \in Stacks
    /\ NoHandle \in Handles
  BY WifiAssumption
     DEF PowerOnRtc, RadioOff, NoStack, NoHandle, Rtcs, Radios, Stacks, Handles

(***************************************************************************)
(* The invariant holds at power-on.                                        *)
(***************************************************************************)
LEMMA InvInit == Init => Inv
  <1> SUFFICES ASSUME Init
               PROVE  Inv
    OBVIOUS
  <1> USE DEF Init
  <1>1. TypeOK
    BY StartTypes, WifiAssumption
       DEF TypeOK, Rtcs, Radios, Stacks, Handles
  <1>2. AirInv
    BY DEF AirInv
  <1>3. LinkInv /\ CacheInv /\ HandleInv
    BY DEF LinkInv, CacheInv, HandleInv, RadioOff, PowerOnRtc, NoHandle
  <1> QED
    BY <1>1, <1>2, <1>3 DEF Inv

(***************************************************************************)
(* The address the network hands out now is an address.                    *)
(***************************************************************************)
LEMMA OwnIpType == TypeOK => OwnIp \in Ips
  BY DEF TypeOK, OwnIp, Ips

(***************************************************************************)
(* Dropping the access point of another network keeps the types.           *)
(***************************************************************************)
LEMMA DropType == TypeOK => DropOtherBssid(rtc) \in Rtcs
  BY DEF TypeOK, DropOtherBssid, Rtcs

(***************************************************************************)
(* Main's steps keep the types.                                            *)
(***************************************************************************)
LEMMA TypeMain ==
  ASSUME TypeOK, Main \/ Reboot \/ ConnectFails
  PROVE  TypeOK'
  <1>1. CASE Connect
    <2> DEFINE r == DropOtherBssid(rtc)
    <2>1. r \in Rtcs
      BY DropType
    <2>2. CASE UsesStaticIp(r)
      <3>1. /\ rtc' = [r EXCEPT !.uses = r.uses + 1]
            /\ stack' = [dhcp |-> FALSE, ip |-> r.ip]
        BY <1>1, <2>2 DEF Connect
      <3> HIDE DEF r
      <3>2. r.uses + 1 \in 0 .. MaxStaticIpUses /\ r.ip \in Ips
        BY <2>1, <2>2, WifiAssumption DEF UsesStaticIp, Rtcs
      <3>3. rtc' \in Rtcs /\ stack' \in Stacks
        BY <2>1, <3>1, <3>2 DEF Rtcs, Stacks
      <3> QED
        BY <1>1, <3>3 DEF Connect, TypeOK
    <2>3. CASE ~UsesStaticIp(r)
      <3>1. rtc' = r /\ stack' = [dhcp |-> TRUE, ip |-> None]
        BY <1>1, <2>3 DEF Connect
      <3>2. rtc' \in Rtcs /\ stack' \in Stacks
        BY <2>1, <3>1 DEF Stacks
      <3> QED
        BY <1>1, <3>2 DEF Connect, TypeOK
    <2> QED
      BY <2>2, <2>3
  <1>2. CASE LinkUp
    BY <1>2 DEF LinkUp, TypeOK
  <1>3. CASE AddressUp
    <2>1. rtc' \in Rtcs
      <3>1. stack.ip \in Ips
        BY <1>3 DEF AddressUp, TypeOK, Stacks
      <3>2. 0 \in 0 .. MaxStaticIpUses
        BY WifiAssumption
      <3> QED
        BY <1>3, <3>1, <3>2 DEF AddressUp, TypeOK, Rtcs
    <2>2. handle' \in Handles
      BY <1>3 DEF AddressUp, TypeOK, Handles
    <2> QED
      BY <1>3, <2>1, <2>2 DEF AddressUp, TypeOK
  <1>4. CASE RequestsSucceed
    BY <1>4 DEF RequestsSucceed, TypeOK
  <1>5. CASE RequestFails
    BY <1>5, StartTypes, WifiAssumption
       DEF RequestFails, RamLost, Fault, TypeOK
  <1>6. CASE Reboot
    BY <1>6, StartTypes DEF Reboot, RamLost, TypeOK
  <1>7. CASE ConnectFails
    BY <1>7, DropType, WifiAssumption DEF ConnectFails, Fault, TypeOK
  <1> QED
    BY <1>1, <1>2, <1>3, <1>4, <1>5, <1>6, <1>7 DEF Main

(***************************************************************************)
(* The connection task's steps keep the types.                             *)
(***************************************************************************)
LEMMA TypeConnection ==
  ASSUME TypeOK, Connection \/ TaskDies
  PROVE  TypeOK'
  <1>1. CASE TaskStart
    <2>1. rtc' \in Rtcs
      BY <1>1, WifiAssumption DEF TaskStart, TypeOK, Rtcs
    <2> QED
      BY <1>1, <2>1 DEF TaskStart, TypeOK
  <1>2. CASE Top
    BY <1>2 DEF Top, TypeOK
  <1>3. CASE Scan
    <2>1. radio' \in Radios
      BY <1>3 DEF Scan, TypeOK, Radios
    <2>2. rtc' \in Rtcs /\ task' \in {"top", "stop"}
      <3>1. CASE air[ssid] = None
        BY <1>3, <3>1 DEF Scan, TypeOK
      <3>2. CASE air[ssid] # None
        <4> DEFINE ap == air[ssid]
                   auth == IF ap.auth = UnknownAuth THEN rtc.auth ELSE ap.auth
        <4>1. ap \in Aps
          BY <3>2 DEF TypeOK
        <4>2. ap.bssid \in Bssids
          BY <4>1 DEF Bssids
        <4>3. auth \in AuthMethods
          BY <4>1, WifiAssumption DEF TypeOK, Rtcs
        <4>4. rtc' = [rtc EXCEPT !.bssid = ap.bssid, !.auth = auth]
              /\ task' = "stop"
          BY <1>3, <3>2 DEF Scan, TypeOK, Rtcs
        <4> HIDE DEF ap, auth
        <4> QED
          BY <4>2, <4>3, <4>4 DEF TypeOK, Rtcs
      <3> QED
        BY <3>1, <3>2
    <2> QED
      BY <1>3, <2>1, <2>2 DEF Scan, TypeOK
  <1>4. CASE ScanStop
    BY <1>4, StartTypes DEF ScanStop, TypeOK
  <1>5. CASE Configure
    <2>1. radio' \in Radios
      BY <1>5 DEF Configure, TypeOK, Radios, Rtcs
    <2> QED
      BY <1>5, <2>1 DEF Configure, TypeOK
  <1>6. CASE Joined
    <2>1. radio' \in Radios
      BY <1>6 DEF Joined, TypeOK, Radios
    <2> QED
      BY <1>6, <2>1 DEF Joined, TypeOK
  <1>7. CASE ConnectError
    BY <1>7, WifiAssumption DEF ConnectError, Fault, TypeOK
  <1>8. CASE TaskStops
    <2>1. stack' \in Stacks
      BY <1>8 DEF TaskStops, RadioStops, TypeOK, Stacks
    <2>2. handle' \in Handles
      BY <1>8 DEF TaskStops, TypeOK, Handles
    <2> QED
      BY <1>8, <2>1, <2>2, StartTypes DEF TaskStops, RadioStops, TypeOK
  <1>9. CASE TaskRestarts
    <2>1. handle' \in Handles
      BY <1>9 DEF TaskRestarts, TypeOK, Handles
    <2> QED
      BY <1>9, <2>1 DEF TaskRestarts, TypeOK
  <1>10. CASE TaskDies
    <2>1. handle' \in Handles
      BY <1>10 DEF TaskDies, TypeOK, Handles
    <2>2. stack' \in Stacks
      BY <1>10 DEF TaskDies, RadioStops, TypeOK, Stacks
    <2> QED
      BY <1>10, <2>1, <2>2, StartTypes, WifiAssumption
         DEF TaskDies, RadioStops, Fault, TypeOK
  <1> QED
    BY <1>1, <1>2, <1>3, <1>4, <1>5, <1>6, <1>7, <1>8, <1>9, <1>10
       DEF Connection

(***************************************************************************)
(* The owner's steps and those of the environment keep the types.          *)
(***************************************************************************)
LEMMA TypeOthers ==
  ASSUME TypeOK,
         Owner \/ Lease \/ LinkLost \/ (\E s \in Ssids : ApChanges(s))
           \/ (\E s \in Ssids : Renumber(s)) \/ PowerCycle
  PROVE  TypeOK'
  <1>1. CASE Owner
    <2>1. handle' \in Handles
      BY <1>1
         DEF Owner, Shutdown, ShutdownReturns, SignalRestart, TypeOK, Handles
    <2> QED
      BY <1>1, <2>1
         DEF Owner, Shutdown, ShutdownReturns, SignalRestart, TypeOK
  <1>2. CASE Lease
    <2>1. stack' \in Stacks
      BY <1>2, OwnIpType DEF Lease, TypeOK, Stacks
    <2> QED
      BY <1>2, <2>1 DEF Lease, TypeOK
  <1>3. ASSUME LinkDrops
        PROVE  radio' \in Radios /\ stack' \in Stacks
    <2>1. radio' \in Radios
      BY <1>3 DEF LinkDrops, TypeOK, Radios
    <2>2. stack' \in Stacks
      BY <1>3 DEF LinkDrops, TypeOK, Stacks
    <2> QED
      BY <2>1, <2>2
  <1>4. CASE LinkLost
    BY <1>4, <1>3, WifiAssumption DEF LinkLost, Fault, TypeOK
  <1>5. ASSUME NEW s \in Ssids, ApChanges(s)
        PROVE  TypeOK'
    <2>1. radio' \in Radios /\ stack' \in Stacks
      BY <1>5, <1>3 DEF ApChanges, TypeOK
    <2>2. air' \in [Ssids -> Aps \cup {None}]
      BY <1>5 DEF ApChanges, TypeOK
    <2>3. faults' \in 0 .. MaxFaults
      BY <1>5, WifiAssumption DEF ApChanges, Fault, TypeOK
    <2> QED
      BY <1>5, <2>1, <2>2, <2>3 DEF ApChanges, TypeOK
  <1>6. ASSUME NEW s \in Ssids, Renumber(s)
        PROVE  TypeOK'
    <2>1. lease' \in [Ssids -> 1 .. MaxAddresses]
      BY <1>6, WifiAssumption DEF Renumber, TypeOK
    <2> QED
      BY <1>6, <2>1, WifiAssumption DEF Renumber, Fault, TypeOK
  <1>7. CASE PowerCycle
    BY <1>7, StartTypes, WifiAssumption
       DEF PowerCycle, RamLost, Fault, TypeOK
  <1> QED
    BY <1>1, <1>2, <1>4, <1>5, <1>6, <1>7

(***************************************************************************)
(* Every step keeps the types.                                             *)
(***************************************************************************)
LEMMA TypeNext == TypeOK /\ [Next]_vars => TypeOK'
  <1> SUFFICES ASSUME TypeOK, [Next]_vars
               PROVE  TypeOK'
    OBVIOUS
  <1>1. CASE UNCHANGED vars
    BY <1>1 DEF vars, TypeOK
  <1> QED
    BY <1>1, TypeMain, TypeConnection, TypeOthers DEF Next, Environment

-----------------------------------------------------------------------------
(***************************************************************************)
(* Access points only change for others of the same network.               *)
(***************************************************************************)
LEMMA AirNext == TypeOK /\ AirInv /\ [Next]_vars => AirInv'
  <1> SUFFICES ASSUME TypeOK, AirInv, [Next]_vars
               PROVE  AirInv'
    OBVIOUS
  <1>1. ASSUME NEW s \in Ssids, ApChanges(s)
        PROVE  AirInv'
    BY <1>1 DEF ApChanges, AirInv, TypeOK
  <1>2. CASE UNCHANGED air
    BY <1>2 DEF AirInv
  <1>3. UNCHANGED air \/ \E s \in Ssids : ApChanges(s)
    BY DEF Next, Main, Connection, Owner, Environment, vars, Connect, LinkUp,
           AddressUp, RequestsSucceed, RequestFails, TaskStart, Top, Scan,
           ScanStop, Configure, Joined, ConnectError, TaskStops,
           TaskRestarts, Shutdown, ShutdownReturns, SignalRestart, Reboot,
           ConnectFails, TaskDies, Lease, LinkLost, Renumber, PowerCycle
  <1> QED
    BY <1>1, <1>2, <1>3

(***************************************************************************)
(* Losing the link leaves the rest of the radio alone.                     *)
(***************************************************************************)
LEMMA RadioAfterDrop ==
  ASSUME TypeOK, LinkDrops
  PROVE  radio'.ap = None /\ radio'.started = radio.started
  BY DEF TypeOK, Radios, LinkDrops

(***************************************************************************)
(* The link stays where the task is past connect_async.                    *)
(***************************************************************************)
LEMMA LinkNext == TypeOK /\ LinkInv /\ [Next]_vars => LinkInv'
  <1> SUFFICES ASSUME TypeOK, LinkInv, [Next]_vars
               PROVE  LinkInv'
    OBVIOUS
  <1>0. RadioOff.ap = None
    BY DEF RadioOff
  <1>1. CASE Main
    BY <1>0, <1>1
       DEF Main, Connect, LinkUp, AddressUp, RequestsSucceed, RequestFails,
           RamLost, LinkInv
  <1>2. CASE Reboot \/ PowerCycle
    BY <1>0, <1>2 DEF Reboot, PowerCycle, RamLost, LinkInv
  <1>3. CASE Connection
    <2>1. CASE Scan \/ Configure
      <3>1. radio'.ap = radio.ap
        BY <2>1 DEF Scan, Configure, TypeOK, Radios
      <3> QED
        BY <2>1, <3>1 DEF Scan, Configure, LinkInv
    <2>2. CASE ScanStop \/ TaskStops
      BY <1>0, <2>2 DEF ScanStop, TaskStops, RadioStops, LinkInv
    <2>3. CASE TaskStart \/ Top \/ Joined \/ ConnectError \/ TaskRestarts
      BY <2>3
         DEF TaskStart, Top, Joined, ConnectError, TaskRestarts, LinkInv
    <2> QED
      BY <1>3, <2>1, <2>2, <2>3 DEF Connection
  <1>4. CASE Owner \/ ConnectFails \/ TaskDies \/ Lease
             \/ (\E s \in Ssids : Renumber(s)) \/ UNCHANGED vars
    BY <1>4
       DEF Owner, Shutdown, ShutdownReturns, SignalRestart, ConnectFails,
           TaskDies, Lease, Renumber, vars, LinkInv
  <1>5. CASE LinkLost \/ \E s \in Ssids : ApChanges(s)
    <2>1. LinkDrops \/ UNCHANGED radio
      BY <1>5 DEF LinkLost, ApChanges
    <2>2. UNCHANGED <<main, task>>
      BY <1>5 DEF LinkLost, ApChanges
    <2> QED
      BY <2>1, <2>2, RadioAfterDrop DEF LinkInv
  <1> QED
    BY <1>1, <1>2, <1>3, <1>4, <1>5 DEF Next, Environment

(***************************************************************************)
(* A step that touches neither the cache nor the network and that does not *)
(* bring the task where it needs an access point keeps CacheInv.           *)
(***************************************************************************)
LEMMA CacheKept ==
  ASSUME CacheInv, UNCHANGED <<rtc, ssid>>,
         task' \in {task, "none", "top", "restart", "dead"},
         task' \in {"top", "restart", "dead"} => task \notin {"none", "start"}
  PROVE  CacheInv'
  BY DEF CacheInv

(***************************************************************************)
(* What connect leaves of the cache: nothing of another network but its    *)
(* authentication, which the task then clears.                             *)
(***************************************************************************)
LEMMA CacheDropped ==
  ASSUME TypeOK, CacheInv, UNCHANGED ssid,
         rtc'.ssid = rtc.ssid, rtc'.auth = rtc.auth,
         rtc'.bssid = IF rtc.ssid # ssid THEN None ELSE rtc.bssid,
         task' \in {"none", "start"}
  PROVE  CacheInv'
  BY WifiAssumption DEF CacheInv, TypeOK, Rtcs

(***************************************************************************)
(* Every step keeps the cached access point consistent.                    *)
(***************************************************************************)
LEMMA CacheNext ==
  TypeOK /\ AirInv /\ LinkInv /\ CacheInv /\ [Next]_vars => CacheInv'
  <1> SUFFICES ASSUME TypeOK, AirInv, LinkInv, CacheInv, [Next]_vars
               PROVE  CacheInv'
    OBVIOUS
  <1> DEFINE dropped == DropOtherBssid(rtc)
  <1>0. /\ dropped.ssid = rtc.ssid /\ dropped.auth = rtc.auth
        /\ dropped.bssid = IF rtc.ssid # ssid THEN None ELSE rtc.bssid
        /\ dropped \in Rtcs
    BY DropType DEF DropOtherBssid, TypeOK, Rtcs
  <1>1. CASE Connect
    <2>1. rtc' = dropped \/ rtc' = [dropped EXCEPT !.uses = dropped.uses + 1]
      BY <1>1 DEF Connect
    <2> HIDE DEF dropped
    <2>2. /\ rtc'.ssid = dropped.ssid /\ rtc'.auth = dropped.auth
          /\ rtc'.bssid = dropped.bssid
      BY <1>0, <2>1 DEF Rtcs
    <2>3. UNCHANGED ssid /\ task' = "start"
      BY <1>1 DEF Connect
    <2> QED
      BY <1>0, <2>2, <2>3, CacheDropped
  <1>2. CASE ConnectFails
    <2>1. rtc' \in {rtc, dropped} /\ UNCHANGED <<ssid, task>>
      BY <1>2 DEF ConnectFails
    <2>2. CASE rtc' = rtc
      BY <2>1, <2>2, CacheKept
    <2>3. CASE rtc' = dropped
      <3>1. CASE task \in {"none", "start"}
        BY <1>0, <2>1, <2>3, <3>1, CacheDropped
      <3>2. CASE task \notin {"none", "start"}
        BY <1>0, <2>1, <2>3, <3>2 DEF CacheInv
      <3> QED
        BY <3>1, <3>2
    <2> QED
      BY <2>1, <2>2, <2>3
  <1>3. CASE AddressUp
    <2>1. /\ rtc'.ssid = rtc.ssid /\ rtc'.auth = rtc.auth
          /\ rtc'.bssid = rtc.bssid
      BY <1>3 DEF AddressUp, TypeOK, Rtcs
    <2>2. UNCHANGED <<ssid, task>>
      BY <1>3 DEF AddressUp
    <2> QED
      BY <2>1, <2>2 DEF CacheInv
  <1>4. CASE LinkUp \/ RequestsSucceed \/ Owner \/ Lease \/ LinkLost
             \/ (\E s \in Ssids : ApChanges(s))
             \/ (\E s \in Ssids : Renumber(s)) \/ UNCHANGED vars
    <2>1. UNCHANGED <<rtc, ssid, task>>
      BY <1>4
         DEF LinkUp, RequestsSucceed, Owner, Shutdown, ShutdownReturns,
             SignalRestart, Lease, LinkLost, ApChanges, Renumber, vars
    <2> QED
      BY <2>1, CacheKept
  <1>5. CASE RequestFails
    BY <1>5, CacheKept DEF RequestFails, RamLost
  <1>6. CASE Reboot
    <2>1. task \notin {"none", "start"} /\ rtc.ssid = ssid
      BY <1>6 DEF Reboot, LinkInv, CacheInv
    <2>2. task' = "none" /\ UNCHANGED rtc
      BY <1>6 DEF Reboot, RamLost
    <2>3. rtc.bssid = None => rtc.auth = DefaultAuth
      BY <2>1 DEF CacheInv
    <2> QED
      BY <2>2, <2>3 DEF CacheInv
  <1>7. CASE PowerCycle
    <2>1. /\ rtc'.bssid = None /\ rtc'.auth = DefaultAuth
          /\ task' = "none"
      BY <1>7 DEF PowerCycle, RamLost, PowerOnRtc
    <2> QED
      BY <2>1 DEF CacheInv
  <1>8. CASE TaskStart
    <2>1. /\ rtc'.ssid = ssid /\ ssid' = ssid /\ task' = "top"
          /\ IF rtc.ssid \notin {None, ssid}
             THEN rtc'.bssid = None /\ rtc'.auth = DefaultAuth
             ELSE rtc'.bssid = rtc.bssid /\ rtc'.auth = rtc.auth
      BY <1>8 DEF TaskStart, TypeOK, Rtcs
    <2>2. CASE rtc.ssid \notin {None, ssid}
      BY <2>1, <2>2 DEF CacheInv
    <2>3. CASE rtc.ssid = None
      <3>1. rtc.bssid = None
        BY <2>3, WifiAssumption DEF CacheInv
      <3>2. rtc.auth = DefaultAuth
        BY <2>3, <3>1 DEF CacheInv
      <3> QED
        BY <2>1, <2>3, <3>1, <3>2 DEF CacheInv
    <2>4. CASE rtc.ssid = ssid
      BY <2>1, <2>4 DEF CacheInv
    <2> QED
      BY <2>2, <2>3, <2>4
  <1>9. CASE Top
    BY <1>9 DEF Top, CacheInv
  <1>10. CASE Scan
    <2>1. CASE air[ssid] = None
      BY <1>10, <2>1, CacheKept DEF Scan
    <2>2. CASE air[ssid] # None
      <3> DEFINE ap == air[ssid]
      <3>1. ap \in Aps /\ ap.ssid = ssid
        BY <2>2 DEF TypeOK, AirInv
      <3>2. rtc.auth = DefaultAuth /\ rtc.ssid = ssid
        BY <1>10 DEF Scan, CacheInv
      <3>3. /\ rtc'.bssid = ap.bssid /\ rtc'.auth = AuthOf(ap)
            /\ rtc'.ssid = ssid
            /\ ssid' = ssid /\ task' = "stop"
        BY <1>10, <2>2, <3>2 DEF Scan, TypeOK, Rtcs, AuthOf
      <3>4. ap.bssid # None
        BY <3>1, WifiAssumption DEF Bssids
      <3> HIDE DEF ap
      <3> QED
        BY <3>1, <3>3, <3>4 DEF CacheInv
    <2> QED
      BY <2>1, <2>2
  <1>11. CASE ScanStop \/ Configure \/ Joined
    BY <1>11 DEF ScanStop, Configure, Joined, CacheInv
  <1>12. CASE ConnectError \/ TaskStops \/ TaskRestarts \/ TaskDies
    BY <1>12, CacheKept DEF ConnectError, TaskStops, TaskRestarts, TaskDies
  <1> QED
    BY <1>1, <1>2, <1>3, <1>4, <1>5, <1>6, <1>7, <1>8, <1>9, <1>10, <1>11,
       <1>12 DEF Next, Main, Connection, Environment

(***************************************************************************)
(* Every step keeps the promise of a shutdown.                             *)
(***************************************************************************)
LEMMA HandleNext ==
  TypeOK /\ LinkInv /\ HandleInv /\ [Next]_vars => HandleInv'
  <1> SUFFICES ASSUME TypeOK, LinkInv, HandleInv, [Next]_vars
               PROVE  HandleInv'
    OBVIOUS
  <1>1. CASE RequestFails \/ Reboot \/ PowerCycle
    BY <1>1
       DEF RequestFails, Reboot, PowerCycle, RamLost, NoHandle, HandleInv
  <1>2. CASE Connect \/ TaskStart \/ Top \/ Scan \/ ScanStop \/ Configure
             \/ Joined \/ ConnectError
    <2>1. task # "restart" /\ UNCHANGED handle
      BY <1>2
         DEF Connect, TaskStart, Top, Scan, ScanStop, Configure, Joined,
             ConnectError, LinkInv
    <2> QED
      BY <2>1 DEF HandleInv
  <1>3. CASE LinkUp \/ RequestsSucceed \/ ConnectFails \/ Lease
             \/ (\E s \in Ssids : Renumber(s)) \/ UNCHANGED vars
    <2>1. UNCHANGED <<handle, radio, task>>
      BY <1>3
         DEF LinkUp, RequestsSucceed, ConnectFails, Lease, Renumber, vars
    <2> QED
      BY <2>1 DEF HandleInv
  <1>4. CASE LinkLost \/ \E s \in Ssids : ApChanges(s)
    <2>1. LinkDrops \/ UNCHANGED radio
      BY <1>4 DEF LinkLost, ApChanges
    <2>2. UNCHANGED <<handle, task>>
      BY <1>4 DEF LinkLost, ApChanges
    <2> QED
      BY <2>1, <2>2, RadioAfterDrop DEF HandleInv
  <1>5. CASE AddressUp \/ Shutdown
    <2>1. /\ handle'.asked = handle.asked /\ handle'.restart = handle.restart
          /\ handle'.complete = handle.complete /\ handle'.owner # "off"
      BY <1>5 DEF AddressUp, Shutdown, TypeOK, Handles
    <2>2. UNCHANGED <<task, radio>>
      BY <1>5 DEF AddressUp, Shutdown
    <2> QED
      BY <2>1, <2>2 DEF HandleInv
  <1>6. CASE ShutdownReturns
    <2>1. /\ handle'.asked = handle.asked /\ handle'.restart = handle.restart
          /\ handle.complete
      BY <1>6 DEF ShutdownReturns, TypeOK, Handles
    <2>2. UNCHANGED <<task, radio>>
      BY <1>6 DEF ShutdownReturns
    <2> QED
      BY <2>1, <2>2 DEF HandleInv
  <1>7. CASE SignalRestart
    <2>1. handle'.asked
      BY <1>7 DEF SignalRestart, TypeOK, Handles
    <2> QED
      BY <2>1 DEF HandleInv
  <1>8. CASE TaskStops
    <2>1. handle'.asked = handle.asked /\ handle'.restart = handle.restart
      BY <1>8 DEF TaskStops, TypeOK, Handles
    <2>2. task' = "restart" /\ ~radio'.started
      BY <1>8 DEF TaskStops, RadioStops, RadioOff
    <2> QED
      BY <2>1, <2>2 DEF HandleInv
  <1>9. CASE TaskRestarts
    <2>1. handle.restart /\ handle'.asked = handle.asked
      BY <1>9 DEF TaskRestarts, TypeOK, Handles
    <2> QED
      BY <2>1 DEF HandleInv
  <1>10. CASE TaskDies
    <2>1. task # "restart"
      BY <1>10 DEF TaskDies
    <2>2. /\ handle'.asked = handle.asked /\ handle'.restart = handle.restart
          /\ handle'.complete = handle.complete
          /\ handle'.owner = handle.owner
      BY <1>10 DEF TaskDies, TypeOK, Handles
    <2> QED
      BY <2>1, <2>2 DEF HandleInv
  <1> QED
    BY <1>1, <1>2, <1>3, <1>4, <1>5, <1>6, <1>7, <1>8, <1>9, <1>10
       DEF Next, Main, Connection, Owner, Environment

-----------------------------------------------------------------------------
(***************************************************************************)
(* Every behaviour keeps the inductive invariant.                          *)
(***************************************************************************)
THEOREM Safety == Spec => []Inv
  <1>1. Inv /\ [Next]_vars => Inv'
    BY TypeNext, AirNext, LinkNext, CacheNext, HandleNext DEF Inv
  <1> QED
    BY <1>1, InvInit, PTL DEF Spec

(***************************************************************************)
(* The types hold, and a cached address is counted no further than         *)
(* MAX_STATIC_IP_USES.                                                     *)
(***************************************************************************)
THEOREM TypeSafety == Spec => []TypeOK
  <1>1. Inv => TypeOK
    BY DEF Inv
  <1> QED
    BY <1>1, Safety, PTL

(***************************************************************************)
(* What the driver is configured with is one access point of the network   *)
(* to join, whatever networks were joined before, and however often the    *)
(* start failed in between.                                                *)
(***************************************************************************)
THEOREM CacheSafety == Spec => []CacheIsOneAp
  <1>1. Inv => CacheIsOneAp
    BY DEF Inv, CacheInv, CacheIsOneAp, AuthOf
  <1> QED
    BY <1>1, Safety, PTL

(***************************************************************************)
(* The loop of the connection task is never entered with a connection, so  *)
(* its wait for a disconnection is never reached.                          *)
(***************************************************************************)
THEOREM TopSafety == Spec => []NotConnectedAtTop
  <1>1. Inv => NotConnectedAtTop
    BY DEF Inv, LinkInv, NotConnectedAtTop
  <1> QED
    BY <1>1, Safety, PTL

(***************************************************************************)
(* After shutdown returned, and until a restart is signalled, the radio is *)
(* off.                                                                    *)
(***************************************************************************)
THEOREM ShutdownSafety == Spec => []ShutdownMeansOff
  <1>1. Inv => ShutdownMeansOff
    BY DEF Inv, HandleInv, ShutdownMeansOff
  <1> QED
    BY <1>1, Safety, PTL

=============================================================================
