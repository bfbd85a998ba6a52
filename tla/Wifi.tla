------------------------------- MODULE Wifi --------------------------------
(***************************************************************************)
(* Getting on the network and back on it: src/src/wifi.rs, with the part   *)
(* of main_fallible (src/src/bin/blind.rs) that waits for it and that      *)
(* restarts the device when the network turns out not to work.             *)
(*                                                                         *)
(* The connection task scans for the network once and keeps the access     *)
(* point it found in RTC memory; wait_for_connection keeps the address     *)
(* there.  Both survive deep sleep and are lost with power, while access   *)
(* points come and go, networks renumber and an update may bring firmware  *)
(* for another network.                                                    *)
(*                                                                         *)
(* The cached channel is left out: it tells the driver where to look first *)
(* and decides nothing.                                                    *)
(***************************************************************************)
EXTENDS Naturals

CONSTANTS
  Ssids,            \* networks that firmware is built for
  Aps,              \* access points: [ssid, bssid, auth]
  None,             \* Option::None
  AuthMethods,      \* ordered by strength
  DefaultAuth,      \* AuthMethod::WPA2Personal
  UnknownAuth,      \* the scan did not say
  MaxStaticIpUses,  \* MAX_STATIC_IP_USES, 10 in the code
  MaxAddresses,     \* bound: addresses a network hands out
  MaxFaults         \* bound: faults and changes in the environment

Bssids == {ap.bssid : ap \in Aps}
Ips == [net : Ssids, n : 1 .. MaxAddresses]

ASSUME WifiAssumption ==
  /\ \A ap \in Aps : /\ ap = [ssid |-> ap.ssid, bssid |-> ap.bssid,
                               auth |-> ap.auth]
                     /\ ap.ssid \in Ssids
                     /\ ap.auth \in AuthMethods \cup {UnknownAuth}
  /\ None \notin Ssids /\ None \notin Aps
  /\ None \notin Bssids /\ None \notin Ips
  /\ AuthMethods \subseteq Nat
  /\ DefaultAuth \in AuthMethods
  /\ UnknownAuth \notin AuthMethods
  /\ MaxStaticIpUses \in Nat
  /\ MaxAddresses \in Nat \ {0}
  /\ MaxFaults \in Nat

VARIABLES
  ssid,    \* the network the running firmware is to join
  main,    \* where main_fallible is
  task,    \* where the connection task is
  rtc,     \* RTC memory: LAST_SSID, LAST_BSSID, LAST_AUTH_METHOD,
           \* STATIC_IP_CONFIG and STATIC_IP_USES
  radio,   \* the controller: started, its configuration, the AP joined
  stack,   \* the network stack: DHCP or not, its address
  handle,  \* the owner of WifiConnectedHandle and the three signals
  air,     \* the access point each network has now
  lease,   \* the number of the address each network hands out now
  faults   \* faults so far, for the bound

vars == <<ssid, main, task, rtc, radio, stack, handle, air, lease, faults>>

-----------------------------------------------------------------------------
PowerOnRtc ==
  [ssid |-> None, bssid |-> None, auth |-> DefaultAuth, ip |-> None,
   uses |-> 0]

RadioOff == [started |-> FALSE, bssid |-> None, auth |-> DefaultAuth,
             ap |-> None]
NoStack == [dhcp |-> FALSE, ip |-> None]
NoHandle == [owner |-> "none", shutdown |-> FALSE, complete |-> FALSE,
             restart |-> FALSE, asked |-> FALSE]

Init ==
  /\ ssid \in Ssids
  /\ main = "boot"
  /\ task = "none"
  /\ rtc = PowerOnRtc
  /\ radio = RadioOff
  /\ stack = NoStack
  /\ handle = NoHandle
  /\ air \in [Ssids -> Aps \cup {None}]
  /\ \A s \in Ssids : air[s] # None => air[s].ssid = s
  /\ lease = [s \in Ssids |-> 1]
  /\ faults = 0

Fault == faults < MaxFaults /\ faults' = faults + 1

(***************************************************************************)
(* Everything in RAM is lost: deep sleep, or a loss of power.              *)
(***************************************************************************)
RamLost ==
  /\ main' = "boot"
  /\ task' = "none"
  /\ radio' = RadioOff
  /\ stack' = NoStack
  /\ handle' = NoHandle

-----------------------------------------------------------------------------
(***************************************************************************)
(* wifi::connect: one call without an await.  It drops the cached access   *)
(* point of another network, takes the cached address if there is one that *)
(* is not used up, and spawns the connection task.                         *)
(***************************************************************************)
DropOtherBssid(r) == IF r.ssid # ssid THEN [r EXCEPT !.bssid = None] ELSE r

UsesStaticIpMutant(r) == r.ip # None /\ r.uses <= MaxStaticIpUses

UsesStaticIp(r) == r.ip # None /\ r.uses < MaxStaticIpUses

Connect ==
  /\ main = "boot"
  /\ LET r == DropOtherBssid(rtc)
     IN  IF UsesStaticIp(r)
         THEN /\ rtc' = [r EXCEPT !.uses = @ + 1]
              /\ stack' = [dhcp |-> FALSE, ip |-> r.ip]
         ELSE /\ rtc' = r
              /\ stack' = [dhcp |-> TRUE, ip |-> None]
  /\ main' = "link"
  /\ task' = "start"
  /\ UNCHANGED <<ssid, radio, handle, air, lease, faults>>

(***************************************************************************)
(* The driver fails to initialise, before or after the cached access point *)
(* was dropped: main goes to sleep and starts over.                        *)
(***************************************************************************)
ConnectFails ==
  /\ main = "boot"
  /\ Fault
  /\ rtc' \in {rtc, DropOtherBssid(rtc)}
  /\ UNCHANGED <<ssid, main, task, radio, stack, handle, air, lease>>

-----------------------------------------------------------------------------
(***************************************************************************)
(* connection_fallible, from its first poll to its loop.                   *)
(***************************************************************************)
TaskStartMutant ==
  /\ task = "start"
  /\ rtc' = [rtc EXCEPT !.ssid = ssid]
  /\ task' = "top"
  /\ UNCHANGED <<ssid, main, radio, stack, handle, air, lease, faults>>

TaskStart ==
  /\ task = "start"
  /\ rtc' = IF rtc.ssid \notin {None, ssid}
            THEN [rtc EXCEPT !.ssid = ssid, !.bssid = None,
                             !.auth = DefaultAuth]
            ELSE [rtc EXCEPT !.ssid = ssid]
  /\ task' = "top"
  /\ UNCHANGED <<ssid, main, radio, stack, handle, air, lease, faults>>

(***************************************************************************)
(* The loop.  Its wait for StaDisconnected, when the driver is connected   *)
(* at the top, is never entered: see NotConnectedAtTop.                    *)
(***************************************************************************)
Top ==
  /\ task = "top"
  /\ task' = IF rtc.bssid = None THEN "scan" ELSE "configure"
  /\ UNCHANGED <<ssid, main, rtc, radio, stack, handle, air, lease, faults>>

Scan ==
  /\ task = "scan"
  /\ radio' = [radio EXCEPT !.started = TRUE]
  /\ LET ap == air[ssid]
     IN  IF ap = None
         THEN task' = "top" /\ UNCHANGED rtc
         ELSE /\ task' = "stop"
              /\ rtc' = [rtc EXCEPT !.bssid = ap.bssid,
                           !.auth = IF ap.auth = UnknownAuth THEN @
                                                             ELSE ap.auth]
  /\ UNCHANGED <<ssid, main, stack, handle, air, lease, faults>>

ScanStop ==
  /\ task = "stop"
  /\ radio' = RadioOff
  /\ task' = "configure"
  /\ UNCHANGED <<ssid, main, rtc, stack, handle, air, lease, faults>>

Configure ==
  /\ task = "configure"
  /\ radio' = [radio EXCEPT !.started = TRUE, !.bssid = rtc.bssid,
                            !.auth = rtc.auth]
  /\ task' = "connect"
  /\ UNCHANGED <<ssid, main, rtc, stack, handle, air, lease, faults>>

(***************************************************************************)
(* The driver joins the access point it was told, if that is there and its *)
(* authentication is no weaker than the configuration demands.             *)
(***************************************************************************)
Accepts(ap, bssid, auth) ==
  /\ ap # None
  /\ ap.bssid = bssid
  /\ ap.auth = UnknownAuth \/ auth <= ap.auth

CanJoin == Accepts(air[ssid], radio.bssid, radio.auth)

Joined ==
  /\ task = "connect"
  /\ CanJoin
  /\ radio' = [radio EXCEPT !.ap = air[ssid]]
  /\ task' = "up"
  /\ UNCHANGED <<ssid, main, rtc, stack, handle, air, lease, faults>>

ConnectError ==
  /\ task = "connect"
  /\ IF CanJoin THEN Fault ELSE UNCHANGED faults
  /\ task' = "top"
  /\ UNCHANGED <<ssid, main, rtc, radio, stack, handle, air, lease>>

(***************************************************************************)
(* The driver stops, on request or because its controller is dropped.  The *)
(* link goes down, and with it an address that DHCP gave.                  *)
(***************************************************************************)
RadioStops ==
  /\ radio' = RadioOff
  /\ stack' = [stack EXCEPT !.ip = IF stack.dhcp THEN None ELSE @]

(***************************************************************************)
(* Connected, the task waits for a request to shut down, then for one to   *)
(* start again.  A signal is kept until somebody waits for it.             *)
(***************************************************************************)
TaskStopsMutant ==
  /\ task = "up"
  /\ handle.shutdown
  /\ handle' = [handle EXCEPT !.shutdown = FALSE, !.complete = TRUE]
  /\ task' = "restart"
  /\ UNCHANGED <<ssid, main, rtc, radio, stack, air, lease, faults>>

TaskStopsLostMutant ==
  /\ task = "up"
  /\ handle.shutdown
  /\ RadioStops
  /\ handle' = [handle EXCEPT !.shutdown = FALSE]
  /\ task' = "restart"
  /\ UNCHANGED <<ssid, main, rtc, air, lease, faults>>

TaskStops ==
  /\ task = "up"
  /\ handle.shutdown
  /\ RadioStops
  /\ handle' = [handle EXCEPT !.shutdown = FALSE, !.complete = TRUE]
  /\ task' = "restart"
  /\ UNCHANGED <<ssid, main, rtc, air, lease, faults>>

TaskRestarts ==
  /\ task = "restart"
  /\ handle.restart
  /\ handle' = [handle EXCEPT !.restart = FALSE]
  /\ task' = "top"
  /\ UNCHANGED <<ssid, main, rtc, radio, stack, air, lease, faults>>

(***************************************************************************)
(* Any other error of the driver ends the task: connection only logs it.   *)
(* The controller is dropped with the task, which stops the driver.        *)
(***************************************************************************)
TaskDies ==
  /\ \/ task \in {"scan", "stop", "configure"} /\ UNCHANGED handle
     \/ /\ task = "up" /\ handle.shutdown
        /\ handle' = [handle EXCEPT !.shutdown = FALSE]
  /\ Fault
  /\ task' = "dead"
  /\ RadioStops
  /\ UNCHANGED <<ssid, main, rtc, air, lease>>

-----------------------------------------------------------------------------
(***************************************************************************)
(* wait_for_connection polls for the link, then for an address, and keeps  *)
(* the address if it has none yet.                                         *)
(***************************************************************************)
LinkUp ==
  /\ main = "link"
  /\ radio.ap # None
  /\ main' = "address"
  /\ UNCHANGED <<ssid, task, rtc, radio, stack, handle, air, lease, faults>>

AddressUpMutant ==
  /\ main = "address"
  /\ stack.ip # None
  /\ main' = "request"
  /\ rtc' = [rtc EXCEPT !.ip = stack.ip, !.uses = 0]
  /\ handle' = [handle EXCEPT !.owner = "holds"]
  /\ UNCHANGED <<ssid, task, radio, stack, air, lease, faults>>

AddressUp ==
  /\ main = "address"
  /\ stack.ip # None
  /\ main' = "request"
  /\ rtc' = IF rtc.ip = None THEN [rtc EXCEPT !.ip = stack.ip, !.uses = 0]
                             ELSE rtc
  /\ handle' = [handle EXCEPT !.owner = "holds"]
  /\ UNCHANGED <<ssid, task, radio, stack, air, lease, faults>>

(***************************************************************************)
(* main_fallible's requests.  They need a link and an address the network  *)
(* knows; if one fails main goes to deep sleep.                            *)
(***************************************************************************)
OwnIp == [net |-> ssid, n |-> lease[ssid]]

Works == radio.ap # None /\ stack.ip = OwnIp

RequestsSucceed ==
  /\ main = "request"
  /\ Works
  /\ main' = "serve"
  /\ UNCHANGED <<ssid, task, rtc, radio, stack, handle, air, lease, faults>>

RequestFails ==
  /\ main = "request"
  /\ IF Works THEN Fault ELSE UNCHANGED faults
  /\ RamLost
  /\ UNCHANGED <<ssid, rtc, air, lease>>

(***************************************************************************)
(* The /reboot page, perhaps after an update with other credentials.       *)
(***************************************************************************)
Reboot ==
  /\ main = "serve"
  /\ Works
  /\ RamLost
  /\ ssid' \in Ssids
  /\ UNCHANGED <<rtc, air, lease, faults>>

(***************************************************************************)
(* The owner of the handle that wait_for_connection returns.  shutdown     *)
(* consumes the handle; the signal to restart can be sent by whoever took  *)
(* it from the handle before.  The blind controller itself keeps its       *)
(* handle and calls neither: this is what wifi.rs offers its callers.      *)
(***************************************************************************)
Shutdown ==
  /\ main = "serve"
  /\ handle.owner = "holds"
  /\ handle' = [handle EXCEPT !.owner = "waits", !.shutdown = TRUE]
  /\ UNCHANGED <<ssid, main, task, rtc, radio, stack, air, lease, faults>>

ShutdownReturns ==
  /\ handle.owner = "waits"
  /\ handle.complete
  /\ handle' = [handle EXCEPT !.owner = "off", !.complete = FALSE]
  /\ UNCHANGED <<ssid, main, task, rtc, radio, stack, air, lease, faults>>

SignalRestart ==
  /\ main = "serve"
  /\ handle.owner # "none"
  /\ ~handle.asked
  /\ handle' = [handle EXCEPT !.restart = TRUE, !.asked = TRUE]
  /\ UNCHANGED <<ssid, main, task, rtc, radio, stack, air, lease, faults>>

-----------------------------------------------------------------------------
(***************************************************************************)
(* The environment: the network stack's DHCP client, the access points,    *)
(* the DHCP servers, and losses of power (after which a cable may have     *)
(* brought other firmware).                                                *)
(***************************************************************************)
Lease ==
  /\ stack.dhcp
  /\ radio.ap # None
  /\ stack.ip # OwnIp
  /\ stack' = [stack EXCEPT !.ip = OwnIp]
  /\ UNCHANGED <<ssid, main, task, rtc, radio, handle, air, lease, faults>>

LinkDrops ==
  /\ radio' = [radio EXCEPT !.ap = None]
  /\ stack' = [stack EXCEPT !.ip = IF stack.dhcp THEN None ELSE @]

LinkLost ==
  /\ radio.ap # None
  /\ Fault
  /\ LinkDrops
  /\ UNCHANGED <<ssid, main, task, rtc, handle, air, lease>>

ApChanges(s) ==
  /\ Fault
  /\ \E ap \in (Aps \cup {None}) \ {air[s]} :
       /\ ap # None => ap.ssid = s
       /\ air' = [air EXCEPT ![s] = ap]
  /\ IF s = ssid /\ radio.ap # None THEN LinkDrops
                                    ELSE UNCHANGED <<radio, stack>>
  /\ UNCHANGED <<ssid, main, task, rtc, handle, lease>>

Renumber(s) ==
  /\ lease[s] < MaxAddresses
  /\ Fault
  /\ lease' = [lease EXCEPT ![s] = @ + 1]
  /\ UNCHANGED <<ssid, main, task, rtc, radio, stack, handle, air>>

PowerCycle ==
  /\ Fault
  /\ RamLost
  /\ rtc' = PowerOnRtc
  /\ ssid' \in Ssids
  /\ UNCHANGED <<air, lease>>

-----------------------------------------------------------------------------
Main ==
  \/ Connect
  \/ LinkUp
  \/ AddressUp
  \/ RequestsSucceed
  \/ RequestFails

Connection ==
  \/ TaskStart
  \/ Top
  \/ Scan
  \/ ScanStop
  \/ Configure
  \/ Joined
  \/ ConnectError
  \/ TaskStops
  \/ TaskRestarts

Owner ==
  \/ Shutdown
  \/ ShutdownReturns
  \/ SignalRestart

Environment ==
  \/ ConnectFails
  \/ TaskDies
  \/ Lease
  \/ LinkLost
  \/ \E s \in Ssids : ApChanges(s)
  \/ \E s \in Ssids : Renumber(s)
  \/ PowerCycle

Next == Main \/ Connection \/ Owner \/ Reboot \/ Environment

Spec == Init /\ [][Next]_vars

(***************************************************************************)
(* Fairness: the executor polls main and the connection task, timers fire, *)
(* and net_task keeps asking for an address.  The driver answers; that it  *)
(* answers with an error although the access point is there is a fault,    *)
(* and faults end.  Requests begin with a DNS query, which times out, but  *)
(* one that loses its link on the way may wait for ever.  Nothing the      *)
(* owner or the environment does is fair.                                  *)
(***************************************************************************)
FairSpec ==
  /\ Spec
  /\ WF_vars(Main /\ (main = "request" => radio.ap # None))
  /\ WF_vars(Connection)
  /\ WF_vars(ShutdownReturns)
  /\ WF_vars(Lease)

-----------------------------------------------------------------------------
Rtcs ==
  [ssid : Ssids \cup {None}, bssid : Bssids \cup {None}, auth : AuthMethods,
   ip : Ips \cup {None}, uses : 0 .. MaxStaticIpUses]

Radios ==
  [started : BOOLEAN, bssid : Bssids \cup {None}, auth : AuthMethods,
   ap : Aps \cup {None}]

Stacks == [dhcp : BOOLEAN, ip : Ips \cup {None}]

Handles ==
  [owner : {"none", "holds", "waits", "off"}, shutdown : BOOLEAN,
   complete : BOOLEAN, restart : BOOLEAN, asked : BOOLEAN]

(***************************************************************************)
(* Every variable keeps the type of the value it models, and a cached      *)
(* address is counted no further than MAX_STATIC_IP_USES.                  *)
(***************************************************************************)
TypeOK ==
  /\ ssid \in Ssids
  /\ main \in {"boot", "link", "address", "request", "serve"}
  /\ task \in {"none", "start", "top", "scan", "stop", "configure",
               "connect", "up", "restart", "dead"}
  /\ rtc \in Rtcs
  /\ radio \in Radios
  /\ stack \in Stacks
  /\ handle \in Handles
  /\ air \in [Ssids -> Aps \cup {None}]
  /\ lease \in [Ssids -> 1 .. MaxAddresses]
  /\ faults \in 0 .. MaxFaults

(***************************************************************************)
(* What the task configures the driver with is one access point of the     *)
(* network it is to join, with the authentication that one reported or the *)
(* default: the caches that connect and connection_fallible clear in two   *)
(* places never mix two networks, whatever was joined before the restart.  *)
(***************************************************************************)
CacheIsOneAp ==
  task \in {"stop", "configure", "connect", "up"} =>
    \E ap \in Aps :
      /\ ap.ssid = ssid
      /\ ap.bssid = rtc.bssid
      /\ rtc.auth = IF ap.auth = UnknownAuth THEN DefaultAuth ELSE ap.auth

(***************************************************************************)
(* The loop is never at its top with the driver connected, where it would  *)
(* wait for a disconnection that nobody asks for: also not when the signal *)
(* to restart came before the one to shut down.                            *)
(***************************************************************************)
NotConnectedAtTop == task \in {"top", "scan", "configure"} => radio.ap = None

(***************************************************************************)
(* When shutdown has returned the radio is off, and stays off until        *)
(* somebody signals a restart.                                             *)
(***************************************************************************)
ShutdownMeansOff ==
  handle.owner = "off" /\ ~handle.asked => ~radio.started

(***************************************************************************)
(* shutdown returns, unless the driver fails to stop or a restart of the   *)
(* device ends the wait: the request and its acknowledgement, each a       *)
(* signal of one slot, are not lost.                                       *)
(***************************************************************************)
ShutdownCompletes ==
  handle.owner = "waits" ~> handle.owner # "waits" \/ task = "dead"

CacheIsStale ==
  rtc.bssid # None /\ ~Accepts(air[ssid], rtc.bssid, rtc.auth)

Stranded ==
  \/ air[ssid] = None
  \/ task = "dead"
  \/ task = "up" /\ radio.ap = None
  \/ CacheIsStale
  \/ main = "serve" /\ ~stack.dhcp /\ stack.ip # OwnIp
  \/ task = "restart"

(***************************************************************************)
(* After the last fault the device is on the network again and again.  A   *)
(* cached address that is wrong, outdated or from another network, keeps   *)
(* it off for at most MAX_STATIC_IP_USES starts.  It stays away only in    *)
(* one of these ways: the network is not there; the connection task has    *)
(* ended, while main waits for the link or serves nobody; the link was     *)
(* lost behind the back of the task; the cached access point was replaced, *)
(* which the task never scans for again; the network was renumbered under  *)
(* a static address; or WiFi was shut down on purpose.                     *)
(***************************************************************************)
GetsOnline == []<>(main = "serve" /\ Works) \/ <>[]Stranded

=============================================================================
