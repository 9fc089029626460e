------------------------------- MODULE PortMap -------------------------------
(* The thread that asks the router to forward the server's ports, and says    *)
(* under which URL the server is reached: portmap.rs.  UPnP is tried first,   *)
(* then NAT-PMP; a mapping is a lease that a later round renews.              *)
(*                                                                            *)
(* The router is external: it may or may not speak either protocol, report    *)
(* its address, grant a mapping - for a shorter time than was asked, NAT-PMP  *)
(* under another external port - and restart, which drops the mappings.  An   *)
(* address is known by its kind.                                              *)
EXTENDS Naturals, FiniteSets, Sequences

CONSTANTS
    Port,         \* the ports the listeners use
    Web,          \* the one of the web page
    Lease, Sleep, \* what is asked for, and the pause between two rounds
    Round,        \* the time a round takes at most
    Grants,       \* the times routers grant a mapping for
    MaxRestarts   \* bound: restarts of the router

PortMapAssumption ==
    /\ Web \in Port
    /\ {Lease, Sleep, Round, MaxRestarts} \subseteq Nat /\ Grants \subseteq Nat
    /\ Sleep + 2 * Round < Lease

Kind == {"public", "cgnat", "private"}
None == "none"

VARIABLES
    override, auto,         \* public_url, auto_port_forward
    pc, method, wan, todo, mapped, failed,   \* of the round under way
    slept, used,            \* time spent in the pause, and in the round
    lease,                  \* at the router: time left of each mapping
    good,                   \* mappings granted for long enough, and renewed or not dropped since
    shown, file,            \* current(), public_url.txt
    restarts

vars == <<override, auto, pc, method, wan, todo, mapped, failed, slept, used, lease, good,
          shown, file, restarts>>

config == <<override, auto>>
router == <<lease, good, restarts>>
result == <<method, wan, todo, mapped, failed>>
output == <<shown, file>>
time   == <<slept, used>>

-------------------------------------------------------------------------------
(* is_public_ipv4: CGNAT addresses are as little reachable as private ones.   *)
IsPublic(kind) == kind = "public"

(* build_access: whether a port was mapped makes no difference.               *)
Access ==
    [reachable |-> IsPublic(wan), method |-> method,
     url |-> IF IsPublic(wan) THEN "public" ELSE "lan",
     note |-> CASE IsPublic(wan) -> "share" [] wan = None -> "manual" [] OTHER -> "relay"]

Configured == [reachable |-> TRUE, method |-> "manual", url |-> "override", note |-> "configured"]
ManualOnly == [reachable |-> FALSE, method |-> None, url |-> "lan", note |-> "disabled"]
Unknown    == [reachable |-> FALSE, method |-> None, url |-> None, note |-> None]

Init ==
    /\ override \in BOOLEAN /\ auto \in BOOLEAN
    /\ pc = "start" /\ method = None /\ wan = None
    /\ todo = {} /\ mapped = {} /\ failed = {}
    /\ slept = 0 /\ used = 0
    /\ lease = [p \in Port |-> 0] /\ good = {}
    /\ shown = Unknown /\ file = Unknown
    /\ restarts = 0

Step(from, to) == pc = from /\ pc' = to

(* An operator's own URL, and no forwarding at all, need no rounds.           *)
Fixed ==
    /\ override \/ ~auto
    /\ Step("start", "fixed")
    /\ file' = IF override THEN Configured ELSE ManualOnly
    /\ UNCHANGED <<config, result, time, router, shown>>

FixedShown ==
    /\ Step("fixed", "done")
    /\ shown' = file
    /\ UNCHANGED <<config, result, time, router, file>>

(* A round: SSDP, the device description, and the control URL in it ...       *)
Discovered ==
    /\ ~override /\ auto /\ Step("start", "upnpAddress")
    /\ method' = "upnp" /\ wan' = None
    /\ todo' = Port /\ mapped' = {} /\ failed' = {}
    /\ UNCHANGED <<config, time, router, output>>

(* ... or nothing of the kind, and the default gateway or none: nothing is    *)
(* renewed then.                                                              *)
Undiscovered(gateway) ==
    /\ ~override /\ auto
    /\ Step("start", IF gateway THEN "natpmpAddress" ELSE "publish")
    /\ method' = IF gateway THEN "natpmp" ELSE None
    /\ wan' = None
    /\ todo' = (IF gateway THEN Port ELSE {}) /\ mapped' = {} /\ failed' = {}
    /\ good' = IF gateway THEN good ELSE {}
    /\ UNCHANGED <<config, time, lease, restarts, output>>

WanAddress(kind) ==
    /\ \/ Step("upnpAddress", "upnpMap") \/ Step("natpmpAddress", "natpmpMap")
    /\ wan' = kind
    /\ UNCHANGED <<config, method, todo, mapped, failed, time, router, output>>

(* From one renewal of a mapping to the next: a round, the pause and a round. *)
Renewal == Sleep + 2 * Round

(* AddPortMapping, or a NAT-PMP request, is granted, for a time that nobody   *)
(* looks at ...                                                               *)
Mapped(p) ==
    /\ pc \in {"upnpMap", "natpmpMap"} /\ p \in todo
    /\ todo' = todo \ {p} /\ mapped' = mapped \union {p}
    /\ \E granted \in Grants :
         /\ lease' = [lease EXCEPT ![p] = granted]
         /\ good' = IF granted > Renewal THEN good \union {p} ELSE good \ {p}
    /\ UNCHANGED <<config, pc, method, wan, failed, time, restarts, output>>

(* ... or it seems to be: NAT-PMP grants another external port, which is      *)
(* taken for the same; a UPnP router's answer is empty or does not come,      *)
(* which is taken for a success ...                                           *)
SeemsMapped(p) ==
    /\ pc \in {"upnpMap", "natpmpMap"} /\ p \in todo
    /\ todo' = todo \ {p} /\ mapped' = mapped \union {p} /\ good' = good \ {p}
    /\ UNCHANGED <<config, pc, method, wan, failed, time, lease, restarts, output>>

(* ... or not.                                                                *)
NotMapped(p) ==
    /\ pc \in {"upnpMap", "natpmpMap"} /\ p \in todo
    /\ todo' = todo \ {p} /\ failed' = failed \union {p} /\ good' = good \ {p}
    /\ UNCHANGED <<config, pc, method, wan, mapped, time, lease, restarts, output>>

(* A UPnP router that gave neither an address nor a mapping is given up.      *)
UpnpDone ==
    /\ todo = {} /\ (wan # None \/ mapped # {})
    /\ Step("upnpMap", "publish")
    /\ UNCHANGED <<config, result, time, router, output>>

UpnpUseless(gateway) ==
    /\ todo = {} /\ wan = None /\ mapped = {}
    /\ Step("upnpMap", IF gateway THEN "natpmpAddress" ELSE "publish")
    /\ method' = IF gateway THEN "natpmp" ELSE None
    /\ todo' = (IF gateway THEN Port ELSE {}) /\ failed' = {}
    /\ UNCHANGED <<config, wan, mapped, time, router, output>>

NatpmpDone ==
    /\ todo = {} /\ Step("natpmpMap", "publish")
    /\ UNCHANGED <<config, result, time, router, output>>

(* write_state_file, which may fail unnoticed, and set_current.               *)
Publish ==
    /\ Step("publish", "show")
    /\ file' \in {file, Access}
    /\ UNCHANGED <<config, result, time, router, shown>>

Show ==
    /\ Step("show", "sleep")
    /\ shown' = Access
    /\ slept' = 0
    /\ UNCHANGED <<config, result, used, router, file>>

(* Mutant: the pause is as long as the lease. *)
PauseLease == Lease
Pause == Sleep

WakeUp ==
    /\ slept = Pause /\ Step("sleep", "start")
    /\ used' = 0
    /\ UNCHANGED <<config, result, slept, router, output>>

(* Time passes: in the pause exactly Pause, in a round at most Round.         *)
Tick ==
    /\ IF pc = "sleep" THEN slept < Pause /\ slept' = slept + 1 /\ UNCHANGED used
       ELSE pc # "done" /\ used < Round /\ used' = used + 1 /\ UNCHANGED slept
    /\ lease' = [p \in Port |-> IF lease[p] = 0 THEN 0 ELSE lease[p] - 1]
    /\ UNCHANGED <<config, pc, result, good, restarts, output>>

RouterRestart ==
    /\ restarts < MaxRestarts
    /\ restarts' = restarts + 1
    /\ lease' = [p \in Port |-> 0] /\ good' = {}
    /\ UNCHANGED <<config, pc, result, time, output>>

Next ==
    \/ Fixed \/ FixedShown \/ Discovered \/ UpnpDone \/ NatpmpDone
    \/ \E g \in BOOLEAN : Undiscovered(g) \/ UpnpUseless(g)
    \/ \E k \in Kind \union {None} : WanAddress(k)
    \/ \E p \in Port : Mapped(p) \/ SeemsMapped(p) \/ NotMapped(p)
    \/ Publish \/ Show \/ WakeUp \/ Tick \/ RouterRestart
    \/ pc = "done" /\ UNCHANGED vars

Spec == Init /\ [][Next]_vars

-------------------------------------------------------------------------------
(* start: "Renews UPnP/NAT-PMP leases periodically so the mapping survives":  *)
(* a mapping that the router did grant, as long as was asked for or at least  *)
(* longer than a renewal may take, and has not refused to renew so nor lost   *)
(* in a restart, never lapses between two rounds.                             *)
MappingSurvives == \A p \in good : lease[p] > 0
===============================================================================
