----------------------------- MODULE HotplugNet -----------------------------
(***************************************************************************)
(* The network half of the hotplug coordinator (src/daemon/hotplug.c).    *)
(*                                                                         *)
(* At start hotplug_init renames every interface of cmld's list of        *)
(* physical interfaces to cml{eth|wlan}<n> and registers for uevents.     *)
(* An "add" uevent of a non-virtual net device puts its name on that list *)
(* and starts a 100 ms repeating timer holding a copy of the event.  The  *)
(* timer waits until a "wlan" device shows up as wireless in sysfs, then  *)
(* hotplug_netdev_move looks up the interface's MAC by its name, picks    *)
(* the container of the first net mapping with that MAC (else c0),        *)
(* checks that the container is STARTING, BOOTING or RUNNING, renames the *)
(* interface and moves it into the container's network namespace; the    *)
(* timer is removed whatever the outcome.                                 *)
(*                                                                         *)
(* The kernel is the environment: interfaces appear under a kernel name   *)
(* (eth0, wlan0, ...) that is free in the host, a wireless one becomes    *)
(* visible as such in sysfs some time later, interfaces disappear, and an *)
(* interface inside a container's namespace falls back to the host when   *)
(* the container stops.  A MAC is identified with its interface.          *)
(***************************************************************************)
EXTENDS Integers, Sequences, SequencesExt, FiniteSets, Bags, BagsExt

CONSTANTS
    Containers,   \* container_t objects
    C0,           \* cmld_containers_get_c0()
    Ifaces,       \* physical network interfaces, each with its own MAC
    MappedMacs,   \* the MACs the containers' configurations name
    KernelNames,  \* names the kernel gives new interfaces
    Devtype,      \* the DEVTYPE of an interface's uevent (DevTypes)
    InitPhys,     \* cmld's list of physical interface names at hotplug_init
    InitName,     \* the kernel name of each interface present at start
    HostedMode,   \* cmld_is_hostedmode_active()
    KernelFaults, \* whether rename and move may fail in the kernel
    Shutdown,     \* whether cmld shuts down (hotplug_cleanup) in a behaviour
    MaxMappings,  \* bound on the length of the net mapping list
    MaxEvents,    \* bound on uevents queued and not yet handled
    MaxPlugs,     \* bound on plug events of a behaviour
    MaxRegs,      \* bound on registrations of a behaviour
    MaxStarts,    \* bound on container starts of a behaviour
    MaxRestarts   \* bound on restarts of cmld in a behaviour

(* DEVTYPE values of physical net devices: none (ethernet), "wlan", and   *)
(* "wwan" (mobile broadband modems, e.g. qmi_wwan, cdc_mbim).             *)
DevTypes == {"", "wlan", "wwan"}

ASSUME C0 \in Containers
ASSUME MappedMacs \subseteq Ifaces
ASSUME Devtype \in [Ifaces -> DevTypes]
ASSUME InitName \in [Ifaces -> KernelNames \cup {"none"}]
ASSUME {MaxMappings, MaxEvents, MaxPlugs, MaxRegs, MaxStarts, MaxRestarts} \subseteq Nat

VARIABLES
    netMapList,   \* hotplug_container_netdev_mapping_list
    ifs,          \* kernel: name and namespace of each interface
    wifiReady,    \* kernel: interfaces whose sysfs "wireless" entry exists
    uevq,         \* net add uevents sent by the kernel, not yet handled
    netTimers,    \* bag of pending hotplug_sysfs_netif_timer_cb timers
    ethIdx,       \* static cmld_eth_idx of hotplug_rename_ifi_new
    wlanIdx,      \* static cmld_wlan_idx of hotplug_rename_ifi_new
    physList,     \* cmld's list of physical interface names
    initPending,  \* names of physList hotplug_init has still to rename
    uevUev,       \* uevent_uev: "none" (NULL), "added", or "removed" (freed)
    cstate,       \* container states
    plugs, regs, starts, restarts   \* bounds only

vars == <<netMapList, ifs, wifiReady, uevq, netTimers, ethIdx, wlanIdx,
          physList, initPending, uevUev, cstate, plugs, regs, starts, restarts>>

C == INSTANCE Compartment

-----------------------------------------------------------------------------
(* Interface names: a kernel name, or "cml" infix index. *)
CmlName(infix, idx) == [infix |-> infix, idx |-> idx]

IsCml(name) == name \notin KernelNames

(* The name of an interface that is not plugged. *)
NoName == CmlName("none", 0)

(* The infix of a cml name: "eth", or the DEVTYPE of the event. *)
Infixes == {"eth"} \cup (DevTypes \ {""})

Names == KernelNames \cup [infix : Infixes, idx : Nat]

NsValues == {"host", "gone"} \cup Containers

Mapping == [container : Containers, mac : Ifaces]

(* A copy of the add uevent; iface, the interface that sent it, is       *)
(* history: the code knows the interface only by its name.              *)
UEvent == [name : Names, devtype : DevTypes, virtual : BOOLEAN,
           iface : Ifaces \cup {"none"}]

TypeOK ==
    /\ netMapList \in Seq(Mapping)
    /\ ifs \in [Ifaces -> [name : Names \cup {NoName}, ns : NsValues]]
    /\ wifiReady \subseteq Ifaces
    /\ uevq \in Seq(UEvent)
    /\ IsABag(netTimers) /\ DOMAIN netTimers \subseteq UEvent
    /\ ethIdx \in Nat /\ wlanIdx \in Nat
    /\ physList \subseteq Names
    /\ initPending \in Seq(Names)
    /\ uevUev \in {"none", "added", "removed"}
    /\ C!TypeOK

(* The interface in the host namespace that carries a name. *)
HostIfaces(name) == {i \in Ifaces : ifs[i].ns = "host" /\ ifs[i].name = name}

InUseInHost(name) == HostIfaces(name) # {}

Init ==
    /\ netMapList = <<>>
    /\ ifs = [i \in Ifaces |-> IF InitName[i] = "none" THEN [name |-> NoName, ns |-> "gone"]
                                ELSE [name |-> InitName[i], ns |-> "host"]]
    /\ wifiReady = {i \in Ifaces : InitName[i] # "none" /\ Devtype[i] = "wlan"}
    /\ uevq = <<>>
    /\ netTimers = EmptyBag
    /\ ethIdx = 0 /\ wlanIdx = 0
    /\ physList = {InitPhys[k] : k \in 1..Len(InitPhys)}
    /\ initPending = IF HostedMode THEN <<>> ELSE InitPhys
    /\ uevUev = "none"
    /\ C!Init
    /\ plugs = 0 /\ regs = 0 /\ starts = 0 /\ restarts = 0

-----------------------------------------------------------------------------
(* hotplug_rename_ifi_new: the name is built from the family's counter, *)
(* the counter is incremented, then the kernel renames; the rename fails *)
(* if the name is taken in the host, or on a kernel error.               *)

(* The counter an infix draws from. *)
Family(infix) == IF infix = "wlan" THEN "wlan" ELSE "eth"

NextNameAfterBump(infix) ==
    CmlName(infix, (IF Family(infix) = "wlan" THEN wlanIdx ELSE ethIdx) - 1)

NextName(infix) == CmlName(infix, IF Family(infix) = "wlan" THEN wlanIdx ELSE ethIdx)

(* A slip in the counter choice: every rename consumes the eth index. *)
BumpIdxEthOnly(infix) == ethIdx' = ethIdx + 1 /\ wlanIdx' = wlanIdx

BumpIdx(infix) ==
    IF Family(infix) = "wlan"
    THEN wlanIdx' = wlanIdx + 1 /\ ethIdx' = ethIdx
    ELSE ethIdx' = ethIdx + 1 /\ wlanIdx' = wlanIdx

RenameOutcomes(new) ==
    IF InUseInHost(new) THEN {FALSE} ELSE IF KernelFaults THEN BOOLEAN ELSE {TRUE}

PhysReplaceNoAdd(old, new) == physList \ {old}

(* cmld_netif_phys_remove_by_name, then cmld_netif_phys_add_by_name. *)
PhysReplace(old, new) ==
    IF old \in physList THEN (physList \ {old}) \cup {new} ELSE physList

-----------------------------------------------------------------------------
(* hotplug_init: one iteration of the renaming loop over the list, then  *)
(* the registration of the uevent handler.                               *)

HotplugInitRename ==
    /\ initPending # <<>>
    /\ LET old == Head(initPending)
           infix == IF \E i \in HostIfaces(old) : i \in wifiReady THEN "wlan" ELSE "eth"
           new == NextName(infix)
       IN /\ BumpIdx(infix)
          /\ \E ok \in RenameOutcomes(new) :
               IF ok /\ InUseInHost(old)
               THEN /\ ifs' = [i \in Ifaces |-> IF i \in HostIfaces(old)
                                                THEN [ifs[i] EXCEPT !.name = new] ELSE ifs[i]]
                    /\ physList' = (physList \ {old}) \cup {new}
               ELSE UNCHANGED <<ifs, physList>>
    /\ initPending' = Tail(initPending)
    /\ UNCHANGED <<netMapList, wifiReady, uevq, netTimers, uevUev, cstate,
                   plugs, regs, starts, restarts>>

HotplugInitRegister ==
    /\ initPending = <<>>
    /\ uevUev = "none"
    /\ uevUev' = "added"
    /\ UNCHANGED <<netMapList, ifs, wifiReady, uevq, netTimers, ethIdx, wlanIdx,
                   physList, initPending, cstate, plugs, regs, starts, restarts>>

(* hotplug_cleanup, at cmld's shutdown: the handler is removed from the *)
(* uevent source and freed (the pointer is left dangling, so the         *)
(* IF_NULL_RETURN guard no longer protects a second call).  Pending net   *)
(* timers are not removed: they keep firing on the event loop.  Before   *)
(* hotplug_init it returns at once, a step that changes nothing.         *)
HotplugCleanup ==
    /\ Shutdown
    /\ uevUev = "added"
    /\ uevUev' = "removed"
    /\ UNCHANGED <<netMapList, ifs, wifiReady, uevq, netTimers, ethIdx, wlanIdx,
                   physList, initPending, cstate, plugs, regs, starts, restarts>>

(* cmld exits and is started again.  The process state is lost: the     *)
(* mapping list, the uevent handler with the uevents still queued on    *)
(* its netlink socket, the timers, and the two static counters of        *)
(* hotplug_rename_ifi_new, which start at 0 again.  The kernel keeps the *)
(* interfaces and the names they carry.  The containers, cmld's         *)
(* children, have stopped and their interfaces are back in the host.    *)
(* The new cmld's list of physical interfaces holds the names of the     *)
(* interfaces in the host, in some order, and hotplug_init starts over.  *)
CmldRestart ==
    /\ restarts < MaxRestarts
    /\ \A c \in Containers : cstate[c] = "STOPPED"
    /\ LET host == {ifs[i].name : i \in {j \in Ifaces : ifs[j].ns = "host"}}
       IN /\ physList' = host
          /\ \E order \in SetToSeqs(host) :
                initPending' = IF HostedMode THEN <<>> ELSE order
    /\ netMapList' = <<>> /\ uevq' = <<>> /\ netTimers' = EmptyBag
    /\ ethIdx' = 0 /\ wlanIdx' = 0
    /\ uevUev' = "none"
    /\ restarts' = restarts + 1
    /\ UNCHANGED <<ifs, wifiReady, cstate, plugs, regs, starts>>

-----------------------------------------------------------------------------
(* Kernel. *)

NetPlug(i, k) ==
    /\ uevUev = "added"
    /\ ifs[i].ns = "gone"
    /\ ~InUseInHost(k)
    /\ plugs < MaxPlugs
    /\ Len(uevq) < MaxEvents
    /\ ifs' = [ifs EXCEPT ![i] = [name |-> k, ns |-> "host"]]
    /\ uevq' = Append(uevq, [name |-> k, devtype |-> Devtype[i], virtual |-> FALSE,
                             iface |-> i])
    /\ plugs' = plugs + 1
    /\ UNCHANGED <<netMapList, wifiReady, netTimers, ethIdx, wlanIdx, physList,
                   initPending, uevUev, cstate, regs, starts, restarts>>

(* A virtual device (a veth of cmld's own network setup) appears. *)
VirtualPlug(k) ==
    /\ uevUev = "added"
    /\ plugs < MaxPlugs
    /\ Len(uevq) < MaxEvents
    /\ uevq' = Append(uevq, [name |-> k, devtype |-> "", virtual |-> TRUE, iface |-> "none"])
    /\ plugs' = plugs + 1
    /\ UNCHANGED <<netMapList, ifs, wifiReady, netTimers, ethIdx, wlanIdx, physList,
                   initPending, uevUev, cstate, regs, starts, restarts>>

(* The remove uevent is not handled by hotplug: nothing is queued. *)
NetUnplug(i) ==
    /\ ifs[i].ns # "gone"
    /\ ifs' = [ifs EXCEPT ![i] = [name |-> NoName, ns |-> "gone"]]
    /\ wifiReady' = wifiReady \ {i}
    /\ UNCHANGED <<netMapList, uevq, netTimers, ethIdx, wlanIdx, physList,
                   initPending, uevUev, cstate, plugs, regs, starts, restarts>>

WifiSysfsReady(i) ==
    /\ ifs[i].ns # "gone"
    /\ Devtype[i] = "wlan"
    /\ i \notin wifiReady
    /\ wifiReady' = wifiReady \cup {i}
    /\ UNCHANGED <<netMapList, ifs, uevq, netTimers, ethIdx, wlanIdx, physList,
                   initPending, uevUev, cstate, plugs, regs, starts, restarts>>

-----------------------------------------------------------------------------
(* Containers, from the spec's state machine.  A start is bounded; when *)
(* a container has stopped, the physical interfaces of its namespace are *)
(* back in the host under the name they had, or under a fresh kernel    *)
(* name if the host has an interface of that name.                      *)

ContainerStart(c) ==
    /\ starts < MaxStarts
    /\ C!Start(c)
    /\ starts' = starts + 1
    /\ UNCHANGED <<netMapList, ifs, wifiReady, uevq, netTimers, ethIdx, wlanIdx,
                   physList, initPending, uevUev, plugs, regs, restarts>>

ContainerStep(c) ==
    /\ C!Boot(c) \/ C!Ready(c) \/ C!Stop(c)
    /\ UNCHANGED <<netMapList, ifs, wifiReady, uevq, netTimers, ethIdx, wlanIdx,
                   physList, initPending, uevUev, plugs, regs, starts, restarts>>

ContainerStopped(c) ==
    /\ C!Stopped(c)
    /\ LET back == {i \in Ifaces : ifs[i].ns = c}
           Clash(i) == InUseInHost(ifs[i].name)
       IN \E fresh \in [back -> KernelNames] :
            /\ \A i \in back : Clash(i) => ~InUseInHost(fresh[i])
            /\ ifs' = [i \in Ifaces |->
                        IF i \in back
                        THEN [name |-> IF Clash(i) THEN fresh[i] ELSE ifs[i].name, ns |-> "host"]
                        ELSE ifs[i]]
    /\ UNCHANGED <<netMapList, wifiReady, uevq, netTimers, ethIdx, wlanIdx,
                   physList, initPending, uevUev, plugs, regs, starts, restarts>>

-----------------------------------------------------------------------------
(* hotplug_handle_uevent_cb, net part: an add of a non-virtual device   *)
(* puts the name on the list and starts a timer on a copy of the event. *)

HandleNetUevent ==
    /\ uevUev = "added"
    /\ uevq # <<>>
    /\ LET ev == Head(uevq) IN
         IF ev.virtual
         THEN UNCHANGED <<physList, netTimers>>
         ELSE /\ physList' = physList \cup {ev.name}
              /\ netTimers' = netTimers (+) SetToBag({ev})
    /\ uevq' = Tail(uevq)
    /\ UNCHANGED <<netMapList, ifs, wifiReady, ethIdx, wlanIdx, initPending,
                   uevUev, cstate, plugs, regs, starts, restarts>>

-----------------------------------------------------------------------------
(* hotplug_netdev_move, called by the timer. *)

(* The first mapping with the interface's MAC, else c0. *)
Target(i) ==
    LET k == SelectInSeq(netMapList, LAMBDA m : m.mac = i)
    IN IF k = 0 THEN C0 ELSE netMapList[k].container

(* The kernel refuses the move if the target namespace has the name. *)
MoveOutcomes(name, tgt) ==
    IF \E j \in Ifaces : ifs[j].ns = tgt /\ ifs[j].name = name THEN {FALSE}
    ELSE IF KernelFaults THEN BOOLEAN ELSE {TRUE}

(* hotplug_rename_interface then cmld_container_add_net_iface: the name *)
(* is the renamed one if the rename worked, else the old one; a failed  *)
(* move leaves the interface in the host.                               *)
RenameAndMove(t, i, tgt) ==
    LET infix == IF t.devtype = "" THEN "eth" ELSE t.devtype
        new == NextName(infix)
    IN /\ BumpIdx(infix)
       /\ \E ok \in RenameOutcomes(new) :
          \E moved \in MoveOutcomes(IF ok THEN new ELSE t.name, tgt) :
            /\ physList' = IF ok THEN PhysReplace(t.name, new) ELSE physList
            /\ ifs' = [ifs EXCEPT ![i] = [name |-> IF ok THEN new ELSE t.name,
                                          ns |-> IF moved THEN tgt ELSE "host"]]

TargetRunning(i) == cstate[Target(i)] = "RUNNING"

(* The target is STARTING, BOOTING or RUNNING. *)
TargetLive(i) == cstate[Target(i)] \in C!Live

(* No interface carries the event's name: no MAC, skipped. *)
NetdevMoveNoIface(t) ==
    /\ HostIfaces(t.name) = {}
    /\ UNCHANGED <<ifs, physList, ethIdx, wlanIdx>>

NetdevMoveNotLive(t) ==
    /\ \E i \in HostIfaces(t.name) : ~TargetLive(i)
    /\ UNCHANGED <<ifs, physList, ethIdx, wlanIdx>>

NetdevMoveLive(t) ==
    \E i \in HostIfaces(t.name) :
        /\ TargetLive(i)
        /\ RenameAndMove(t, i, Target(i))

NetdevMove(t) == NetdevMoveNoIface(t) \/ NetdevMoveNotLive(t) \/ NetdevMoveLive(t)

SysfsNotReadyAnyType(t) == ~\E i \in HostIfaces(t.name) : i \in wifiReady

(* A wlan event waits until the interface of that name is wireless. *)
SysfsNotReady(t) ==
    t.devtype = "wlan" /\ ~\E i \in HostIfaces(t.name) : i \in wifiReady

(* The timer is freed and removed whatever the outcome of the move. *)
NetTimerDone(t) == BagRemove(netTimers, t)

NetTimerFire(t) ==
    /\ t \in DOMAIN netTimers
    /\ ~SysfsNotReady(t)
    /\ netTimers' = NetTimerDone(t)
    /\ NetdevMove(t)
    /\ UNCHANGED <<netMapList, wifiReady, uevq, initPending, uevUev, cstate,
                   plugs, regs, starts, restarts>>

-----------------------------------------------------------------------------
(* hotplug_register_netdev appends a mapping; a pnet name that is not a *)
(* MAC string is refused and leaves the list alone, so only MACs are    *)
(* enumerated.  hotplug_unregister_netdev removes the last match.        *)

(* hotplug_container_netdev_mapping_new: the container and the MAC       *)
(* parsed from pnet_name.  A pnet_name that is not a MAC gives NULL and  *)
(* hotplug_register_netdev returns -1 having changed nothing, a step the *)
(* model leaves out.                                                     *)
NetdevMappingNew(c, mac) == [container |-> c, mac |-> mac]

RegisterNetdev(c, mac) ==
    /\ Len(netMapList) < MaxMappings
    /\ regs < MaxRegs
    /\ netMapList' = Append(netMapList, NetdevMappingNew(c, mac))
    /\ regs' = regs + 1
    /\ UNCHANGED <<ifs, wifiReady, uevq, netTimers, ethIdx, wlanIdx, physList,
                   initPending, uevUev, cstate, plugs, starts, restarts>>

(* An unregistration that removes the first matching mapping instead of *)
(* the last one.                                                        *)
UnregisterNetdevFirst(c, mac) ==
    LET hits == {k \in 1..Len(netMapList) : netMapList[k] = [container |-> c, mac |-> mac]}
    IN /\ hits # {}
       /\ netMapList' = RemoveAt(netMapList, CHOOSE k \in hits : \A j \in hits : k <= j)
       /\ UNCHANGED <<ifs, wifiReady, uevq, netTimers, ethIdx, wlanIdx, physList,
                      initPending, uevUev, cstate, plugs, regs, starts, restarts>>

UnregisterNetdev(c, mac) ==
    LET hits == {k \in 1..Len(netMapList) : netMapList[k] = [container |-> c, mac |-> mac]}
    IN /\ hits # {}
       /\ netMapList' = RemoveAt(netMapList, CHOOSE k \in hits : \A j \in hits : j <= k)
       /\ UNCHANGED <<ifs, wifiReady, uevq, netTimers, ethIdx, wlanIdx, physList,
                      initPending, uevUev, cstate, plugs, regs, starts, restarts>>

-----------------------------------------------------------------------------
Next ==
    \/ HotplugInitRename
    \/ HotplugInitRegister
    \/ HotplugCleanup
    \/ CmldRestart
    \/ HandleNetUevent
    \/ \E t \in DOMAIN netTimers : NetTimerFire(t)
    \/ \E c \in Containers, m \in MappedMacs : RegisterNetdev(c, m) \/ UnregisterNetdev(c, m)
    \/ \E i \in Ifaces, k \in KernelNames : NetPlug(i, k)
    \/ \E k \in KernelNames : VirtualPlug(k)
    \/ \E i \in Ifaces : NetUnplug(i) \/ WifiSysfsReady(i)
    \/ \E c \in Containers : ContainerStart(c) \/ ContainerStep(c) \/ ContainerStopped(c)

(* The event loop services every ready fd and every due timer: uevents *)
(* are handled, and a timer whose interface is ready fires.  hotplug_init *)
(* runs to its end.  The kernel eventually publishes a wireless entry.   *)
Fairness ==
    /\ WF_vars(HotplugInitRename) /\ WF_vars(HotplugInitRegister)
    /\ WF_vars(HandleNetUevent)
    /\ \A i \in Ifaces : WF_vars(\E t \in DOMAIN netTimers : t.iface = i /\ NetTimerFire(t))
    /\ \A i \in Ifaces : WF_vars(WifiSysfsReady(i))

Spec == Init /\ [][Next]_vars /\ Fairness


-----------------------------------------------------------------------------
(* Properties. *)

Queued(i) == \E k \in 1..Len(uevq) : uevq[k].iface = i

HasTimer(i) == \E t \in DOMAIN netTimers : t.iface = i

(* cmld's list of physical interfaces (hotplug_init's loop, the add      *)
(* handler and hotplug_rename_interface all edit it) names every         *)
(* interface in the host whose add uevent has been handled, through the  *)
(* renames at start, by a timer, and after a return from a container.    *)
PhysListKnowsHostIfaces ==
    \A i \in Ifaces : ifs[i].ns = "host" /\ ~Queued(i) => ifs[i].name \in physList

(* Spec property 4: an interface that hotplug_netdev_move has moved into *)
(* a container's namespace carries the name hotplug_rename_interface     *)
(* gave it, cml<family><n>, of the family of the interface's own DEVTYPE *)
(* (cmlwlan for a wireless one, cmleth for any other: rule 3(b) of spec  *)
(* 4.4 knows only these two families).                                   *)
MovedIfaceRenamed ==
    \A i \in Ifaces :
        ifs[i].ns \in Containers =>
            IsCml(ifs[i].name) /\ ifs[i].name.infix = Family(Devtype[i])

(* The net mapping list is not checked for a MAC already mapped: the     *)
(* first registration of a MAC wins (hotplug_register_netdev appends,     *)
(* hotplug_netdev_move takes the first match).  While the mapping that    *)
(* decides where an interface goes stays in the list, no registration or  *)
(* unregistration of another compartment's mapping redirects the         *)
(* interface to that compartment.                                        *)
FirstRegistrationWins ==
    [][\A i \in Ifaces :
         Target(i)' # Target(i) => NetdevMappingNew(Target(i), i) \notin Range(netMapList')
      ]_netMapList

(* The cml names interfaces carry, and the refinement mapping onto the  *)
(* abstract allocator: the two static counters are its next indexes.     *)
HeldCmlNames ==
    {ifs[i].name : i \in {j \in Ifaces : ifs[j].ns # "gone" /\ IsCml(ifs[j].name)}}

NA == INSTANCE NameAllocator WITH
        Families <- {"eth", "wlan"},
        next <- [f \in {"eth", "wlan"} |-> IF f = "wlan" THEN wlanIdx ELSE ethIdx],
        held <- HeldCmlNames

(* hotplug_init and hotplug_rename_interface name interfaces as the      *)
(* abstract allocator does: a cml name appears only as the current index *)
(* of its family while that counter moves on by one, the counters never  *)
(* move otherwise, and no step gives an interface a cml name it could    *)
(* share with another: every step of HotplugNet is a step of NA!Spec.     *)
(* It is a promise of one run of cmld: a restart (CmldRestart) sets the  *)
(* counters back to 0, which the allocator never does; what that costs   *)
(* is the subject of MovedIfaceRenamed, and so is a wwan interface,     *)
(* whose cmlwwan name lies outside the allocator's two families.         *)
NameAllocation == NA!Spec

(* Timers of the given interfaces go away: hotplug_sysfs_netif_timer_cb *)
(* removes itself after one hotplug_netdev_move, once a wlan interface   *)
(* is wireless in sysfs.                                                 *)
TimerTerminates(S) == \A i \in S : HasTimer(i) ~> ~HasTimer(i)

EthTimerTerminates == TimerTerminates({i \in Ifaces : Devtype[i] = ""})

WifiTimerTerminates == TimerTerminates({i \in Ifaces : Devtype[i] = "wlan"})

(* Spec property 4: a plugged interface whose MAC is mapped to a live   *)
(* container ends up in that container's namespace, unless it is        *)
(* unplugged, the mapping goes, the container stops or cmld shuts down  *)
(* (hotplug_cleanup) first.                                              *)
NetIfaceReachesTarget ==
    \A i \in Ifaces, c \in Containers :
        (Queued(i) /\ Target(i) = c /\ cstate[c] \in C!Live)
            ~> (\/ ifs[i].ns \in {c, "gone"} \/ Target(i) # c \/ cstate[c] \notin C!Live
                \/ uevUev = "removed")

=============================================================================
