----------------------------- MODULE HotplugUsb -----------------------------
(***************************************************************************)
(* The USB half of the hotplug coordinator (src/daemon/hotplug.c).        *)
(*                                                                         *)
(* cmld keeps a list of USB mappings (container, vendor/product/serial,   *)
(* type, assign flag, last seen major:minor).  Kernel uevents arrive on    *)
(* the netlink socket and are handled one at a time on the event loop:    *)
(* an "add" of a mapped device records its major:minor in every matching  *)
(* mapping, allows the device in the container's device cgroup and, for   *)
(* a token, starts a 100 ms repeating timer that waits for the /dev node  *)
(* and then attaches the token; a "remove" denies (generic) or detaches   *)
(* (token) every mapping holding the removed major:minor.                  *)
(*                                                                         *)
(* The kernel is the environment: devices are plugged and unplugged, get *)
(* a free major:minor on each plug, their /dev node appears some time     *)
(* after the plug, and every plug and unplug queues a uevent.  A device    *)
(* is identified by vendor/product/serial (an element of Idents) and     *)
(* sits on a fixed port, so its sysfs serial file exists exactly while it *)
(* is plugged.  Its sysfs entry under /sys/bus/usb/devices holds its     *)
(* vendor/product and its serial (a sequence of characters; the empty    *)
(* sequence stands for a device without a serial file).                  *)
(***************************************************************************)
EXTENDS Integers, Sequences, FiniteSets, Bags, BagsExt

Seqs == INSTANCE SequencesExt

CONSTANTS
    Containers,   \* container_t objects that own mappings
    Idents,       \* USB devices, by (id_vendor, id_product, i_serial)
    VidPid,       \* the (id_vendor, id_product) of each device
    Serial,       \* the contents of each device's sysfs serial file
    DevNums,      \* char device numbers major:minor the kernel hands out
    NoDev,        \* major = minor = -1: not yet seen
    MaxMappings,  \* bound on the length of the mapping list
    MaxEvents,    \* bound on uevents queued and not yet handled
    MaxPlugs,     \* bound on the number of plug events of a behaviour
    MaxRegs,      \* bound on the number of registrations of a behaviour
    TokenRetries  \* static int retries = 10 (the code's value is 10)

ASSUME NoDev \notin DevNums
ASSUME \A d, e \in Idents : VidPid[d] = VidPid[e] /\ Serial[d] = Serial[e] => d = e
ASSUME {MaxMappings, MaxEvents, MaxPlugs, MaxRegs, TokenRetries} \subseteq Nat

Types == {"generic", "token"}            \* hotplug_usbdev_type_t

VARIABLES
    devMapList,   \* hotplug_container_dev_mapping_list
    present,      \* kernel: the major:minor of each plugged device
    devnode,      \* kernel: major:minor whose /dev node exists
    uevq,         \* uevents sent by the kernel, not yet handled
    allowed,      \* device cgroup entries <<container, major:minor>>
    attached,     \* containers whose token was last attached, not detached
    tokenTimers,  \* bag of pending hotplug_token_timer_cb timers
    retries,      \* the static retries counter of hotplug_token_timer_cb
    plugs,        \* number of plug events so far (bound only)
    regs          \* number of registrations so far (bound only)

vars == <<devMapList, present, devnode, uevq, allowed, attached,
          tokenTimers, retries, plugs, regs>>

(* The assign flag is only passed on to container_device_allow and is  *)
(* left out: no property tells exclusive from shared allows apart.      *)
Mapping == [container : Containers, ident : Idents, type : Types,
            dev : DevNums \cup {NoDev}]

UEvent == [action : {"add", "remove"}, ident : Idents, dev : DevNums]

(* token_data of a timer: the container and the /dev node (by its      *)
(* major:minor).  ident, the device the timer was started for, and      *)
(* fired, the number of its callbacks so far, are history.              *)
TokenTimer == [container : Containers, dev : DevNums, ident : Idents,
               fired : 0..TokenRetries + 1]

TypeOK ==
    /\ devMapList \in Seq(Mapping)
    /\ present \in [Idents -> DevNums \cup {NoDev}]
    /\ devnode \subseteq DevNums
    /\ uevq \in Seq(UEvent)
    /\ allowed \subseteq Containers \X DevNums
    /\ attached \subseteq Containers
    /\ IsABag(tokenTimers) /\ DOMAIN tokenTimers \subseteq TokenTimer
    /\ retries \in -1..TokenRetries
    /\ plugs \in 0..MaxPlugs
    /\ regs \in 0..MaxRegs

PluggedAt(n) == \E id \in Idents : present[id] = n

Init ==
    /\ devMapList = <<>>
    /\ present = [id \in Idents |-> NoDev]
    /\ devnode = {}
    /\ uevq = <<>>
    /\ allowed = {}
    /\ attached = {}
    /\ tokenTimers = EmptyBag
    /\ retries = TokenRetries
    /\ plugs = 0
    /\ regs = 0

-----------------------------------------------------------------------------
(* Kernel. *)

Plug(id, n) ==
    /\ present[id] = NoDev
    /\ ~PluggedAt(n)
    /\ plugs < MaxPlugs
    /\ Len(uevq) < MaxEvents
    /\ present' = [present EXCEPT ![id] = n]
    /\ uevq' = Append(uevq, [action |-> "add", ident |-> id, dev |-> n])
    /\ plugs' = plugs + 1
    /\ UNCHANGED <<devMapList, devnode, allowed, attached, tokenTimers, retries, regs>>

Unplug(id) ==
    /\ present[id] # NoDev
    /\ Len(uevq) < MaxEvents
    /\ present' = [present EXCEPT ![id] = NoDev]
    /\ devnode' = devnode \ {present[id]}
    /\ uevq' = Append(uevq, [action |-> "remove", ident |-> id, dev |-> present[id]])
    /\ UNCHANGED <<devMapList, allowed, attached, tokenTimers, retries, plugs, regs>>

(* devtmpfs/udev creates the node of a plugged device some time later. *)
CreateDevnode(n) ==
    /\ PluggedAt(n)
    /\ n \notin devnode
    /\ devnode' = devnode \cup {n}
    /\ UNCHANGED <<devMapList, present, uevq, allowed, attached, tokenTimers,
                   retries, plugs, regs>>

-----------------------------------------------------------------------------
(* hotplug_handle_usb_device, for the action of the uevent at the head.  *)

(* A remove loop that stops at the first matching mapping. *)
RemoveHitsFirstOnly(ev) ==
    LET all == {i \in 1..Len(devMapList) : devMapList[i].dev = ev.dev}
    IN {i \in all : \A j \in all : i <= j}

(* The mappings whose recorded major:minor equals the removed device's. *)
RemoveHits(ev) == {i \in 1..Len(devMapList) : devMapList[i].dev = ev.dev}

(* Remove: every hit is detached (token) or denied in the device cgroup *)
(* (generic).                                                            *)
UsbRemove(ev) ==
    LET hit == RemoveHits(ev)
        OfType(type) == {devMapList[i].container : i \in {j \in hit : devMapList[j].type = type}}
    IN /\ attached' = attached \ OfType("token")
       /\ allowed' = allowed \ (OfType("generic") \X {ev.dev})
       /\ UNCHANGED <<devMapList, tokenTimers>>

(* An add loop that matches mappings by their recorded major:minor, as *)
(* the remove loop does.                                                  *)
AddHitsByDev(ev) == {i \in 1..Len(devMapList) : devMapList[i].dev = ev.dev}

(* The mappings with the added device's vendor/product/serial. *)
AddHits(ev) == {i \in 1..Len(devMapList) : devMapList[i].ident = ev.ident}

(* One token timer per matching token mapping, with its token_data. *)
NewTokenTimers(ev) ==
    LET tokens == {i \in AddHits(ev) : devMapList[i].type = "token"}
    IN [t \in {[container |-> devMapList[i].container, dev |-> ev.dev,
                ident |-> ev.ident, fired |-> 0] : i \in tokens} |->
          Cardinality({i \in tokens : devMapList[i].container = t.container})]

(* Allowing with the major:minor the mapping held before the event. *)
AddAllowBeforeRecord(ev) ==
    allowed \cup {<<devMapList[i].container, devMapList[i].dev>> : i \in AddHits(ev)}

(* container_device_allow for every hit, after its major:minor is set. *)
AddAllow(ev) == allowed \cup {<<devMapList[i].container, ev.dev>> : i \in AddHits(ev)}

(* Add: the serial is read from sysfs at the event's devpath; if the     *)
(* device is gone or has no (or an empty) serial file the event is      *)
(* dropped.  The serial is compared in full (strcmp), so the hits are    *)
(* the mappings of exactly this device.  Every hit records the event's  *)
(* major:minor, gets a token timer if it is a token, and is allowed in  *)
(* the device cgroup.                                                    *)
UsbAdd(ev) ==
    IF present[ev.ident] = NoDev \/ Serial[ev.ident] = <<>>
    THEN UNCHANGED <<devMapList, allowed, attached, tokenTimers>>
    ELSE /\ devMapList' = [i \in 1..Len(devMapList) |->
                             IF i \in AddHits(ev) THEN [devMapList[i] EXCEPT !.dev = ev.dev]
                             ELSE devMapList[i]]
         /\ tokenTimers' = tokenTimers (+) NewTokenTimers(ev)
         /\ allowed' = AddAllow(ev)
         /\ UNCHANGED attached

HandleUsbUevent ==
    /\ uevq # <<>>
    /\ LET ev == Head(uevq)
       IN IF ev.action = "remove" THEN UsbRemove(ev) ELSE UsbAdd(ev)
    /\ uevq' = Tail(uevq)
    /\ UNCHANGED <<present, devnode, retries, plugs, regs>>

-----------------------------------------------------------------------------
(* hotplug_token_timer_cb.  Every callback evaluates 0 > retries-- on   *)
(* the one static counter shared by all token timers.  Below zero only  *)
(* the sign of retries matters, so it is kept at -1 there.               *)

(* A callback that forgets to count down. *)
RetriesKept == retries

RetriesDec == IF retries < 0 THEN retries ELSE retries - 1

(* The timer stays for its next callback; fired saturates, past the    *)
(* budget its value no longer matters.                                  *)
Refire(t) == BagAdd(BagRemove(tokenTimers, t),
                    [t EXCEPT !.fired = IF @ > TokenRetries THEN @ ELSE @ + 1])

(* Budget exhausted: free token_data, remove the timer. *)
TokenTimerGiveUp(t) ==
    /\ retries < 0
    /\ tokenTimers' = BagRemove(tokenTimers, t)
    /\ UNCHANGED attached

(* The /dev node is not there yet: return, the timer fires again. *)
TokenTimerWait(t) ==
    /\ retries >= 0
    /\ t.dev \notin devnode
    /\ tokenTimers' = Refire(t)
    /\ UNCHANGED attached

(* The node exists: container_token_attach, then remove the timer. *)
TokenTimerAttach(t) ==
    /\ retries >= 0
    /\ t.dev \in devnode
    /\ attached' = attached \cup {t.container}
    /\ tokenTimers' = BagRemove(tokenTimers, t)

TokenTimerFire(t) ==
    /\ t \in DOMAIN tokenTimers
    /\ retries' = RetriesDec
    /\ \/ TokenTimerGiveUp(t)
       \/ TokenTimerWait(t)
       \/ TokenTimerAttach(t)
    /\ UNCHANGED <<devMapList, present, devnode, uevq, allowed, plugs, regs>>

-----------------------------------------------------------------------------
(* Registration, called by the container on behalf of the control API. *)

(* hotplug_usbdev_new: major = minor = -1. *)
UsbdevNewDev == NoDev

(* hotplug_usbdev_sysfs_foreach_cb accepts a plugged device d for the    *)
(* usbdev of id when the vendor and product match and either d has no    *)
(* serial file or the first strlen(i_serial) characters of d's serial    *)
(* equal the usbdev's serial (strncmp): a prefix match.                  *)
SysfsMatch(id, d) ==
    /\ present[d] # NoDev
    /\ VidPid[d] = VidPid[id]
    /\ Serial[d] = <<>> \/ Seqs!IsPrefix(Serial[id], Serial[d])

(* hotplug_usbdev_set_sysfs_props: dir_foreach calls the callback on    *)
(* every entry, and each accepted entry overwrites major:minor with its   *)
(* dev file, so the last accepted entry in directory order wins; the     *)
(* order is the file system's, any accepted device may be last.  With   *)
(* none accepted major:minor stay -1.                                    *)
SysfsPropsDev(id) ==
    LET acc == {d \in Idents : SysfsMatch(id, d)}
    IN IF acc = {} THEN {NoDev} ELSE {present[d] : d \in acc}

(* hotplug_container_dev_mapping_new: a copy of the usbdev. *)
DevMappingNew(c, id, type, dev) == [container |-> c, ident |-> id, type |-> type, dev |-> dev]

(* hotplug_register_usbdevice: append a copy of the caller's usbdev,     *)
(* made by hotplug_usbdev_new and possibly filled in by                 *)
(* hotplug_usbdev_set_sysfs_props.                                       *)
RegisterUsbDevice(c, id, type) ==
    /\ Len(devMapList) < MaxMappings
    /\ regs < MaxRegs
    /\ \E dev \in {UsbdevNewDev} \cup SysfsPropsDev(id) :
         devMapList' = Append(devMapList, DevMappingNew(c, id, type, dev))
    /\ regs' = regs + 1
    /\ UNCHANGED <<present, devnode, uevq, allowed, attached, tokenTimers,
                   retries, plugs>>

(* hotplug_unregister_usbdevice: the last mapping of the container with *)
(* that vendor/product/serial is unlinked; nothing is denied.            *)
UnregisterUsbDevice(c, id) ==
    LET match == {i \in 1..Len(devMapList) : devMapList[i].container = c
                                            /\ devMapList[i].ident = id}
    IN /\ match # {}
       /\ LET last == CHOOSE i \in match : \A j \in match : j <= i
          IN devMapList' = SubSeq(devMapList, 1, last - 1)
                           \o SubSeq(devMapList, last + 1, Len(devMapList))
       /\ UNCHANGED <<present, devnode, uevq, allowed, attached, tokenTimers,
                      retries, plugs, regs>>

-----------------------------------------------------------------------------
Next ==
    \/ \E id \in Idents, n \in DevNums : Plug(id, n)
    \/ \E id \in Idents : Unplug(id)
    \/ \E n \in DevNums : CreateDevnode(n)
    \/ HandleUsbUevent
    \/ \E t \in DOMAIN tokenTimers : TokenTimerFire(t)
    \/ \E c \in Containers, id \in Idents, type \in Types :
         RegisterUsbDevice(c, id, type)
    \/ \E c \in Containers, id \in Idents : UnregisterUsbDevice(c, id)

(* The event loop handles every readable uevent and every due timer.     *)
Fairness ==
    /\ WF_vars(HandleUsbUevent)
    /\ \A c \in Containers, n \in DevNums :
         WF_vars(\E t \in DOMAIN tokenTimers :
                   t.container = c /\ t.dev = n /\ TokenTimerFire(t))

Spec == Init /\ [][Next]_vars /\ Fairness

-----------------------------------------------------------------------------
(* Properties. *)

Pending(n) == \E i \in 1..Len(uevq) : uevq[i].dev = n

(* Once the removal of a device has been handled, a container that maps *)
(* it with the given type holds no device-cgroup entry for its old      *)
(* major:minor (the remove branch of hotplug_handle_usb_device, with    *)
(* major:minor recorded by the add branch and reused by the kernel).    *)
AccessRevoked(type) ==
    \A i \in 1..Len(devMapList) :
        LET m == devMapList[i]
        IN (m.type = type /\ m.dev # NoDev /\ ~PluggedAt(m.dev) /\ ~Pending(m.dev))
           => <<m.container, m.dev>> \notin allowed

(* Generic mappings: access ends with the device. *)
GenericAccessRevoked == AccessRevoked("generic")

(* Every token timer started for a container and major:minor is          *)
(* eventually removed: the callback never spins forever.                 *)
TokenTimerTerminates ==
    \A c \in Containers, n \in DevNums :
        (\E t \in DOMAIN tokenTimers : t.container = c /\ t.dev = n)
          ~> (\A t \in DOMAIN tokenTimers : ~(t.container = c /\ t.dev = n))

(* Spec property 3, the allow half: an add uevent of a device that a    *)
(* container maps leads to a device-cgroup allow of the container on     *)
(* the device's major:minor, unless the device is unplugged or the       *)
(* mapping unregistered first.  The mapping may be registered after the  *)
(* plug, while the uevent waits in the queue: the add branch of           *)
(* hotplug_handle_usb_device reads the list when it handles the event.   *)
AddPending(id, n) == \E k \in 1..Len(uevq) : uevq[k] = [action |-> "add", ident |-> id, dev |-> n]

Maps(c, id) == \E i \in 1..Len(devMapList) : devMapList[i].container = c /\ devMapList[i].ident = id

MappedAddAllowed ==
    \A c \in Containers, id \in Idents, n \in DevNums :
        (AddPending(id, n) /\ Maps(c, id))
            ~> (<<c, n>> \in allowed \/ present[id] # n \/ ~Maps(c, id))

(* A token timer has exactly its own 10 attempts (spec 4.4: "a         *)
(* repeating debounce timer (100 ms, up to 10 attempts)"; scenario S1:   *)
(* the attach comes within 1 s): it gives up only after its 10th        *)
(* callback, and it attaches only in one of its first 10.  It is about   *)
(* the static retries counter of hotplug_token_timer_cb and its test     *)
(* 0 > retries--.                                                        *)
TokenRetryBudget ==
    [][\A t \in DOMAIN tokenTimers :
         TokenTimerFire(t) =>
            /\ TokenTimerGiveUp(t) => t.fired >= TokenRetries
            /\ TokenTimerAttach(t) => t.fired < TokenRetries]_vars

(* A container holds a USB device only through a mapping of its own     *)
(* for the device now on that node, and a token device is held by at most *)
(* one container (spec 3, USB mapping; 4.4 rules 1 and 2; scenario S1).   *)
(* Once no uevent about the node is pending, every device-cgroup entry    *)
(* of a container is backed by one of its mappings whose device is       *)
(* plugged there; once no removal is pending, every attached container    *)
(* has a token mapping whose device is plugged; and no two containers     *)
(* with a token mapping of the device on a node are both allowed on it.   *)
(* It is about the remove branch of hotplug_handle_usb_device, the token  *)
(* timer, which outlives the removal of its device, and registration and  *)
(* unregistration, which neither check nor revoke anything.              *)
HoldsMappingAt(c, n, types) ==
    \E i \in 1..Len(devMapList) :
        /\ devMapList[i].container = c /\ devMapList[i].type \in types
        /\ present[devMapList[i].ident] = n

RemovePending == \E i \in 1..Len(uevq) : uevq[i].action = "remove"

UsbAccessFollowsMappings ==
    /\ \A p \in allowed : ~Pending(p[2]) => HoldsMappingAt(p[1], p[2], Types)
    /\ \A c \in attached : ~RemovePending => \E n \in DevNums : HoldsMappingAt(c, n, {"token"})
    /\ \A n \in DevNums :
         Cardinality({c \in Containers : <<c, n>> \in allowed /\ HoldsMappingAt(c, n, {"token"})}) <= 1
=============================================================================
