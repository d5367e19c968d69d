---------------------------- MODULE DevpathRewrite ----------------------------
(***************************************************************************)
(* The rewrite of a net uevent's DEVPATH when hotplug_rename_interface   *)
(* (src/daemon/hotplug.c) renames the interface: the copy of the event   *)
(* that is injected into the container's namespace carries the devpath   *)
(* hotplug_replace_devpath_new computes from the old devpath, the old    *)
(* interface name and the new one.                                       *)
(*                                                                         *)
(* Strings are sequences of one-character strings.  The devpath of a net *)
(* device is its parent device's path, "/", then the interface name (the *)
(* kernel's /devices/.../net/<ifname>).  One step rewrites one devpath.  *)
(***************************************************************************)
EXTENDS Integers, Sequences, SequencesExt

CONSTANTS
    Parents,   \* sysfs paths of parent devices, ending in the net directory
    IfNames,   \* names the kernel gives new interfaces
    NewNames   \* cml names the interface is renamed to

Null == <<"NULL">>

VARIABLES
    devpath,   \* the DEVPATH of the event
    ifname,    \* the INTERFACE of the event: the name before the rename
    newname,   \* the name after the rename
    result     \* what hotplug_replace_devpath_new returned; <<>> before

vars == <<devpath, ifname, newname, result>>

DevpathOf(parent, name) == parent \o <<"/">> \o name

Init ==
    /\ \E p \in Parents, i \in IfNames, n \in NewNames :
         /\ devpath = DevpathOf(p, i) /\ ifname = i /\ newname = n
    /\ result = <<>>

(* hotplug_replace_devpath_new(str, oldstr, newstr): strstr finds the    *)
(* first occurrence of oldstr, anywhere in str (NULL if none); the        *)
(* characters before it are copied, then newstr, then the rest after it. *)
ReplaceDevpathNew(str, oldstr, newstr) ==
    IF oldstr \in SubSeqs(str) THEN ReplaceFirstSubSeq(newstr, oldstr, str) ELSE Null

(* hotplug_rename_interface computes the new devpath after the rename   *)
(* succeeded.                                                            *)
RewriteDevpath ==
    /\ result = <<>>
    /\ result' = ReplaceDevpathNew(devpath, ifname, newname)
    /\ UNCHANGED <<devpath, ifname, newname>>

Next == RewriteDevpath

Spec == Init /\ [][Next]_vars

-----------------------------------------------------------------------------
(* The devpath the container receives names the renamed interface where *)
(* the original named the old one (spec 4.4, rule 3(c): the uevent's     *)
(* interface and devpath fields are rewritten with the new name): only   *)
(* the last component, the interface's own directory, changes.           *)
DevpathNamesInterface ==
    result # <<>> =>
        \E p \in Parents : devpath = DevpathOf(p, ifname) /\ result = DevpathOf(p, newname)
=============================================================================
