--------------------------- MODULE MC_HotplugUsb ---------------------------
(* Model of HotplugUsb for TLC: two containers, two USB devices, two     *)
(* major:minor numbers, so that a number is reused by another device.    *)
EXTENDS HotplugUsb, TLC

CONSTANTS c1, c2, u1, u2, n1, n2

MCContainers == {c1, c2}
MCIdents == {u1, u2}
MCDevNums == {n1, n2}

(* Both devices have the same vendor/product; u2's serial extends u1's   *)
(* (as "00012" extends "0001"), so the sysfs lookup for u1 accepts u2.   *)
MCVidPid == [d \in MCIdents |-> "1050:0407"]
MCSerial == (u1 :> <<"0", "1">>) @@ (u2 :> <<"0", "1", "2">>)

(* One container, for the liveness runs (no symmetry there). *)
MCOneContainer == {c1}

(* Containers and device numbers are interchangeable (the devices are  *)
(* not: their serials differ).  Used by the runs that check safety only. *)
MCSymmetry == Permutations(MCContainers) \cup Permutations(MCDevNums)
=============================================================================
