----------------------------- MODULE Compartment -----------------------------
(***************************************************************************)
(* The compartment state machine of spec.md section 3, reduced to the     *)
(* states the hotplug coordinator tells apart.  container.c is not part  *)
(* of the sources, so this module is written from the spec.  FREEZING,   *)
(* FROZEN, REBOOTING, SETUP and ZOMBIE are left out: hotplug_netdev_move  *)
(* treats them all like STOPPED (not STARTING, BOOTING or RUNNING).       *)
(***************************************************************************)
CONSTANTS Containers

VARIABLE cstate

States == {"STOPPED", "STARTING", "BOOTING", "RUNNING", "SHUTTING_DOWN"}

(* The states in which hotplug_netdev_move moves an interface. *)
Live == {"STARTING", "BOOTING", "RUNNING"}

TypeOK == cstate \in [Containers -> States]

Init == cstate = [c \in Containers |-> "STOPPED"]

Step(c, from, to) ==
    /\ cstate[c] = from
    /\ cstate' = [cstate EXCEPT ![c] = to]

Start(c) == Step(c, "STOPPED", "STARTING")
Boot(c) == Step(c, "STARTING", "BOOTING")
Ready(c) == Step(c, "BOOTING", "RUNNING")

(* Stop requested or child exited. *)
Stop(c) ==
    /\ cstate[c] \in Live
    /\ cstate' = [cstate EXCEPT ![c] = "SHUTTING_DOWN"]

(* Cleanup complete: the container's network namespace is gone. *)
Stopped(c) == Step(c, "SHUTTING_DOWN", "STOPPED")

Next == \E c \in Containers : Start(c) \/ Boot(c) \/ Ready(c) \/ Stop(c) \/ Stopped(c)
=============================================================================
