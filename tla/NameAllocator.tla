---------------------------- MODULE NameAllocator ----------------------------
(***************************************************************************)
(* What the hotplug coordinator promises about the names it gives         *)
(* physical network interfaces (spec section 4.4, rule 3(b), and property *)
(* 4): a unique host-scope name cml<family><n>, with n strictly monotonic *)
(* per family.                                                            *)
(*                                                                         *)
(* next[f] is the next index of family f.  held is the set of cml names   *)
(* interfaces carry.  An allocation takes the next index of its family    *)
(* and moves it on; the name is either taken by an interface or, when    *)
(* the rename fails, lost.  Interfaces may drop names (they disappear or  *)
(* are renamed back by the kernel), never take one otherwise.             *)
(***************************************************************************)
EXTENDS Naturals

CONSTANT Families

VARIABLES next, held

Name(f, n) == [infix |-> f, idx |-> n]

Init == next = [f \in Families |-> 0] /\ held = {}

Allocate(f) ==
    /\ next' = [next EXCEPT ![f] = @ + 1]
    /\ held' \in {held, held \cup {Name(f, next[f])}}

Release ==
    /\ held' \subseteq held /\ held' # held
    /\ next' = next

Next == (\E f \in Families : Allocate(f)) \/ Release

Spec == Init /\ [][Next]_<<next, held>>

(* Every name held was allocated before: its index is below its family's *)
(* counter, so no later allocation hands it out again.                   *)
Fresh == \A nm \in held : nm.idx < next[nm.infix]
=============================================================================
