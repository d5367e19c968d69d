---------------------------- MODULE MC_HotplugNet ----------------------------
EXTENDS HotplugNet, TLC

CONSTANTS c0, c1, e1, e2, w1, m1, k1, k2

MCContainers == {c0, c1}
MCIfaces == {e1, w1}
MCKernelNames == {k1, k2}
(* Only the wired interface is named in a container's configuration. *)
MCMappedWired == {e1}
MCDevtype == (e1 :> "") @@ (w1 :> "wlan")
(* Both interfaces present at start, in cmld's list in this order. *)
MCInitName == (e1 :> k1) @@ (w1 :> k2)
MCInitPhys == <<k1, k2>>

(* A second wired interface, not present at start. *)
MCIfaces3 == {e1, e2, w1}
MCDevtype3 == (e1 :> "") @@ (e2 :> "") @@ (w1 :> "wlan")
MCInitName3 == (e1 :> k1) @@ (e2 :> "none") @@ (w1 :> k2)

(* And a mobile broadband modem, not present at start. *)
MCIfaces4 == MCIfaces3 \cup {m1}
MCDevtype4 == MCDevtype3 @@ (m1 :> "wwan")
MCInitName4 == MCInitName3 @@ (m1 :> "none")
=============================================================================
