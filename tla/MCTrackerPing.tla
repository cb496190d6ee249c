---------------------------- MODULE MCTrackerPing -----------------------------
(* Small instances of TrackerPing.  Run identities are interchangeable: they *)
(* only index pc and loc.                                                    *)
EXTENDS TrackerPing, TLC

MCSymmetry == Permutations(Runs)

Ready(vpn) == [creds |-> TRUE, vpn |-> vpn]

(* The user may choose a proxy here, which skips the UDP trackers.           *)
NoVpn == {Ready("off")}

(* ... or restart with a VPN that turns out to leak.                         *)
MaybeVpn == NoVpn \cup {Ready("leaking")}
===============================================================================
