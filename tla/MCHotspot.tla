----------------------------- MODULE MCHotspot -------------------------------
(* Two browsers and two access keys; time enough for seven wrong keys.     *)
EXTENDS Hotspot

CONSTANTS c1, c2, k1, k2

MCClients == {c1, c2}
MCKeys == {k1, k2}
=============================================================================
