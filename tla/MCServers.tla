----------------------------- MODULE MCServers -------------------------------
(* The two servers that give access to the device, FTP and the hotspot's web *)
(* page, checked in one run as two parts that share no state: a behaviour is *)
(* one of the part that the start has chosen, while the other rests.         *)
(*                                                                           *)
(* FTP: one owner, another name a client may try, two passwords and two      *)
(* addresses.  Hotspot: two browsers, two access keys, time for seven wrong  *)
(* keys.                                                                     *)
EXTENDS FtpServer, Hotspot

CONSTANTS ann, bob, right, other, ip1, ip2, c1, c2, k1, k2

MCUsers == {ann, bob}
MCOwners == {ann}
MCPasswords == {right, other}
MCAddrs == {ip1, ip2}
MCClients == {c1, c2}
MCKeys == {k1, k2}

VARIABLE part  \* the part that runs

MCInit ==
    /\ part \in {"ftp", "hotspot"}
    /\ Init /\ (part # "ftp" => addr = None /\ name = None)
    /\ HotspotInit

MCNext ==
    \/ part = "ftp" /\ Next /\ UNCHANGED <<part, hotspotVars>>
    \/ part = "hotspot" /\ HotspotNext /\ UNCHANGED <<part, vars>>

MCSpec ==
    /\ MCInit /\ [][MCNext]_<<part, vars, hotspotVars>>
    /\ Fairness /\ HotspotFairness
=============================================================================
