----------------------------- MODULE MCHeavyLock -----------------------------
(* The heavy lock with the UI task, the web server task and the checker.   *)
(* The waits are shorter than the checker's interval, as 15 s and 20 s are *)
(* against 6 hours.                                                        *)
EXTENDS HeavyLock

CONSTANTS ui, web, ota

MCClients == {ui, web}
MCWait == [t \in MCClients \cup {ota} |-> IF t = ui THEN 2 ELSE 1]
=============================================================================
