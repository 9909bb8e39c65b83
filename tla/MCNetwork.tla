------------------------------ MODULE MCNetwork ------------------------------
(* The parts of the system that meet the network driver from the inside,     *)
(* the router, the station's connection and the internet SDR, checked in one *)
(* run.  They share no state: a behaviour is one of the part that the start  *)
(* has chosen, while the others rest in an initial state, in which nothing   *)
(* that fairness speaks of is enabled.                                       *)
(*                                                                           *)
(* Router: three events may wait, those of a stop and of a start that        *)
(* follows.  Station: two networks, four events.  SDR: two frequencies; the  *)
(* ring of the code with its three full buffers to start, of two samples.    *)
EXTENDS Router, Wifi, KiwiSession, KiwiAudio

CONSTANTS n1, n2, f1, f2

MCNets == {n1, n2}
MCFreqs == {f1, f2}

VARIABLE part  \* the part that runs

MCInit ==
    /\ part \in {"router", "station", "sdr", "sound"}
    /\ Init /\ (part # "router" => radio = "off")
    /\ WifiInit /\ (part # "station" => config = NoNet)
    /\ SdrInit /\ (part # "sdr" => freq = f1)
    /\ RingInit

MCNext ==
    \/ part = "router" /\ Next /\ UNCHANGED <<part, wifiVars, sdrVars, ringVars>>
    \/ part = "station" /\ WifiNext /\ UNCHANGED <<part, vars, sdrVars, ringVars>>
    \/ part = "sdr" /\ SdrNext /\ UNCHANGED <<part, vars, wifiVars, ringVars>>
    \/ part = "sound" /\ RingNext /\ UNCHANGED <<part, vars, wifiVars, sdrVars>>

MCSpec ==
    /\ MCInit /\ [][MCNext]_<<part, vars, wifiVars, sdrVars, ringVars>>
    /\ Fairness /\ SdrFairness /\ RingFairness
=============================================================================
