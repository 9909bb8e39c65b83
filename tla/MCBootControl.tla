---------------------------- MODULE MCBootControl ----------------------------
(* The sequence numbers go up to MaxSeq, enough for the device to change    *)
(* slots several times in both directions.                                  *)
EXTENDS BootControl
=============================================================================
