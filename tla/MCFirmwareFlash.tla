--------------------------- MODULE MCFirmwareFlash ---------------------------
(* The UI task and the hotspot's server task install images of two chunks   *)
(* into a slot with room for three; three installs, so that two can overlap *)
(* after an earlier one has filled the slot.                                *)
EXTENDS FirmwareFlash

CONSTANTS ui, web, j1, j2, j3

MCTasks == {ui, web}
MCJobs == {j1, j2, j3}
=============================================================================
