------------------------ MODULE MCTrackerCommunicator -----------------------
(* The bounds of TrackerCommunicator for TLC are in Trackers.cfg.           *)
EXTENDS TrackerCommunicator
=============================================================================
